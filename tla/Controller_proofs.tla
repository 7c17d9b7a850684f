------------------------ MODULE Controller_proofs ------------------------
(***************************************************************************)
(* Theorems about module Controller, for any number of finalization        *)
(* functions, versions of the CR and faults, and whatever the CR asks for. *)
(*                                                                         *)
(* A step of the whole controller is one of Lifecycle, or one that         *)
(* Lifecycle does not see.  Its invariants are thus true of the controller *)
(* as well, and with them what a pass may create and for whom.             *)
(*                                                                         *)
(* That a CR is served when the controller rests takes an invariant of its *)
(* own: unless a pass is due, or a version on its way will raise one, the  *)
(* pass knows the resource as it is, and leaves it as the CR asks.  Every  *)
(* version that goes has an owner, or the next one has, which is what the  *)
(* watch needs to find out.                                                *)
(***************************************************************************)
EXTENDS Controller, Lifecycle_proofs, Versions_proofs

---------------------------------------------------------------------------
(* The controller implements Lifecycle *)

\* The steps of ReconcileOwnedResources are in its "continue".
LEMMA OwnedSteps ==
  ASSUME ReconcileOwned
  PROVE  UNCHANGED vars \/ Body
<1>1. Fail /\ pc = "continue" => Body
  BY DEF Fail, Leave, Body, Requeue
<1>2. EndPass => Body
  BY DEF EndPass, In, Leave, Body, Requeue, Return
<1>3. \A p : Goto(p) => UNCHANGED vars
  BY DEF Goto
<1>4. GetLive => UNCHANGED vars
  BY <1>3 DEF GetLive
<1>5. Create \/ RemoveDisabled \/ DeleteOrphan => UNCHANGED vars \/ Body
  BY <1>1, <1>3 DEF Create, RemoveDisabled, DeleteOrphan, In
<1>6. Track \/ List => UNCHANGED vars
  BY <1>3 DEF Track, List
<1> QED
  BY <1>2, <1>4, <1>5, <1>6 DEF ReconcileOwned

LEMMA StepImplements ==
  ASSUME [ControllerNext]_allVars
  PROVE  [Next]_vars
<1>1. CASE Env \/ CacheSync \/ ReplyLost
  BY <1>1 DEF Next
<1>2. CASE GarbageCollect \/ Reap \/ ResourceSync
  BY <1>2 DEF GarbageCollect, Reap, ResourceSync, Next
<1>3. CASE ManageLifecycle
  BY <1>3 DEF ManageLifecycle, Next, Work
<1>4. CASE ReconcileOwned
  BY <1>4, OwnedSteps DEF Next, Work
<1>5. CASE AnyCallFails \/ ControllerRestart
  BY <1>5 DEF AnyCallFails, ControllerRestart, Next
<1>6. CASE WriteReplyLost
  <2>1. CallFails
    BY <1>6 DEF WriteReplyLost, CallFails, In
  <2> QED
    BY <2>1 DEF Next
<1>7. CASE UNCHANGED allVars
  BY <1>7 DEF allVars
<1> QED
  BY <1>1, <1>2, <1>3, <1>4, <1>5, <1>6, <1>7
     DEF ControllerNext, ControllerWork

\* Every step of the whole controller is one of Lifecycle, or none.
THEOREM ControllerImplements == ControllerSpec => ImplementsLifecycle
<1>1. ControllerInit => Init
  BY DEF ControllerInit
<1> QED
  BY <1>1, StepImplements, PTL DEF ControllerSpec, ImplementsLifecycle, Spec

\* What was proved of Lifecycle holds while it reconciles resources, too.
THEOREM LifecycleInvariants ==
  ControllerSpec => [](/\ TypeOK /\ FinalizedBeforeRelease
                       /\ ContinueIsProtected /\ ContinueIsUnfinalized)
BY ControllerImplements, TypeCorrect, FinalizedFirst, ContinueProtected,
   ContinueUnfinalized, PTL DEF ImplementsLifecycle

---------------------------------------------------------------------------
(* Types *)

ResOK == res \in Seq(Resource) /\ res # <<>>

LocalOK ==
  /\ at \in {"template", "create", "remove", "track", "list", "delete", "end"}
  /\ pc # "continue" => at = "template" /\ ~again
  /\ again \in BOOLEAN /\ tracked \in BOOLEAN

LEMMA InitRes == ControllerInit => ResOK
<1>1. NoRes \in Resource
  BY DEF NoRes, Resource
<1> QED
  BY <1>1 DEF ControllerInit, ResOK

LEMMA StoreKeeps ==
  ASSUME ResOK, NEW r \in Resource, Store(r)
  PROVE  ResOK' /\ Api' = r
BY AppendEnds DEF ResOK, Store, Api

LEMMA ApiIsResource ==
  ASSUME ResOK
  PROVE  /\ Api \in Resource /\ NoRes \in Resource
         /\ [Api EXCEPT !.deleting = TRUE] \in Resource
<1>1. Api \in Resource
  BY SeqEnds DEF ResOK, Api
<1> QED
  BY <1>1 DEF Resource, NoRes

\* A delete leaves nothing that was not there.
LEMMA DeleteKeeps ==
  ASSUME ResOK, Delete
  PROVE  ResOK' /\ (Exists(Api') => Exists(Api))
<1>1. CASE UNCHANGED res
  BY <1>1 DEF ResOK, Api, Exists
<1>2. CASE Store(NoRes)
  BY <1>2, ApiIsResource, StoreKeeps DEF Exists, NoRes
<1>3. CASE Store([Api EXCEPT !.deleting = TRUE])
  BY <1>3, ApiIsResource, StoreKeeps DEF Exists, Resource
<1> QED
  BY <1>1, <1>2, <1>3 DEF Delete

\* What a step makes of the resource: only a Create makes one.
LEMMA ResStep ==
  ASSUME TypeOK, ResOK, [ControllerNext]_allVars
  PROVE  /\ ResOK'
         /\ ~Exists(Api) /\ Exists(Api') => In("create") /\ Api' = Owned
<1>1. CASE UNCHANGED res
  BY <1>1 DEF ResOK, Api, Exists
<1>2. CASE Delete
  BY <1>2, DeleteKeeps
<1>3. CASE In("create") /\ Store(Owned)
  <2>1. Owned \in Resource
    BY VersionsAreCRs DEF Owned, Resource, CR
  <2> QED
    BY <1>3, <2>1, StoreKeeps
<1>4. CASE Reap
  BY <1>4, ApiIsResource, StoreKeeps DEF Reap, Exists, NoRes
<1>5. CASE ResourceSync
  <2>1. res' = Tail(res) /\ Len(res) > 1
    BY <1>5 DEF ResourceSync
  <2> QED
    BY <2>1, TailEnds DEF ResOK, Api, Exists
<1>6. CASE ControllerRestart
  BY <1>6, LastEnds, ApiIsResource DEF ControllerRestart, ResOK, Api, Exists
<1> QED
  BY <1>1, <1>2, <1>3, <1>4, <1>5, <1>6
     DEF ControllerNext, ControllerWork, ManageLifecycle, ReconcileOwned,
         GetLive, Create, RemoveDisabled, Track, List, DeleteOrphan, EndPass,
         Fail, GarbageCollect, AnyCallFails, WriteReplyLost, allVars, owned

\* Whoever is not in the body has no locals.
LEMMA LocalStays ==
  ASSUME LocalOK, [ControllerNext]_allVars
  PROVE  LocalOK'
<1>1. CASE ManageLifecycle
  <2>1. pc # "continue" /\ UNCHANGED <<at, again, tracked>>
    BY <1>1 DEF ManageLifecycle, owned, Pop, GetStep, GetNotFound,
         GetBeingDeleted, GetUninitialized, GetInitialized, Initialize,
         RunFinalizationFn, Release
  <2> QED
    BY <2>1 DEF LocalOK
<1>2. CASE ReconcileOwned
  <2>1. pc = "continue"
    BY <1>2 DEF ReconcileOwned, GetLive, Create, RemoveDisabled, Track, List,
                DeleteOrphan, EndPass, In
  <2>2. CASE Fail \/ EndPass
    BY <2>2 DEF Fail, EndPass, Leave, LocalOK
  <2>3. CASE GetLive
    <3>1. at' \in {"list", "track", "create", "remove"}
      BY <2>3 DEF GetLive, Goto
    <3> QED
      BY <2>1, <2>3, <3>1 DEF GetLive, Goto, vars, LocalOK
  <2>4. CASE Track
    BY <2>1, <2>4 DEF Track, Goto, vars, LocalOK
  <2>5. CASE List
    BY <2>1, <2>5 DEF List, Goto, vars, LocalOK
  <2>6. CASE Create \/ RemoveDisabled \/ DeleteOrphan
    BY <2>1, <2>2, <2>6
       DEF Create, RemoveDisabled, DeleteOrphan, Goto, vars, LocalOK
  <2> QED
    BY <1>2, <2>2, <2>3, <2>4, <2>5, <2>6 DEF ReconcileOwned
<1>3. CASE (Env \/ CacheSync \/ ReplyLost) /\ UNCHANGED owned
  <2>1. UNCHANGED <<at, again, tracked>> /\ (pc' = pc \/ pc # "continue")
    BY <1>3 DEF owned, Env, UserCreate, UserEdit, UserDelete, OtherReleased,
                CacheSync, ReplyLost, worker
  <2> QED
    BY <2>1 DEF LocalOK
<1>4. CASE GarbageCollect \/ Reap \/ ResourceSync
  <2>1. UNCHANGED <<pc, at, again, tracked>>
    BY <1>4 DEF GarbageCollect, Reap, ResourceSync, OwnedChanged, vars, worker
  <2> QED
    BY <2>1 DEF LocalOK
<1>5. CASE AnyCallFails \/ WriteReplyLost \/ ControllerRestart
  BY <1>5 DEF AnyCallFails, WriteReplyLost, ControllerRestart, LocalOK
<1>6. CASE UNCHANGED allVars
  BY <1>6 DEF allVars, owned, vars, LocalOK
<1> QED
  BY <1>1, <1>2, <1>3, <1>4, <1>5, <1>6 DEF ControllerNext, ControllerWork

\* The variables keep their types, and no pass leaves anything behind.
THEOREM ControllerTypeCorrect == ControllerSpec => []ControllerTypeOK
<1>1. ControllerInit => ResOK /\ LocalOK
  BY InitRes DEF ControllerInit, Init, LocalOK
<1>2. TypeOK /\ ResOK /\ LocalOK /\ [ControllerNext]_allVars
        => ResOK' /\ LocalOK'
  BY ResStep, LocalStays
<1>3. TypeOK /\ ResOK /\ LocalOK => ControllerTypeOK
  BY SeqEnds DEF ResOK, LocalOK, ControllerTypeOK
<1> QED
  BY <1>1, <1>2, <1>3, LifecycleInvariants, PTL DEF ControllerSpec

\* A resource is only created for the CR that the API server has, before any
\* finalization function took effect for it.
THEOREM CreatesForTheLiving == ControllerSpec => CreatedForTheLiving
<1>1. ControllerInit => ResOK
  BY InitRes
<1>2. TypeOK /\ ResOK /\ [ControllerNext]_allVars => ResOK'
  BY ResStep
<1>3. TypeOK /\ ResOK /\ ContinueIsProtected /\ ContinueIsUnfinalized
        /\ [ControllerNext]_allVars
        => (UseFinalizer /\ ~Exists(Api) /\ Exists(Api') =>
              /\ Api'.owner = cr.uid
              /\ \A f \in Fns : <<cr.uid, f>> \notin done)
  BY ResStep DEF In, Owned, ContinueIsProtected, ContinueIsUnfinalized
<1> QED
  BY <1>1, <1>2, <1>3, LifecycleInvariants, PTL
     DEF ControllerSpec, CreatedForTheLiving

---------------------------------------------------------------------------
(* What the controller rests with *)

\* Nothing is said of a state in which a pass is due for the CR, or in which
\* there is none to serve.
Due == queued \/ synced # Len(log) \/ cr.uid = 0 \/ cr.deleting

\* A pass is due for its resource, too: the type was only tracked in this
\* pass, or a version is on its way whose event will raise one.
Pending == Due \/ again \/ (tracked /\ Len(res) # 1)

\* Whatever is there has an owner, and one of two versions that follow each
\* other is there: an event of a type that is watched always finds an owner.
OwnedRes == {r \in Resource : r = NoRes \/ (r.there /\ r.owner # 0)}

Linked(s) == \A i \in 1..(Len(s) - 1) : s[i].owner # 0 \/ s[i + 1].owner # 0

OwnedVersions == res \in Seq(OwnedRes) /\ res # <<>> /\ Linked(res)

\* The pass is about the newest version of the CR.
Current ==
  /\ pc \notin {"idle", "get"} /\ ~Due => read = Len(log)
  /\ pc = "continue" => obj.uid # 0
  /\ pc = "finalize" => obj.deleting

Gone(r) == ~Exists(r) \/ r.deleting

Served ==
  IF Wanted[cr.rev] = "enabled" THEN tracked /\ Exists(Api)
    ELSE tracked => Gone(Api)

\* What the pass knows of the resource, from step to step.
PassOK ==
  pc = "continue" =>
    /\ at \in {"create", "track"} => mode = "enabled"
    /\ at \in {"remove", "delete"} => mode # "enabled"
    /\ ~Pending =>
         /\ at = "track" /\ tracked => Exists(Api)
         /\ at = "list" /\ mode = "enabled" => tracked /\ Exists(Api)
         /\ at = "end" => Served

RestOK == pc = "idle" /\ ~Pending => Served

ServedInv == OwnedVersions /\ Current /\ PassOK /\ RestOK

---------------------------------------------------------------------------
(* Versions of the resource *)

LEMMA ApiIsOwned ==
  ASSUME OwnedVersions
  PROVE  /\ Api \in OwnedRes /\ Cached \in OwnedRes /\ Len(res) > 0
         /\ NoRes \in OwnedRes /\ ~Exists(NoRes) /\ NoRes.owner = 0
         /\ Len(res) = 1 => Cached = Api
<1>1. NoRes \in Resource
  BY DEF NoRes, Resource
<1> QED
  BY <1>1, SeqEnds DEF OwnedVersions, OwnedRes, Api, Cached, NoRes, Exists

\* A version that is written is on its way.
LEMMA StoreOwned ==
  ASSUME OwnedVersions, NEW r \in OwnedRes, Store(r),
         r.owner # 0 \/ Api.owner # 0
  PROVE  OwnedVersions' /\ Api' = r /\ Len(res') # 1
<1>1. res \in Seq(OwnedRes) /\ Len(res) > 0 /\ res # <<>>
  BY ApiIsOwned DEF OwnedVersions
<1>2. res' = Append(res, r)
  BY DEF Store
<1>3. /\ res' \in Seq(OwnedRes) /\ res' # <<>> /\ Api' = r
      /\ Len(res') = Len(res) + 1 /\ Len(res) \in Nat
  BY <1>1, <1>2, AppendEnds DEF Api
<1>4. ASSUME NEW i \in 1..(Len(res') - 1)
      PROVE  res'[i].owner # 0 \/ res'[i + 1].owner # 0
  <2>1. CASE i = Len(res)
    <3>1. res'[i] = Api /\ res'[i + 1] = r
      BY <1>1, <1>2, <2>1 DEF Api, Last
    <3> QED
      BY <3>1
  <2>2. CASE i # Len(res)
    <3>1. i \in 1..(Len(res) - 1)
      BY <1>3, <2>2
    <3>2. res'[i] = res[i] /\ res'[i + 1] = res[i + 1]
      BY <1>1, <1>2, <3>1
    <3> QED
      BY <3>1, <3>2 DEF OwnedVersions, Linked
  <2> QED
    BY <2>1, <2>2
<1> QED
  BY <1>1, <1>3, <1>4 DEF OwnedVersions, Linked

LEMMA DeleteOwned ==
  ASSUME OwnedVersions, Exists(Api), Delete
  PROVE  /\ OwnedVersions' /\ Gone(Api')
         /\ res' = res \/ Len(res') # 1
<1>1. Api \in OwnedRes /\ Api.owner # 0 /\ NoRes \in OwnedRes /\ ~Exists(NoRes)
  BY ApiIsOwned DEF OwnedRes, Exists
<1>2. CASE Api.deleting /\ UNCHANGED res
  BY <1>2 DEF OwnedVersions, Gone, Api
<1>3. CASE Store(NoRes)
  BY <1>1, <1>3, StoreOwned DEF Gone
<1>4. CASE Store([Api EXCEPT !.deleting = TRUE])
  <2> DEFINE r == [Api EXCEPT !.deleting = TRUE]
  <2>1. /\ r \in Resource /\ r.there = Api.there /\ r.owner = Api.owner
        /\ r.deleting = TRUE
    BY <1>1 DEF OwnedRes, Resource
  <2> HIDE DEF r
  <2>2. r \in OwnedRes
    BY <1>1, <2>1 DEF OwnedRes, Exists
  <2> QED
    BY <1>1, <1>4, <2>1, <2>2, StoreOwned DEF r, Gone
<1> QED
  BY <1>2, <1>3, <1>4 DEF Delete

\* The event of a type that is watched raises a pass.
LEMMA SyncOwned ==
  ASSUME OwnedVersions, ResourceSync
  PROVE  OwnedVersions' /\ Api' = Api /\ (tracked => queued')
<1>1. res \in Seq(OwnedRes) /\ Len(res) > 1 /\ res' = Tail(res)
  BY DEF OwnedVersions, ResourceSync
<1>2. /\ res' \in Seq(OwnedRes) /\ res' # <<>> /\ Api' = Api
      /\ Len(res) \in Nat
  BY <1>1, TailEnds DEF Api
<1>3. Linked(res')
  <2> SUFFICES ASSUME NEW i \in 1..(Len(res') - 1)
               PROVE  res'[i].owner # 0 \/ res'[i + 1].owner # 0
    BY DEF Linked
  <2>1. /\ Len(res') = Len(res) - 1
        /\ \A j \in 1..(Len(res) - 1) : res'[j] = res[j + 1]
    BY <1>1
  <2>2. i + 1 \in 1..(Len(res) - 1) /\ i \in 1..(Len(res) - 1)
    BY <1>2, <2>1
  <2>3. res[i + 1].owner # 0 \/ res[i + 2].owner # 0
    <3>1. (i + 1) + 1 = i + 2
      BY <2>2
    <3> QED
      BY <2>2, <3>1 DEF OwnedVersions, Linked
  <2>4. res'[i] = res[i + 1] /\ res'[i + 1] = res[i + 2]
    BY <2>1, <2>2
  <2> QED
    BY <2>3, <2>4
<1>4. ASSUME tracked PROVE queued'
  <2>1. res[1].owner # 0 \/ res[2].owner # 0
    BY <1>1 DEF OwnedVersions, Linked
  <2>2. Raises
    BY <1>4, <2>1 DEF Raises
  <2> QED
    BY <2>2 DEF ResourceSync, OwnedChanged
<1> QED
  BY <1>2, <1>3, <1>4 DEF OwnedVersions

\* What is there has an owner, always.
LEMMA OwnedStep ==
  ASSUME TypeOK, OwnedVersions, Current, [ControllerNext]_allVars
  PROVE  OwnedVersions'
<1>1. CASE UNCHANGED res
  BY <1>1 DEF OwnedVersions
<1>2. CASE Exists(Api) /\ Delete
  BY <1>2, DeleteOwned
<1>3. CASE In("create") /\ Store(Owned)
  <2>1. obj.uid # 0 /\ obj.uid \in Nat
    BY <1>3, VersionsAreCRs DEF Current, In, CR
  <2>2. Owned \in OwnedRes /\ Owned.owner # 0
    BY <2>1 DEF Owned, OwnedRes, Resource
  <2> QED
    BY <1>3, <2>2, StoreOwned
<1>4. CASE Reap
  <2>1. Api.owner # 0
    BY <1>4, ApiIsOwned DEF Reap, OwnedRes, NoRes
  <2> QED
    BY <1>4, <2>1, ApiIsOwned, StoreOwned DEF Reap
<1>5. CASE ResourceSync
  BY <1>5, SyncOwned
<1>6. CASE ControllerRestart
  <2>1. res' = <<Api>> /\ Api \in OwnedRes
    BY <1>6, ApiIsOwned DEF ControllerRestart
  <2>2. res' \in Seq(OwnedRes) /\ res' # <<>> /\ Linked(res')
    BY <2>1 DEF Linked
  <2> QED
    BY <2>2 DEF OwnedVersions
<1> QED
  BY <1>1, <1>2, <1>3, <1>4, <1>5, <1>6
     DEF ControllerNext, ControllerWork, ManageLifecycle, ReconcileOwned,
         GetLive, Create, RemoveDisabled, Track, List, DeleteOrphan, EndPass,
         Fail, GarbageCollect, Condemned, AnyCallFails, WriteReplyLost,
         allVars, owned

---------------------------------------------------------------------------
(* Versions of the CR *)

\* A version of the CR makes a pass due, and a pass that is due stays so until
\* the worker takes the key.
LEMMA StepDue ==
  ASSUME TypeOK, LifecycleInv, [Next]_vars
  PROVE  /\ log' # log => Due'
         /\ Due => Due' \/ Pop
<1>1. ASSUME log' # log PROVE Due'
  <2>1. PICK o \in CR : Write(o)
    BY <1>1, StepWrites
  <2>2. Len(log') = Len(log) + 1
    BY <2>1, WriteAppends
  <2>3. synced' = synced
    BY <1>1 DEF Next, Env, UserCreate, UserEdit, UserDelete, OtherReleased,
         Work, CacheSync, OwnedChanged, Pop, GetNotFound, GetBeingDeleted,
         GetUninitialized, GetInitialized, GetStep, Initialize,
         RunFinalizationFn, Release, Body, CallFails, ReplyLost, Restart,
         vars, worker
  <2>4. synced \in 1..Len(log) /\ Len(log) \in Nat
    BY VersionsAreCRs DEF TypeOK, Version
  <2> QED
    BY <2>2, <2>3, <2>4 DEF Due
<1>2. ASSUME log' = log, Due, ~Pop PROVE Due'
  <2>1. cr' = cr
    BY <1>2 DEF cr
  <2>2. queued' \/ (queued' = queued /\ synced' = synced) \/ cr'.uid = 0
    BY <1>2, <2>1
       DEF Next, Env, UserCreate, UserEdit, UserDelete, OtherReleased,
         Work, CacheSync, OwnedChanged, GetNotFound, GetBeingDeleted,
         GetUninitialized, GetInitialized, GetStep, Initialize,
         RunFinalizationFn, Release, Body, CallFails, ReplyLost, Restart,
         Requeue, Return, vars, worker
  <2> QED
    BY <1>2, <2>1, <2>2 DEF Due
<1> QED
  BY <1>1, <1>2

LEMMA CurrentStep ==
  ASSUME TypeOK, LifecycleInv, Current, [Next]_vars
  PROVE  Current'
<1>1. \A i \in Version : log'[i] = log[i]
  BY StepKeeps
<1>2. CASE pc' \in {"idle", "get"}
  BY <1>2 DEF Current
<1>3. CASE pc' = pc /\ read' = read /\ pc' \notin {"idle", "get"}
  <2>1. obj' = obj
    BY <1>1, <1>3 DEF obj, TypeOK
  <2>2. ~Due' => ~Due /\ log' = log
    BY <1>3, StepDue DEF Pop
  <2> QED
    BY <1>3, <2>1, <2>2 DEF Current
<1>4. CASE GetBeingDeleted \/ GetUninitialized \/ GetInitialized
  <2>1. read' = synced /\ log' = log /\ synced' = synced /\ obj' = log[synced]
    BY <1>4
       DEF GetBeingDeleted, GetUninitialized, GetInitialized, GetStep, obj
  <2>2. pc' = "continue" => obj'.uid # 0
    BY <1>4, <2>1
       DEF GetBeingDeleted, GetUninitialized, GetInitialized, Return
  <2>3. pc' = "finalize" => obj'.deleting
    BY <1>4, <2>1
       DEF GetBeingDeleted, GetUninitialized, GetInitialized, Return
  <2> QED
    BY <2>1, <2>2, <2>3 DEF Current, Due
<1> QED
  BY <1>2, <1>3, <1>4
     DEF Next, Env, UserCreate, UserEdit, UserDelete, OtherReleased, Work,
         CacheSync, OwnedChanged, Pop, GetNotFound, Initialize,
         RunFinalizationFn, Release, Body, CallFails, ReplyLost, Restart,
         Requeue, Return, GetStep, vars, worker

---------------------------------------------------------------------------
(* The steps *)

RestInv == TypeOK /\ LifecycleInv /\ LocalOK /\ ServedInv

\* What is left to be shown of a step.
LEMMA RestStep ==
  ASSUME RestInv, [ControllerNext]_allVars, PassOK', RestOK'
  PROVE  RestInv'
<1>1. [Next]_vars
  BY StepImplements
<1> QED
  BY <1>1, NextInv, LocalStays, OwnedStep, CurrentStep DEF RestInv, ServedInv

LEMMA InitRest == ControllerInit => RestInv
<1> SUFFICES ASSUME ControllerInit PROVE RestInv
  OBVIOUS
<1>1. Init /\ res = <<NoRes>> /\ NoRes \in OwnedRes
  BY DEF ControllerInit, OwnedRes, NoRes, Resource
<1>2. res \in Seq(OwnedRes) /\ res # <<>> /\ Linked(res)
  BY <1>1 DEF Linked
<1>3. cr.uid = 0 /\ pc = "idle"
  BY <1>1 DEF Init, cr, NoCR
<1> QED
  BY <1>1, <1>2, <1>3, InitTypeOK, InitInv
     DEF RestInv, ServedInv, ControllerInit, LocalOK, OwnedVersions, Current,
         PassOK, RestOK, Pending, Due

\* With a pass due, all that counts is what the pass works on.
LEMMA DueRest ==
  ASSUME PassOK, Due', at' = at, pc' = "continue" => pc = "continue" /\ obj' = obj
  PROVE  PassOK' /\ RestOK'
BY DEF PassOK, RestOK, Pending, mode

\* The resource changes, or its cache.
LEMMA ResourceRest ==
  ASSUME RestInv, GarbageCollect \/ Reap \/ ResourceSync
  PROVE  RestInv'
<1>1. /\ UNCHANGED <<log, synced, pc, read, at, again, tracked>>
      /\ queued' \/ queued' = queued
  BY DEF GarbageCollect, Reap, ResourceSync, OwnedChanged, vars, worker
<1>2. tracked => Pending'
  <2>1. CASE ResourceSync
    BY <2>1, SyncOwned DEF RestInv, ServedInv, Pending, Due
  <2>2. CASE GarbageCollect
    <3>1. Store(NoRes) \/ Store([Api EXCEPT !.deleting = TRUE])
      BY <2>2 DEF GarbageCollect, Condemned, Delete
    <3>2. Len(res') = Len(res) + 1 /\ Len(res) \in Nat /\ Len(res) > 0
      BY <3>1, ApiIsOwned DEF RestInv, ServedInv, OwnedVersions, Store
    <3> QED
      BY <1>1, <3>2 DEF Pending
  <2>3. CASE Reap
    <3>1. Len(res') = Len(res) + 1 /\ Len(res) \in Nat /\ Len(res) > 0
      BY <2>3, ApiIsOwned DEF RestInv, ServedInv, OwnedVersions, Store, Reap
    <3> QED
      BY <1>1, <3>1 DEF Pending
  <2> QED
    BY <2>1, <2>2, <2>3
<1>3. obj' = obj /\ cr' = cr /\ mode' = mode
  BY <1>1 DEF obj, cr, mode
<1>4. ASSUME Pending' PROVE PassOK' /\ RestOK'
  BY <1>1, <1>3, <1>4 DEF RestInv, ServedInv, PassOK, RestOK
<1>5. ASSUME ~Pending' PROVE PassOK' /\ RestOK'
  <2>1. ~tracked /\ ~Pending
    BY <1>1, <1>2, <1>3, <1>5 DEF Pending, Due
  <2> QED
    BY <1>1, <1>3, <2>1 DEF RestInv, ServedInv, PassOK, RestOK, Served
<1> QED
  BY <1>4, <1>5, RestStep DEF ControllerNext

\* Without the resource: the user, the cache of the CR, its lifecycle.
LEMMA LifecycleRest ==
  ASSUME RestInv,
         \/ (Env \/ CacheSync \/ ReplyLost) /\ UNCHANGED owned
         \/ ManageLifecycle
  PROVE  RestInv'
<1>1. [Next]_vars /\ UNCHANGED owned /\ [ControllerNext]_allVars
  BY StepImplements DEF ControllerNext, ControllerWork, ManageLifecycle
<1>2. CASE Env \/ CacheSync \/ ReplyLost
  <2>1. pc' = "continue" => pc = "continue" /\ read' = read
    BY <1>2 DEF Env, UserCreate, UserEdit, UserDelete, OtherReleased,
                CacheSync, ReplyLost, Requeue, worker
  <2>2. obj' = obj \/ pc' # "continue"
    BY <1>1, <2>1, StepKeeps DEF obj, RestInv, TypeOK
  <2>3. Due'
    <3>1. CASE Env
      <4>1. PICK o \in CR : Write(o)
        BY <3>1, UserWrites DEF RestInv, LifecycleInv
      <4>2. log' # log
        <5>1. Len(log') # Len(log)
          BY <4>1, WriteAppends, VersionsAreCRs DEF RestInv
        <5> QED
          BY <5>1
      <4> QED
        BY <1>1, <4>2, StepDue DEF RestInv
    <3>2. CASE CacheSync \/ ReplyLost
      BY <3>2 DEF CacheSync, ReplyLost, Requeue, Due
    <3> QED
      BY <1>2, <3>1, <3>2
  <2> QED
    BY <1>1, <2>1, <2>2, <2>3, DueRest, RestStep
       DEF RestInv, ServedInv, owned
<1>3. CASE ManageLifecycle
  <2>1. pc # "continue" /\ at = "template" /\ at' = "template"
    BY <1>1, <1>3
       DEF RestInv, LocalOK, owned, ManageLifecycle, Pop, GetStep, GetNotFound,
           GetBeingDeleted, GetUninitialized, GetInitialized, Initialize,
           RunFinalizationFn, Release
  <2>2. PassOK'
    BY <2>1 DEF PassOK
  <2>3. pc' = "idle" => Due'
    <3>1. CASE GetNotFound \/ GetBeingDeleted
      BY <3>1 DEF GetNotFound, GetBeingDeleted, GetStep, Due, cr
    <3>2. CASE Initialize \/ RunFinalizationFn
      BY <3>2 DEF Initialize, RunFinalizationFn, Requeue, Due
    <3>3. CASE Release
      <4>1. pc = "finalize" /\ obj.deleting
        BY <3>3 DEF Release, RestInv, ServedInv, Current
      <4>2. Due
        BY <4>1 DEF RestInv, ServedInv, Current, Due, obj, cr
      <4> QED
        BY <1>1, <4>1, <4>2, StepDue DEF Pop, RestInv
    <3> QED
      BY <1>3, <3>1, <3>2, <3>3
         DEF ManageLifecycle, Pop, GetUninitialized, GetInitialized
  <2> QED
    BY <1>1, <2>2, <2>3, RestStep DEF RestOK, Pending
<1> QED
  BY <1>2, <1>3

\* A step of ReconcileOwnedResources within the pass.
LEMMA WithinIs ==
  ASSUME RestInv, UNCHANGED vars, pc = "continue"
  PROVE  /\ obj' = obj /\ cr' = cr /\ mode' = mode /\ (Due' <=> Due)
         /\ pc' = "continue" /\ ~(pc' = "idle")
         /\ ~Due => Wanted[cr.rev] = mode
         /\ RestOK'
BY DEF RestInv, ServedInv, Current, vars, obj, cr, mode, Due, RestOK

LEMMA ReconcileRest ==
  ASSUME RestInv,
         \/ GetLive \/ Track \/ List
         \/ Create /\ ~Exists(Api)
         \/ (RemoveDisabled \/ DeleteOrphan) /\ Exists(Api)
  PROVE  RestInv'
<1>1. UNCHANGED vars /\ pc = "continue"
  BY DEF GetLive, Create, RemoveDisabled, Track, List, DeleteOrphan, In, Goto
<1>2. /\ obj' = obj /\ cr' = cr /\ mode' = mode /\ (Due' <=> Due)
      /\ pc' = "continue" /\ ~Due => Wanted[cr.rev] = mode
      /\ RestOK'
  BY <1>1, WithinIs
<1>3. /\ Api \in OwnedRes /\ Cached \in OwnedRes
      /\ Len(res) = 1 => Cached = Api
  BY ApiIsOwned DEF RestInv, ServedInv
<1>4. PassOK /\ OwnedVersions
  BY DEF RestInv, ServedInv
<1>5. CASE GetLive
  <2>1. /\ UNCHANGED <<res, again, tracked>> /\ Api' = Api /\ at' # "end"
        /\ at' \in {"create", "track"} => mode = "enabled"
        /\ at' \in {"remove", "delete"} => mode # "enabled"
        /\ at' = "track" => Exists(Cached)
        /\ at' = "list" => mode # "enabled"
    BY <1>5 DEF GetLive, Goto, Api
  <2>2. ~Pending' /\ tracked => Cached = Api
    BY <1>3, <2>1 DEF Pending
  <2>3. PassOK'
    BY <1>2, <2>1, <2>2 DEF PassOK
  <2> QED
    BY <1>2, <1>5, <2>3, RestStep
       DEF ControllerNext, ControllerWork, ReconcileOwned
<1>6. CASE Create /\ ~Exists(Api)
  <2>1. /\ at = "create" /\ Store(Owned) /\ at' = "track"
        /\ UNCHANGED <<again, tracked>>
    BY <1>6 DEF Create, Goto, In
  <2>2. obj.uid # 0 /\ obj.uid \in Nat
    BY <1>1, VersionsAreCRs DEF RestInv, ServedInv, Current, CR
  <2>3. Owned \in OwnedRes /\ Owned.owner # 0 /\ Exists(Owned)
    BY <2>2 DEF Owned, OwnedRes, Resource, Exists
  <2>4. Exists(Api')
    BY <1>4, <2>1, <2>3, StoreOwned
  <2>5. PassOK'
    BY <1>1, <1>2, <1>4, <2>1, <2>4 DEF PassOK
  <2> QED
    BY <1>2, <1>6, <2>5, RestStep
       DEF ControllerNext, ControllerWork, ReconcileOwned
<1>7. CASE RemoveDisabled /\ Exists(Api)
  <2>1. at = "remove" /\ at' = "list" /\ mode # "enabled"
    BY <1>1, <1>4, <1>7 DEF RemoveDisabled, Goto, In, PassOK
  <2>2. PassOK'
    BY <1>2, <2>1 DEF PassOK
  <2> QED
    BY <1>2, <1>7, <2>2, RestStep
       DEF ControllerNext, ControllerWork, ReconcileOwned
<1>8. CASE Track
  <2>1. /\ at = "track" /\ at' = "list" /\ res' = res /\ tracked' = TRUE
        /\ again' = (again \/ ~tracked) /\ Api' = Api
    BY <1>8 DEF Track, Goto, In, Api
  <2>2. ~Pending' => ~Pending /\ tracked
    BY <1>2, <2>1 DEF Pending
  <2>3. PassOK'
    BY <1>1, <1>2, <1>4, <2>1, <2>2 DEF PassOK
  <2> QED
    BY <1>2, <1>8, <2>3, RestStep
       DEF ControllerNext, ControllerWork, ReconcileOwned
<1>9. CASE List
  <2>1. /\ at = "list" /\ UNCHANGED <<res, again, tracked>> /\ Api' = Api
        /\ at' = IF tracked /\ Orphaned THEN "delete" ELSE "end"
    BY <1>9 DEF List, Goto, In, Api
  <2>2. /\ Pending' <=> Pending
        /\ Served' <=> Served
    BY <1>2, <2>1 DEF Pending, Served
  <2>3. at' = "delete" => mode # "enabled"
    BY <2>1 DEF Orphaned
  <2>4. ASSUME at' = "end", ~Pending PROVE Served
    <3>1. Wanted[cr.rev] = mode
      BY <1>1, <2>4, WithinIs DEF Pending
    <3>2. CASE mode = "enabled"
      BY <1>1, <1>4, <2>1, <2>4, <3>1, <3>2 DEF PassOK, Served
    <3>3. CASE mode # "enabled" /\ tracked
      <4>1. Cached = Api
        BY <1>3, <2>4, <3>3 DEF Pending
      <4>2. Cached.owner = 0 \/ Cached.deleting
        BY <2>1, <2>4, <3>3 DEF Orphaned
      <4>3. Gone(Api)
        BY <1>3, <4>1, <4>2 DEF Gone, OwnedRes, Exists, NoRes
      <4> QED
        BY <3>1, <3>3, <4>3 DEF Served
    <3> QED
      BY <3>1, <3>2, <3>3 DEF Served
  <2>5. PassOK'
    BY <1>2, <2>1, <2>2, <2>3, <2>4 DEF PassOK
  <2> QED
    BY <1>2, <1>9, <2>5, RestStep
       DEF ControllerNext, ControllerWork, ReconcileOwned
<1>10. CASE DeleteOrphan /\ Exists(Api)
  <2>1. /\ at = "delete" /\ at' = "end" /\ mode # "enabled" /\ Delete
        /\ UNCHANGED <<again, tracked>>
    BY <1>1, <1>4, <1>10 DEF DeleteOrphan, Goto, In, PassOK
  <2>2. Gone(Api')
    BY <1>4, <1>10, <2>1, DeleteOwned
  <2>3. ~Due => Wanted[cr.rev] # "enabled"
    BY <1>1, <2>1, WithinIs
  <2>4. PassOK'
    BY <1>2, <2>1, <2>2, <2>3 DEF PassOK, Pending, Served
  <2> QED
    BY <1>2, <1>10, <2>4, RestStep
       DEF ControllerNext, ControllerWork, ReconcileOwned
<1> QED
  BY <1>5, <1>6, <1>7, <1>8, <1>9, <1>10

\* The end of the pass: with no other due, the CR is served.
LEMMA EndRest ==
  ASSUME RestInv, EndPass
  PROVE  RestInv'
<1>1. /\ pc' = "idle" /\ UNCHANGED <<log, synced, read, res, tracked>>
      /\ pc = "continue" /\ at = "end" /\ ~again'
      /\ queued' = IF again THEN TRUE ELSE queued
  BY DEF EndPass, Requeue, Return, Leave, In
<1>2. cr' = cr /\ Api' = Api
  BY <1>1 DEF cr, Api
<1>3. ~Pending' => ~Pending
  BY <1>1, <1>2 DEF Pending, Due
<1>4. ~Pending => Served
  BY <1>1 DEF RestInv, ServedInv, PassOK
<1>5. PassOK' /\ RestOK'
  BY <1>1, <1>2, <1>3, <1>4 DEF PassOK, RestOK, Served
<1> QED
  BY <1>5, RestStep DEF ControllerNext, ControllerWork, ReconcileOwned

LEMMA StepRest ==
  ASSUME RestInv, [ControllerNext]_allVars
  PROVE  RestInv'
<1>1. CASE GarbageCollect \/ Reap \/ ResourceSync
  BY <1>1, ResourceRest
<1>2. CASE \/ (Env \/ CacheSync \/ ReplyLost) /\ UNCHANGED owned
           \/ ManageLifecycle
  BY <1>2, LifecycleRest
<1>3. CASE Fail \/ AnyCallFails \/ WriteReplyLost \/ ControllerRestart
  <2>1. pc' = "idle" /\ Due'
    BY <1>3 DEF Fail, AnyCallFails, WriteReplyLost, ControllerRestart,
                CallFails, Restart, Requeue, Due, cr
  <2>2. PassOK' /\ RestOK'
    BY <2>1 DEF PassOK, RestOK, Pending
  <2> QED
    BY <2>2, RestStep
<1>4. CASE ReconcileOwned /\ ~Fail
  <2>1. Create => ~Exists(Api)
    BY <1>4 DEF Create
  <2>2. RemoveDisabled \/ DeleteOrphan => Exists(Api)
    BY <1>4 DEF RemoveDisabled, DeleteOrphan
  <2>3. CASE EndPass
    BY <2>3, EndRest
  <2>4. CASE ~EndPass
    BY <1>4, <2>1, <2>2, <2>4, ReconcileRest DEF ReconcileOwned
  <2> QED
    BY <2>3, <2>4
<1>5. CASE UNCHANGED allVars
  <2>1. UNCHANGED vars /\ UNCHANGED <<res, at, again, tracked>>
    BY <1>5 DEF allVars, owned
  <2>2. /\ obj' = obj /\ cr' = cr /\ mode' = mode /\ Api' = Api
        /\ (Due' <=> Due) /\ pc' = pc
    BY <2>1 DEF vars, obj, cr, mode, Api, Due
  <2>3. (Pending' <=> Pending) /\ (Served' <=> Served)
    BY <2>1, <2>2 DEF Pending, Served
  <2>4. PassOK' /\ RestOK'
    BY <2>1, <2>2, <2>3 DEF RestInv, ServedInv, PassOK, RestOK
  <2> QED
    BY <2>4, RestStep
<1> QED
  BY <1>1, <1>2, <1>3, <1>4, <1>5 DEF ControllerNext, ControllerWork

\* Without faults, a resource that is there has its type tracked, but for the
\* step between: a pass that creates one goes on to track its type.
TrackedInv == faults = 0 /\ ~tracked => ~Exists(Api) \/ at = "track"

LEMMA NextTracked ==
  ASSUME TypeOK, ResOK, LocalOK, TrackedInv, [ControllerNext]_allVars
  PROVE  TrackedInv'
<1>1. CASE Create /\ ~Exists(Api)
  BY <1>1 DEF Create, Goto, TrackedInv
<1>2. CASE Track
  BY <1>2 DEF Track, TrackedInv
<1>3. CASE AnyCallFails \/ WriteReplyLost \/ ControllerRestart \/ ReplyLost
  <2>1. faults' = faults + 1 /\ faults \in Nat
    BY <1>3 DEF AnyCallFails, WriteReplyLost, ControllerRestart, ReplyLost,
                CallFails, Restart, Fault, TypeOK
  <2> QED
    BY <2>1 DEF TrackedInv
<1>4. CASE \/ (Env \/ CacheSync) /\ UNCHANGED owned
           \/ ManageLifecycle
           \/ UNCHANGED allVars
  <2>1. UNCHANGED <<faults, tracked, at, res>>
    BY <1>4 DEF owned, allVars, vars, Env, UserCreate, UserEdit, UserDelete,
                OtherReleased, CacheSync, ManageLifecycle, Pop, GetNotFound,
                GetBeingDeleted, GetUninitialized, GetInitialized, GetStep,
                Initialize, RunFinalizationFn, Release
  <2> QED
    BY <2>1 DEF TrackedInv, Api, Exists
<1>5. CASE GarbageCollect \/ Reap \/ ResourceSync
  <2>1. UNCHANGED <<faults, tracked, at>>
    BY <1>5 DEF GarbageCollect, Reap, ResourceSync, OwnedChanged, vars, worker
  <2>2. Exists(Api') => Exists(Api)
    <3>1. CASE GarbageCollect
      BY <3>1 DEF GarbageCollect, Condemned
    <3>2. CASE Reap
      BY <3>2, ApiIsResource, StoreKeeps DEF Reap, Exists, NoRes
    <3>3. CASE ResourceSync
      BY <3>3, TailEnds DEF ResourceSync, ResOK, Api, Exists
    <3> QED
      BY <1>5, <3>1, <3>2, <3>3
  <2> QED
    BY <2>1, <2>2 DEF TrackedInv
<1>6. CASE \/ GetLive \/ RemoveDisabled \/ List \/ DeleteOrphan \/ EndPass
           \/ Create /\ Exists(Api)
  <2>1. UNCHANGED <<faults, tracked>> /\ at # "track"
    BY <1>6 DEF GetLive, RemoveDisabled, List, DeleteOrphan, EndPass, Create,
                In, Goto, Leave, Fail, vars
  <2>2. Exists(Api') => Exists(Api)
    BY <1>6, ResStep DEF GetLive, RemoveDisabled, List, DeleteOrphan, EndPass,
                         Create, In
  <2> QED
    BY <2>1, <2>2 DEF TrackedInv
<1> QED
  BY <1>1, <1>2, <1>3, <1>4, <1>5, <1>6
     DEF ControllerNext, ControllerWork, ReconcileOwned

\* When no pass is due, the caches are current and no garbage waits to be
\* collected, a CR that is not being deleted has what it asks for: a
\* resource of its own, or none, whatever CR of its name there was before it,
\* and with the finalizer or without; and of the last CR nothing is left.
\* After a fault InLine excepts a resource that should be gone, of a type that
\* is not tracked.
THEOREM AtRestServed == ControllerSpec => []RestsServed
<1>1. ControllerInit => RestInv
  BY InitRest
<1>2. RestInv /\ [ControllerNext]_allVars => RestInv'
  BY StepRest
<1>3. ASSUME RestInv, TrackedInv, AtRest, cr.uid # 0, ~cr.deleting
      PROVE  InLine
  <2>1. ~Pending /\ pc = "idle"
    BY <1>3 DEF RestInv, LocalOK, AtRest, Pending, Due
  <2>2. Served
    BY <1>3, <2>1 DEF RestInv, ServedInv, RestOK
  <2>3. Exists(Api) => Api.owner # 0
    BY <1>3, ApiIsOwned DEF RestInv, ServedInv, OwnedRes, Exists, NoRes
  <2>4. faults = 0 /\ ~tracked => ~Exists(Api)
    BY <1>3, <2>1 DEF RestInv, LocalOK, TrackedInv
  <2> QED
    BY <1>3, <2>2, <2>3, <2>4 DEF AtRest, Condemned, Served, Gone, InLine
<1>4. ASSUME RestInv, AtRest, cr.uid = 0 PROVE ~Exists(Api) \/ Api.deleting
  <2>1. Exists(Api) => Api.owner # 0
    BY <1>4, ApiIsOwned DEF RestInv, ServedInv, OwnedRes, Exists, NoRes
  <2> QED
    BY <1>4, <2>1 DEF AtRest, Condemned
<1>5. RestInv /\ TrackedInv => RestsServed
  BY <1>3, <1>4 DEF RestsServed
<1>6. ControllerInit => ResOK /\ TrackedInv
  <2>1. ControllerInit => Api = NoRes
    BY DEF ControllerInit, Api, Last
  <2> QED
    BY <2>1, InitRes DEF Exists, NoRes, TrackedInv
<1>7. RestInv /\ ResOK /\ TrackedInv /\ [ControllerNext]_allVars
        => ResOK' /\ TrackedInv'
  BY ResStep, NextTracked DEF RestInv
<1> QED
  BY <1>1, <1>2, <1>5, <1>6, <1>7, PTL DEF ControllerSpec

===========================================================================
