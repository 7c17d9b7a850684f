------------------------ MODULE Lifecycle_proofs ------------------------
(***************************************************************************)
(* Theorems about module Lifecycle, for any number of finalization         *)
(* functions, versions of the CR and faults.                               *)
(*                                                                         *)
(* FinalizedBeforeRelease and ContinueIsProtected are not inductive: the   *)
(* worker acts on a cached version.  The strengthening LifecycleInv says   *)
(* what the cache can still show: deletion is for ever (History), the      *)
(* worker never read further than the cache is synced (ReadSynced), and a  *)
(* CR whose finalizer is gone was seen being deleted by the cache, which   *)
(* will not show it alive again (ReleasedSeen).                            *)
(*                                                                         *)
(* RestsHandled follows the pass to its end: the version that it goes on   *)
(* with is the newest one in the cache, unless another pass is due.        *)
(***************************************************************************)
EXTENDS Lifecycle, TLAPS

---------------------------------------------------------------------------
(* The inductive invariant *)

History ==
  /\ \A i \in Version :
       /\ log[i].uid <= i
       /\ log[i].uid = 0 => ~log[i].deleting /\ ~log[i].finalizer
  /\ \A i, j \in Version :
       i <= j /\ log[i].uid = log[j].uid /\ log[i].deleting => log[j].deleting

ReadSynced == read <= synced

SeenDeleting(u) == \E j \in 1..synced : log[j].uid = u /\ log[j].deleting

ReleasedSeen ==
  \A i \in Version : log[i].finalizer =>
    \/ cr.uid = log[i].uid /\ cr.finalizer
    \/ /\ SeenDeleting(log[i].uid)
       /\ \A f \in Fns : <<log[i].uid, f>> \in done

\* What the worker knows of the version it read, at each of its steps.
WorkerKnows ==
  /\ pc = "initialize" => obj.uid # 0 /\ ~obj.deleting
  /\ pc = "finalize" =>
       /\ obj.deleting
       /\ \A f \in 1..(fn - 1) : <<obj.uid, f>> \in done

LifecycleInv ==
  History /\ ReadSynced /\ ReleasedSeen /\ WorkerKnows /\ ContinueIsProtected

---------------------------------------------------------------------------
(* Writing to the API server *)

\* A write appends one version and keeps the others.
LEMMA WriteAppends ==
  ASSUME TypeOK, NEW o \in CR, Write(o)
  PROVE  /\ log' \in Seq(CR)
         /\ Len(log') = Len(log) + 1
         /\ \A i \in Version : log'[i] = log[i]
         /\ cr' = Stored(o)
         /\ Stored(o) \in CR
<1>1. Stored(o) \in CR
  BY DEF Stored, NoCR, CR
<1> QED
  BY <1>1 DEF TypeOK, Write, Version, cr

\* What a write may be, of the user or of the controller: a new CR, or a
\* change of the newest version that neither undeletes it nor loses an edit.
IsNewCR(o) == o.uid = Len(log) + 1 /\ ~o.deleting /\ ~o.finalizer
IsChange(o) ==
  /\ o.uid = cr.uid /\ cr.uid # 0
  /\ cr.deleting => o.deleting
  /\ o.rev >= cr.rev

LEMMA WriteKeepsHistory ==
  ASSUME TypeOK, History, NEW o \in CR, Write(o), IsNewCR(o) \/ IsChange(o)
  PROVE  History'
<1> DEFINE n == Len(log)
<1>1. /\ log' \in Seq(CR) /\ Len(log') = n + 1
      /\ \A i \in Version : log'[i] = log[i]
      /\ log'[n + 1] = Stored(o)
      /\ n \in Nat /\ n > 0
  BY WriteAppends DEF cr, TypeOK
<1>2. \A i \in Version : log[i] \in CR
  BY DEF TypeOK, Version
<1>3. /\ Stored(o).uid <= n + 1
      /\ Stored(o).uid = 0 => ~Stored(o).deleting /\ ~Stored(o).finalizer
  <2>1. n \in Version /\ cr = log[n]
    BY <1>1 DEF Version, cr
  <2>2. o.uid <= n + 1 /\ o.uid # 0
    BY <1>1, <1>2, <2>1 DEF History, IsNewCR, IsChange, CR
  <2> QED
    BY <1>1, <2>2 DEF Stored, NoCR, CR
<1>4. ASSUME NEW i \in 1..n, log[i].uid = Stored(o).uid, log[i].deleting
      PROVE  Stored(o).deleting
  <2>1. i \in Version /\ n \in Version /\ cr = log[n]
    BY <1>1 DEF Version, cr
  <2>2. log[i].uid # 0 /\ log[i].uid <= n
    <3>1. log[i].uid \in Nat /\ log[i].uid <= i /\ log[i].uid # 0
      BY <1>2, <1>4, <2>1 DEF History, CR
    <3> QED
      BY <1>1, <3>1
  <2>3. Stored(o) = o /\ IsChange(o)
    BY <1>1, <1>4, <2>2 DEF Stored, NoCR, IsNewCR
  <2>4. log[n].deleting
    BY <1>1, <1>4, <2>1, <2>3 DEF History, IsChange
  <2> QED
    BY <2>1, <2>3, <2>4 DEF IsChange
<1>5. \A i \in Version' : i \in Version \/ i = n + 1
  BY <1>1 DEF Version
<1>6. \A i \in Version' :
        /\ log'[i].uid <= i
        /\ log'[i].uid = 0 => ~log'[i].deleting /\ ~log'[i].finalizer
  BY <1>1, <1>3, <1>5 DEF History
<1>7. ASSUME NEW i \in Version', NEW j \in Version', i <= j,
             log'[i].uid = log'[j].uid, log'[i].deleting
      PROVE  log'[j].deleting
  <2>1. CASE j \in Version
    BY <1>1, <1>5, <1>7, <2>1 DEF History, Version
  <2>2. CASE j = n + 1 /\ i \in Version
    BY <1>1, <1>4, <1>7, <2>2 DEF Version
  <2>3. CASE j = n + 1 /\ i = n + 1
    BY <1>7, <2>3
  <2> QED
    BY <1>5, <2>1, <2>2, <2>3
<1> QED
  BY <1>6, <1>7 DEF History

\* A write that keeps the finalizer keeps ReleasedSeen.
LEMMA WriteKeepsReleasedSeen ==
  ASSUME TypeOK, History, ReleasedSeen, NEW o \in CR, Write(o),
         \/ IsNewCR(o) /\ cr.uid = 0
         \/ IsChange(o) /\ (cr.finalizer => o.finalizer),
         synced' = synced, done' = done
  PROVE  ReleasedSeen'
<1> DEFINE n == Len(log)
<1>1. /\ Len(log') = n + 1
      /\ \A i \in Version : log'[i] = log[i]
      /\ cr' = Stored(o) /\ cr' = log'[n + 1]
      /\ n \in Nat /\ n > 0 /\ n \in Version /\ cr = log[n]
  BY WriteAppends DEF cr, TypeOK, Version
<1>2. SUFFICES ASSUME NEW i \in Version', log'[i].finalizer
               PROVE  \/ cr'.uid = log'[i].uid /\ cr'.finalizer
                      \/ /\ \E j \in 1..synced : /\ log'[j].uid = log'[i].uid
                                                 /\ log'[j].deleting
                         /\ \A f \in Fns : <<log'[i].uid, f>> \in done
  BY DEF ReleasedSeen, SeenDeleting
<1>3. CASE i = n + 1
  BY <1>1, <1>2, <1>3
<1>4. CASE i \in Version
  <2>1. log'[i] = log[i] /\ log[i].finalizer /\ log[i].uid # 0
    BY <1>1, <1>2, <1>4 DEF History
  <2>2. CASE cr.uid = log[i].uid /\ cr.finalizer
    <3>1. o.uid = cr.uid /\ o.finalizer
      BY <2>1, <2>2 DEF IsChange
    <3> QED
      BY <1>1, <2>1, <2>2, <3>1 DEF Stored
  <2>3. CASE SeenDeleting(log[i].uid) /\ \A f \in Fns : <<log[i].uid, f>> \in done
    <3>1. \A j \in 1..synced : log'[j] = log[j]
      BY <1>1 DEF TypeOK, Version
    <3> QED
      BY <2>1, <2>3, <3>1 DEF SeenDeleting
  <2> QED
    BY <1>4, <2>1, <2>2, <2>3 DEF ReleasedSeen
<1> QED
  BY <1>1, <1>3, <1>4 DEF Version

---------------------------------------------------------------------------
(* Type correctness *)

LEMMA InitTypeOK == Init => TypeOK
<1> SUFFICES ASSUME Init PROVE TypeOK
  OBVIOUS
<1>1. NoCR \in CR
  BY DEF NoCR, CR
<1>2. log \in Seq(CR) /\ Len(log) = 1
  BY <1>1 DEF Init
<1>3. synced \in Version /\ read \in Version
  BY <1>2 DEF Init, Version
<1>4. fn \in 1..(NumFns + 1)
  BY LifecycleAssumption DEF Init
<1>5. done \subseteq (Nat \X Fns) /\ faults \in Nat
  BY DEF Init
<1>6. queued \in BOOLEAN
  BY DEF Init
<1>7. pc \in {"idle", "get", "initialize", "finalize", "continue"}
  BY DEF Init
<1> QED
  BY <1>2, <1>3, <1>4, <1>5, <1>6, <1>7 DEF TypeOK

\* The newest version and the version that was read are CRs.
LEMMA VersionsAreCRs ==
  ASSUME TypeOK
  PROVE  /\ \A i \in Version : log[i] \in CR
         /\ cr \in CR /\ obj \in CR /\ cr.rev \in Nat
         /\ Len(log) \in Nat /\ Len(log) \in Version
<1>1. Len(log) \in Version /\ \A i \in Version : log[i] \in CR
  BY DEF TypeOK, Version
<1>2. cr \in CR /\ obj \in CR
  BY <1>1 DEF TypeOK, cr, obj
<1> QED
  BY <1>1, <1>2 DEF CR, Version

\* A write that leaves the uid and the edits as they are is a change.
LEMMA SameRevIsChange ==
  ASSUME TypeOK, NEW o \in CR,
         o.uid = cr.uid, cr.uid # 0, o.rev = cr.rev, cr.deleting => o.deleting
  PROVE  IsChange(o)
BY VersionsAreCRs DEF IsChange

\* What the user's changes of a version do to its type.
LEMMA NoCRIsCR == NoCR \in CR
BY DEF NoCR, CR

LEMMA EditIsCR ==
  ASSUME NEW c \in CR, NEW n \in Nat, NEW b \in BOOLEAN
  PROVE  /\ [c EXCEPT !.rev = n, !.init = b] \in CR
         /\ [c EXCEPT !.uid = n, !.init = b] \in CR
BY DEF CR

\* Every write of a step stores a version of the right type, and is a new CR
\* or a change that does not undelete.
LEMMA UserWrites ==
  ASSUME TypeOK, History, Env
  PROVE  \E o \in CR :
           /\ Write(o)
           /\ \/ IsNewCR(o) /\ cr.uid = 0 /\ Len(log) < MaxVersions
              \/ IsChange(o) /\ o.finalizer = cr.finalizer
<1>1. CASE UserCreate
  <2>1. PICK init \in BOOLEAN :
          Write([NoCR EXCEPT !.uid = Len(log) + 1, !.init = init])
    BY <1>1 DEF UserCreate
  <2> DEFINE o == [NoCR EXCEPT !.uid = Len(log) + 1, !.init = init]
  <2>2. o \in CR /\ IsNewCR(o)
    <3> Len(log) + 1 \in Nat
      BY VersionsAreCRs
    <3>1. o \in CR
      BY NoCRIsCR, EditIsCR
    <3>2. o.uid = Len(log) + 1 /\ ~o.deleting /\ ~o.finalizer
      BY DEF NoCR
    <3> QED
      BY <3>1, <3>2 DEF IsNewCR
  <2> QED
    BY <1>1, <2>1, <2>2 DEF UserCreate
<1>2. CASE UserEdit
  <2>1. PICK init \in {FALSE, cr.init} :
          Write([cr EXCEPT !.rev = @ + 1, !.init = init])
    BY <1>2 DEF UserEdit
  <2> DEFINE o == [cr EXCEPT !.rev = @ + 1, !.init = init]
  <2>2. init \in BOOLEAN
    BY <2>1, VersionsAreCRs DEF CR
  <2>3. o \in CR
    <3>1. cr.rev + 1 \in Nat
      BY VersionsAreCRs DEF CR
    <3> QED
      BY <2>2, <3>1, VersionsAreCRs, EditIsCR
  <2>4. o.uid = cr.uid /\ o.deleting = cr.deleting
        /\ o.finalizer = cr.finalizer /\ o.rev >= cr.rev
    BY VersionsAreCRs DEF CR
  <2> QED
    BY <1>2, <2>1, <2>3, <2>4 DEF UserEdit, IsChange
<1>3. CASE UserDelete
  <2>1. PICK other \in BOOLEAN :
          Write([cr EXCEPT !.deleting = TRUE, !.other = other])
    BY <1>3 DEF UserDelete
  <2> DEFINE o == [cr EXCEPT !.deleting = TRUE, !.other = other]
  <2>2. o \in CR /\ o.uid = cr.uid /\ o.deleting = TRUE
        /\ o.finalizer = cr.finalizer /\ o.rev = cr.rev
    BY VersionsAreCRs DEF CR
  <2> QED
    BY <1>3, <2>1, <2>2, SameRevIsChange DEF UserDelete
<1>4. CASE OtherReleased
  <2> DEFINE o == [cr EXCEPT !.other = FALSE]
  <2>1. o \in CR /\ o.uid = cr.uid /\ o.deleting = cr.deleting
        /\ o.finalizer = cr.finalizer /\ o.rev = cr.rev
    BY VersionsAreCRs DEF CR
  <2>2. cr.uid # 0
    BY <1>4, VersionsAreCRs DEF OtherReleased, History, cr
  <2> QED
    BY <1>4, <2>1, <2>2, SameRevIsChange DEF OtherReleased
<1> QED
  BY <1>1, <1>2, <1>3, <1>4 DEF Env

---------------------------------------------------------------------------
(* Steps that leave the log alone *)

LEMMA LogKept ==
  ASSUME TypeOK, History, ReleasedSeen, log' = log,
         synced \in Nat, synced' \in Nat, synced <= synced',
         done \subseteq done'
  PROVE  History' /\ ReleasedSeen'
<1>1. History'
  BY DEF History, Version
<1>2. \A u : SeenDeleting(u) => SeenDeleting(u)'
  BY DEF SeenDeleting
<1> QED
  BY <1>1, <1>2 DEF ReleasedSeen, Version, cr

\* What the cache shows as an initialised CR is protected in the API server,
\* or was seen being deleted: but then the cache shows that too.
LEMMA CachedIsProtected ==
  ASSUME TypeOK, History, ReleasedSeen, UseFinalizer,
         log[synced].uid # 0, ~log[synced].deleting,
         IsInitialized(log[synced])
  PROVE  cr.uid = log[synced].uid /\ cr.finalizer
<1>1. synced \in Version /\ log[synced].finalizer
  BY DEF TypeOK, IsInitialized
<1>2. ~SeenDeleting(log[synced].uid)
  <2>1. SUFFICES ASSUME NEW j \in 1..synced,
                        log[j].uid = log[synced].uid, log[j].deleting
                 PROVE  FALSE
    BY DEF SeenDeleting
  <2>2. j \in Version /\ j <= synced
    BY <1>1, <2>1 DEF Version, TypeOK
  <2> QED
    BY <1>1, <2>1, <2>2 DEF History
<1> QED
  BY <1>1, <1>2 DEF ReleasedSeen

---------------------------------------------------------------------------
(* The invariant is preserved, action by action *)

LEMMA EnvInv ==
  ASSUME TypeOK, LifecycleInv, Env
  PROVE  TypeOK' /\ LifecycleInv'
<1>1. UNCHANGED <<synced, queued, worker, faults>>
  BY DEF Env, UserCreate, UserEdit, UserDelete, OtherReleased
<1>2. PICK o \in CR :
        /\ Write(o)
        /\ \/ IsNewCR(o) /\ cr.uid = 0
           \/ IsChange(o) /\ (cr.finalizer => o.finalizer)
  BY UserWrites DEF LifecycleInv
<1>3. /\ log' \in Seq(CR) /\ Len(log') = Len(log) + 1
      /\ \A i \in Version : log'[i] = log[i]
      /\ cr' = Stored(o)
  BY <1>2, WriteAppends
<1>4. TypeOK'
  BY <1>1, <1>3 DEF TypeOK, Version, worker
<1>5. obj' = obj
  BY <1>1, <1>3 DEF TypeOK, obj, worker
<1>6. History' /\ ReleasedSeen'
  BY <1>1, <1>2, WriteKeepsHistory, WriteKeepsReleasedSeen
     DEF LifecycleInv, worker
<1>7. ReadSynced' /\ WorkerKnows'
  BY <1>1, <1>5 DEF LifecycleInv, ReadSynced, WorkerKnows, worker
<1>8. ContinueIsProtected'
  <2>1. SUFFICES ASSUME pc = "continue", UseFinalizer
                 PROVE  cr'.uid = obj'.uid /\ cr'.finalizer
    BY <1>1 DEF ContinueIsProtected, worker
  <2>2. cr.uid = obj.uid /\ cr.finalizer /\ cr.uid # 0
    BY <2>1, VersionsAreCRs DEF LifecycleInv, ContinueIsProtected, History, cr
  <2>3. o.uid = cr.uid /\ o.finalizer
    BY <1>2, <2>2 DEF IsChange
  <2> QED
    BY <1>3, <1>5, <2>2, <2>3 DEF Stored
<1> QED
  BY <1>4, <1>6, <1>7, <1>8 DEF LifecycleInv

LEMMA CacheSyncInv ==
  ASSUME TypeOK, LifecycleInv, CacheSync
  PROVE  TypeOK' /\ LifecycleInv'
<1>1. /\ synced' \in Version /\ synced < synced'
      /\ synced \in Nat /\ synced' \in Nat /\ read \in Nat
  BY VersionsAreCRs DEF CacheSync, TypeOK, Version
<1>2. TypeOK'
  BY <1>1 DEF CacheSync, TypeOK, Version, worker
<1>3. History' /\ ReleasedSeen'
  BY <1>1, LogKept DEF CacheSync, LifecycleInv, worker
<1>4. ReadSynced'
  BY <1>1 DEF CacheSync, LifecycleInv, ReadSynced, worker
<1>5. WorkerKnows' /\ ContinueIsProtected'
  BY DEF CacheSync, LifecycleInv, WorkerKnows, ContinueIsProtected,
         obj, cr, worker
<1> QED
  BY <1>2, <1>3, <1>4, <1>5 DEF LifecycleInv

LEMMA GetInv ==
  ASSUME TypeOK, LifecycleInv,
         \/ GetNotFound \/ GetBeingDeleted
         \/ GetUninitialized \/ GetInitialized
  PROVE  TypeOK' /\ LifecycleInv'
<1>1. /\ read' = synced /\ log' = log /\ synced' = synced
      /\ done' = done /\ faults' = faults /\ obj' = log[synced] /\ cr' = cr
  BY DEF GetNotFound, GetBeingDeleted, GetUninitialized, GetInitialized,
         GetStep, obj, cr
<1>2. TypeOK'
  BY <1>1, LifecycleAssumption
     DEF TypeOK, Version, GetNotFound, GetBeingDeleted, GetUninitialized,
         GetInitialized, Return
<1>3. History' /\ ReleasedSeen' /\ ReadSynced'
  BY <1>1, LogKept DEF TypeOK, Version, LifecycleInv, ReadSynced
<1>4. WorkerKnows'
  BY <1>1 DEF WorkerKnows, GetNotFound, GetBeingDeleted, GetUninitialized,
              GetInitialized, Return
<1>5. ContinueIsProtected'
  <2>1. CASE GetInitialized
    BY <1>1, <2>1, CachedIsProtected
       DEF GetInitialized, LifecycleInv, ContinueIsProtected
  <2>2. CASE ~GetInitialized
    BY <2>2 DEF ContinueIsProtected, GetNotFound, GetBeingDeleted,
                GetUninitialized, Return
  <2> QED
    BY <2>1, <2>2
<1> QED
  BY <1>2, <1>3, <1>4, <1>5 DEF LifecycleInv

\* Steps of the worker that only change pc, the queue and the fault counter.
LocalStep ==
  /\ UNCHANGED <<log, synced, read, fn, done>>
  /\ pc' \in {"idle", "get", pc}
  /\ queued' \in BOOLEAN
  /\ faults' \in Nat

LEMMA LocalInv ==
  ASSUME TypeOK, LifecycleInv, LocalStep
  PROVE  TypeOK' /\ LifecycleInv'
<1>1. TypeOK'
  BY DEF LocalStep, TypeOK, Version
<1>2. History' /\ ReleasedSeen' /\ ReadSynced'
  BY LogKept DEF LocalStep, TypeOK, Version, LifecycleInv, ReadSynced
<1>3. WorkerKnows' /\ ContinueIsProtected'
  BY DEF LocalStep, LifecycleInv, WorkerKnows, ContinueIsProtected, obj, cr
<1> QED
  BY <1>1, <1>2, <1>3 DEF LifecycleInv

\* A write of the worker, after which it stops.
WorkerWrite(o) ==
  /\ Write(o)
  /\ UNCHANGED <<synced, read, fn, done>>
  /\ pc' = "idle"
  /\ queued' \in BOOLEAN
  /\ faults' \in Nat

LEMMA WorkerWriteInv ==
  ASSUME TypeOK, LifecycleInv, NEW o \in CR, WorkerWrite(o), IsChange(o),
         ReleasedSeen'
  PROVE  TypeOK' /\ LifecycleInv'
<1>1. /\ log' \in Seq(CR) /\ Len(log') = Len(log) + 1
      /\ \A i \in Version : log'[i] = log[i]
  BY WriteAppends DEF WorkerWrite
<1>2. TypeOK'
  BY <1>1 DEF TypeOK, Version, WorkerWrite
<1>3. History'
  BY WriteKeepsHistory DEF LifecycleInv, WorkerWrite
<1>4. ReadSynced' /\ WorkerKnows' /\ ContinueIsProtected'
  BY DEF LifecycleInv, ReadSynced, WorkerKnows, ContinueIsProtected, WorkerWrite
<1> QED
  BY <1>2, <1>3, <1>4 DEF LifecycleInv

\* The Update of the initialization, whether the worker learns of it or not.
LEMMA InitializeInv ==
  ASSUME TypeOK, LifecycleInv, pc = "initialize", CanUpdate,
         WorkerWrite(Initialized(obj))
  PROVE  TypeOK' /\ LifecycleInv'
<1> DEFINE o == Initialized(obj)
<1>1. obj = cr
  BY DEF CanUpdate, obj, cr
<1>2. o \in CR
  BY VersionsAreCRs, LifecycleAssumption DEF Initialized, CR
<1>3. /\ o.uid = cr.uid /\ o.deleting = cr.deleting
      /\ (cr.finalizer => o.finalizer) /\ o.rev = cr.rev
  BY <1>1, VersionsAreCRs DEF Initialized, CR
<1>4. IsChange(o) /\ Write(o)
  BY <1>1, <1>2, <1>3, SameRevIsChange DEF LifecycleInv, WorkerKnows, WorkerWrite
<1>5. ReleasedSeen'
  BY <1>2, <1>3, <1>4, WriteKeepsReleasedSeen DEF LifecycleInv, WorkerWrite
<1> QED
  BY <1>2, <1>4, <1>5, WorkerWriteInv

\* The Update that releases the finalizer, likewise.
LEMMA ReleaseInv ==
  ASSUME TypeOK, LifecycleInv, pc = "finalize", AllFinalized, CanUpdate,
         WorkerWrite([obj EXCEPT !.finalizer = FALSE])
  PROVE  TypeOK' /\ LifecycleInv'
<1> DEFINE o == [obj EXCEPT !.finalizer = FALSE]
<1>1. obj = cr
  BY DEF CanUpdate, obj, cr
<1>2. /\ o \in CR /\ o.uid = cr.uid /\ o.deleting = cr.deleting
      /\ ~o.finalizer /\ o.rev = cr.rev
  BY <1>1, VersionsAreCRs DEF CR
<1>3. cr.deleting /\ cr.uid # 0
  BY <1>1, VersionsAreCRs DEF LifecycleInv, WorkerKnows, History, cr
<1>4. IsChange(o)
  BY <1>2, <1>3, SameRevIsChange
<1>5. SeenDeleting(cr.uid)
  <2>1. read \in 1..synced
    BY DEF TypeOK, Version, LifecycleInv, ReadSynced
  <2> QED
    BY <1>1, <1>3, <2>1 DEF SeenDeleting, obj
<1>6. \A f \in Fns : <<cr.uid, f>> \in done
  <2>1. Fns \subseteq 1..(fn - 1)
    BY LifecycleAssumption DEF AllFinalized, TypeOK, Fns
  <2> QED
    BY <1>1, <2>1 DEF LifecycleInv, WorkerKnows
<1>7. ReleasedSeen'
  <2>1. /\ Len(log') = Len(log) + 1 /\ Len(log) \in Nat
        /\ \A i \in Version : log'[i] = log[i]
        /\ cr' = Stored(o) /\ cr' = log'[Len(log) + 1]
    BY <1>2, WriteAppends, VersionsAreCRs DEF WorkerWrite, cr
  <2>2. ~cr'.finalizer
    BY <1>2, <2>1 DEF Stored, NoCR
  <2>4. SUFFICES ASSUME NEW i \in Version', log'[i].finalizer
                 PROVE  /\ SeenDeleting(log[i].uid)'
                        /\ \A f \in Fns : <<log'[i].uid, f>> \in done'
    BY DEF ReleasedSeen
  <2>5. i \in Version /\ log'[i] = log[i]
    BY <2>1, <2>2, <2>4 DEF Version
  <2>6. /\ SeenDeleting(log[i].uid)
        /\ \A f \in Fns : <<log[i].uid, f>> \in done
    BY <1>5, <1>6, <2>4, <2>5 DEF LifecycleInv, ReleasedSeen
  <2>7. SeenDeleting(log[i].uid)'
    BY <2>1, <2>5, <2>6 DEF SeenDeleting, WorkerWrite, TypeOK, Version
  <2> QED
    BY <2>5, <2>6, <2>7 DEF WorkerWrite
<1> QED
  BY <1>2, <1>4, <1>7, WorkerWriteInv

\* The effect of a finalization function takes place.
LEMMA EffectInv ==
  ASSUME TypeOK, LifecycleInv, pc = "finalize", fn \in Fns,
         UNCHANGED <<log, synced, read>>,
         done' = done \union {<<obj.uid, fn>>},
         \/ fn' = fn + 1 /\ pc' = pc
         \/ fn' = fn /\ pc' = "idle",
         queued' \in BOOLEAN, faults' \in Nat
  PROVE  TypeOK' /\ LifecycleInv'
<1>1. fn \in Nat /\ fn + 1 \in 1..(NumFns + 1) /\ obj.uid \in Nat
  BY LifecycleAssumption, VersionsAreCRs DEF Fns, CR
<1>2. TypeOK'
  BY <1>1 DEF TypeOK, Version
<1>3. History' /\ ReleasedSeen' /\ ReadSynced'
  BY LogKept DEF TypeOK, Version, LifecycleInv, ReadSynced
<1>4. WorkerKnows'
  <2>1. \A f \in 1..fn : f \in 1..(fn - 1) \/ f = fn
    BY <1>1
  <2> QED
    BY <1>1, <2>1 DEF WorkerKnows, LifecycleInv, obj
<1>5. ContinueIsProtected'
  BY DEF ContinueIsProtected
<1> QED
  BY <1>2, <1>3, <1>4, <1>5 DEF LifecycleInv

LEMMA RestartInv ==
  ASSUME TypeOK, LifecycleInv, Restart
  PROVE  TypeOK' /\ LifecycleInv'
<1>1. TypeOK'
  BY DEF Restart, Fault, TypeOK, Version
<1>2. synced \in Nat /\ synced' \in Nat /\ synced <= synced' /\ read \in Nat
  BY DEF Restart, TypeOK, Version
<1>3. History' /\ ReleasedSeen' /\ ReadSynced'
  BY <1>2, LogKept DEF Restart, LifecycleInv, ReadSynced
<1>4. WorkerKnows' /\ ContinueIsProtected'
  BY DEF Restart, WorkerKnows, ContinueIsProtected
<1> QED
  BY <1>1, <1>3, <1>4 DEF LifecycleInv

LEMMA InitInv == Init => LifecycleInv
BY DEF Init, LifecycleInv, History, ReadSynced, ReleasedSeen, WorkerKnows,
       ContinueIsProtected, Version, NoCR

LEMMA NextInv ==
  ASSUME TypeOK, LifecycleInv, [Next]_vars
  PROVE  TypeOK' /\ LifecycleInv'
<1> USE DEF Requeue, Return
<1>1. CASE Env
  BY <1>1, EnvInv
<1>2. CASE CacheSync
  BY <1>2, CacheSyncInv
<1>3. CASE OwnedChanged \/ Pop \/ Body \/ CallFails
  <2>1. LocalStep
    <3>1. CASE Pop
      BY <3>1 DEF Pop, LocalStep, TypeOK
    <3>2. CASE Body
      BY <3>2 DEF Body, LocalStep, TypeOK
    <3>3. CASE CallFails
      BY <3>3 DEF CallFails, LocalStep, Fault, TypeOK
    <3>4. CASE OwnedChanged
      BY <3>4 DEF OwnedChanged, LocalStep, TypeOK, worker
    <3> QED
      BY <1>3, <3>1, <3>2, <3>3, <3>4
  <2> QED
    BY <2>1, LocalInv
<1>4. CASE GetNotFound \/ GetBeingDeleted \/ GetUninitialized \/ GetInitialized
  BY <1>4, GetInv
<1>5. CASE Initialize
  <2>1. CASE CanUpdate
    BY <1>5, <2>1, InitializeInv DEF Initialize, WorkerWrite, TypeOK
  <2>2. CASE ~CanUpdate
    BY <1>5, <2>2, LocalInv DEF Initialize, LocalStep, TypeOK
  <2> QED
    BY <2>1, <2>2
<1>6. CASE RunFinalizationFn
  <2>1. CASE fn \in OneShot /\ <<obj.uid, fn>> \in done
    BY <1>6, <2>1, LocalInv DEF RunFinalizationFn, LocalStep, TypeOK
  <2>2. CASE ~(fn \in OneShot /\ <<obj.uid, fn>> \in done)
    BY <1>6, <2>2, EffectInv DEF RunFinalizationFn, TypeOK
  <2> QED
    BY <2>1, <2>2
<1>7. CASE Release
  <2>1. CASE CanUpdate
    BY <1>7, <2>1, ReleaseInv DEF Release, WorkerWrite, TypeOK
  <2>2. CASE ~CanUpdate
    BY <1>7, <2>2, LocalInv DEF Release, LocalStep, TypeOK
  <2> QED
    BY <2>1, <2>2
<1>8. CASE ReplyLost
  <2>1. /\ UNCHANGED <<synced, read, fn>> /\ pc' = "idle"
        /\ queued' \in BOOLEAN /\ faults' \in Nat
    BY <1>8 DEF ReplyLost, Fault, TypeOK
  <2>2. CASE pc = "initialize"
    BY <1>8, <2>1, <2>2, InitializeInv DEF ReplyLost, WorkerWrite
  <2>3. CASE pc = "finalize" /\ fn \in Fns
    <3>1. ~AllFinalized
      BY <2>3, LifecycleAssumption DEF AllFinalized, Fns
    <3> QED
      BY <1>8, <2>1, <2>3, <3>1, EffectInv DEF ReplyLost
  <2>4. CASE pc = "finalize" /\ fn \notin Fns
    BY <1>8, <2>1, <2>4, ReleaseInv DEF ReplyLost, WorkerWrite
  <2> QED
    BY <1>8, <2>2, <2>3, <2>4 DEF ReplyLost
<1>9. CASE Restart
  BY <1>9, RestartInv
<1>10. CASE UNCHANGED vars
  BY <1>10 DEF vars, worker, TypeOK, LifecycleInv, History, ReadSynced,
               ReleasedSeen, SeenDeleting, WorkerKnows, ContinueIsProtected,
               Version, obj, cr
<1> QED
  BY <1>1, <1>2, <1>3, <1>4, <1>5, <1>6, <1>7, <1>8, <1>9, <1>10
     DEF Next, Work

\* A write keeps the user's edits.
LEMMA WriteKeepsEdits ==
  ASSUME TypeOK, NEW o \in CR, Write(o), (IsNewCR(o) /\ cr.uid = 0) \/ IsChange(o)
  PROVE  cr'.uid = cr.uid => cr'.rev >= cr.rev
<1>1. cr' = Stored(o)
  BY WriteAppends
<1>2. CASE IsNewCR(o)
  <2>1. o.uid # 0 /\ Stored(o) = o
    BY <1>2, VersionsAreCRs DEF IsNewCR, Stored
  <2> QED
    BY <1>1, <1>2, <2>1 DEF IsChange
<1>3. CASE IsChange(o)
  BY <1>1, <1>3 DEF IsChange, Stored, NoCR
<1> QED
  BY <1>2, <1>3

\* Every step leaves the log alone, or writes one version, which is a new CR
\* of the user, keeps the finalizer as it is, or adds it to a CR that is not
\* being deleted, or takes it from one that is finalised.
Finalized(u) == \A f \in Fns : <<u, f>> \in done

LEMMA StepWrites ==
  ASSUME TypeOK, LifecycleInv, [Next]_vars, log' # log
  PROVE  /\ done' = done
         /\ \E o \in CR :
              /\ Write(o)
              /\ \/ IsNewCR(o) /\ cr.uid = 0 /\ Len(log) < MaxVersions
                 \/ /\ IsChange(o)
                    /\ \/ o.finalizer = cr.finalizer
                       \/ o.finalizer /\ ~o.deleting /\ ~cr.deleting
                       \/ ~o.finalizer /\ cr.deleting /\ Finalized(cr.uid)
<1>1. CASE Env
  <2>1. done' = done
    BY <1>1 DEF Env, UserCreate, UserEdit, UserDelete, OtherReleased, worker
  <2> QED
    BY <1>1, <2>1, UserWrites DEF LifecycleInv
<1>2. CASE /\ CanUpdate /\ pc = "initialize" /\ Write(Initialized(obj))
           /\ done' = done
  <2> DEFINE o == Initialized(obj)
  <2>1. obj = cr
    BY <1>2 DEF CanUpdate, obj, cr
  <2>2. o \in CR
    BY VersionsAreCRs, LifecycleAssumption DEF Initialized, CR
  <2>3. /\ o.uid = cr.uid /\ o.deleting = cr.deleting /\ o.rev = cr.rev
        /\ o.finalizer = (cr.finalizer \/ UseFinalizer)
    BY <2>1, VersionsAreCRs DEF Initialized, CR
  <2>4. IsChange(o) /\ ~cr.deleting
    BY <1>2, <2>1, <2>2, <2>3, SameRevIsChange DEF LifecycleInv, WorkerKnows
  <2>5. o.finalizer = cr.finalizer \/ o.finalizer
    BY <2>2, <2>3, VersionsAreCRs, LifecycleAssumption DEF CR
  <2> QED
    BY <1>2, <2>2, <2>3, <2>4, <2>5
<1>3. CASE /\ CanUpdate /\ pc = "finalize" /\ AllFinalized /\ done' = done
           /\ Write([obj EXCEPT !.finalizer = FALSE])
  <2> DEFINE o == [obj EXCEPT !.finalizer = FALSE]
  <2>1. obj = cr
    BY <1>3 DEF CanUpdate, obj, cr
  <2>2. /\ o \in CR /\ o.uid = cr.uid /\ o.deleting = cr.deleting
        /\ o.rev = cr.rev /\ ~o.finalizer
    BY <2>1, VersionsAreCRs DEF CR
  <2>3. cr.deleting /\ cr.uid # 0
    BY <1>3, <2>1, VersionsAreCRs DEF LifecycleInv, WorkerKnows, History, cr
  <2>4. IsChange(o)
    BY <2>2, <2>3, SameRevIsChange
  <2>5. Finalized(cr.uid)
    <3>1. Fns \subseteq 1..(fn - 1)
      BY <1>3, LifecycleAssumption DEF AllFinalized, TypeOK, Fns
    <3> QED
      BY <1>3, <2>1, <3>1 DEF LifecycleInv, WorkerKnows, Finalized
  <2> QED
    BY <1>3, <2>2, <2>3, <2>4, <2>5
<1> QED
  BY <1>1, <1>2, <1>3
     DEF Next, Work, CacheSync, OwnedChanged, Pop, GetNotFound, GetBeingDeleted,
         GetUninitialized, GetInitialized, GetStep, Initialize,
         RunFinalizationFn, Release, Body,
         CallFails, ReplyLost, Restart, vars, worker

LEMMA StepKeepsEdits ==
  ASSUME TypeOK, LifecycleInv, [Next]_vars
  PROVE  cr'.uid = cr.uid => cr'.rev >= cr.rev
<1>1. CASE log' = log
  BY <1>1, VersionsAreCRs DEF CR, cr
<1>2. CASE log' # log
  <2>1. PICK o \in CR : Write(o) /\ ((IsNewCR(o) /\ cr.uid = 0) \/ IsChange(o))
    BY <1>2, StepWrites
  <2> QED
    BY <2>1, WriteKeepsEdits
<1> QED
  BY <1>1, <1>2

---------------------------------------------------------------------------
(* No body once the finalization began *)

\* The cache showed the deletion of every CR that a function took effect for.
DoneSeen == \A u \in Nat, f \in Fns : <<u, f>> \in done => SeenDeleting(u)

UnfinalizedInv == DoneSeen /\ ContinueIsUnfinalized

\* What every step leaves of the log, the cache and the effects.
LEMMA StepKeeps ==
  ASSUME TypeOK, LifecycleInv, [Next]_vars
  PROVE  /\ \A i \in Version : log'[i] = log[i]
         /\ synced' \in Nat /\ synced <= synced'
         /\ \/ done' = done
            \/ pc = "finalize" /\ pc' # "continue" /\ fn \in Fns
               /\ done' = done \union {<<obj.uid, fn>>}
<1>1. \A i \in Version : log'[i] = log[i]
  <2>1. CASE log' # log
    BY <2>1, StepWrites, WriteAppends
  <2> QED
    BY <2>1
<1>2. synced' \in Nat /\ synced <= synced'
  <2>1. CASE CacheSync
    BY <2>1 DEF CacheSync, TypeOK, Version
  <2>2. CASE Restart
    BY <2>2 DEF Restart, TypeOK, Version
  <2>3. CASE synced' = synced
    BY <2>3 DEF TypeOK, Version
  <2> QED
    BY <2>1, <2>2, <2>3
       DEF Next, Env, UserCreate, UserEdit, UserDelete, OtherReleased, Work,
           OwnedChanged, Pop, GetNotFound, GetBeingDeleted, GetUninitialized,
           GetInitialized, GetStep, Initialize, RunFinalizationFn, Release,
           Body, CallFails, ReplyLost, vars, worker
<1>3. \/ done' = done
      \/ pc = "finalize" /\ pc' # "continue" /\ fn \in Fns
         /\ done' = done \union {<<obj.uid, fn>>}
  BY DEF Next, Env, UserCreate, UserEdit, UserDelete, OtherReleased, Work,
         CacheSync, OwnedChanged, Pop, GetNotFound, GetBeingDeleted,
         GetUninitialized, GetInitialized, GetStep, Initialize,
         RunFinalizationFn, Release, Body, CallFails, ReplyLost, Restart,
         Requeue, vars, worker
<1> QED
  BY <1>1, <1>2, <1>3

\* A step enters the body by a Get from the cache, and stays in it with what
\* it read.
LEMMA StepContinues ==
  ASSUME TypeOK, LifecycleInv, [Next]_vars, pc' = "continue"
  PROVE  /\ done' = done
         /\ \/ /\ read' = synced /\ log' = log
               /\ log[synced].uid # 0 /\ ~log[synced].deleting
            \/ pc = "continue" /\ read' = read
<1>1. done' = done
  BY StepKeeps
<1> QED
  BY <1>1
     DEF Next, Env, UserCreate, UserEdit, UserDelete, OtherReleased, Work,
         CacheSync, OwnedChanged, Pop, GetNotFound, GetBeingDeleted,
         GetUninitialized, GetInitialized, GetStep, Initialize,
         RunFinalizationFn, Release, Body, CallFails, ReplyLost, Restart,
         Requeue, Return, vars, worker

\* What the cache shows alive, it never showed being deleted.
LEMMA AliveIsUnseen ==
  ASSUME TypeOK, History, ~log[synced].deleting
  PROVE  ~SeenDeleting(log[synced].uid)
<1>1. SUFFICES ASSUME NEW j \in 1..synced,
                      log[j].uid = log[synced].uid, log[j].deleting
               PROVE  FALSE
  BY DEF SeenDeleting
<1>2. j \in Version /\ synced \in Version /\ j <= synced
  BY DEF Version, TypeOK
<1> QED
  BY <1>1, <1>2 DEF History

LEMMA UnfinalizedStep ==
  ASSUME TypeOK, LifecycleInv, UnfinalizedInv, [Next]_vars
  PROVE  UnfinalizedInv'
<1>1. \A u : SeenDeleting(u) => SeenDeleting(u)'
  BY StepKeeps DEF SeenDeleting, TypeOK, Version
<1>2. DoneSeen'
  <2>1. CASE done' = done
    BY <1>1, <2>1 DEF UnfinalizedInv, DoneSeen
  <2>2. CASE pc = "finalize" /\ done' = done \union {<<obj.uid, fn>>}
    <3>1. obj.deleting /\ read \in 1..synced
      BY <2>2 DEF LifecycleInv, WorkerKnows, ReadSynced, TypeOK, Version
    <3>2. SeenDeleting(obj.uid)
      BY <3>1 DEF SeenDeleting, obj
    <3> QED
      BY <1>1, <2>2, <3>2 DEF UnfinalizedInv, DoneSeen
  <2> QED
    BY <2>1, <2>2, StepKeeps
<1>3. ASSUME pc' = "continue"
      PROVE  \A f \in Fns : <<obj'.uid, f>> \notin done'
  <2>1. CASE /\ read' = synced /\ log' = log
             /\ log[synced].uid # 0 /\ ~log[synced].deleting
    <3>1. obj' = log[synced] /\ obj'.uid \in Nat
      BY <2>1, VersionsAreCRs DEF obj, TypeOK, CR
    <3>2. ~SeenDeleting(obj'.uid)
      BY <2>1, <3>1, AliveIsUnseen DEF LifecycleInv
    <3> QED
      BY <1>3, <3>1, <3>2, StepContinues DEF UnfinalizedInv, DoneSeen
  <2>2. CASE pc = "continue" /\ read' = read
    <3>1. obj' = obj
      BY <2>2, StepKeeps DEF obj, TypeOK
    <3> QED
      BY <1>3, <2>2, <3>1, StepContinues
         DEF UnfinalizedInv, ContinueIsUnfinalized
  <2> QED
    BY <1>3, <2>1, <2>2, StepContinues
<1> QED
  BY <1>2, <1>3 DEF UnfinalizedInv, ContinueIsUnfinalized

---------------------------------------------------------------------------
(* The controller at rest *)

\* What the body goes by is the newest version in the cache, or another pass
\* is due.
HandledInv ==
  /\ RestsHandled
  /\ pc = "continue" =>
       /\ obj.uid # 0 /\ ~obj.deleting /\ IsInitialized(obj)
       /\ queued \/ read = synced

\* A step that writes a version: the cache has not seen it.
LEMMA WriteHandled ==
  ASSUME TypeOK, HandledInv, NEW o \in CR, Write(o), synced' = synced,
         \/ pc' = "idle"
         \/ UNCHANGED <<pc, queued, read>>
  PROVE  HandledInv'
<1>1. /\ Len(log') = Len(log) + 1
      /\ \A i \in Version : log'[i] = log[i]
  BY WriteAppends
<1>2. synced' # Len(log')
  BY <1>1 DEF TypeOK, Version
<1>3. CASE pc' = "idle"
  BY <1>2, <1>3 DEF HandledInv, RestsHandled
<1>4. CASE UNCHANGED <<pc, queued, read>>
  <2>1. obj' = obj
    BY <1>1, <1>4 DEF obj, TypeOK
  <2> QED
    BY <1>2, <1>4, <2>1 DEF HandledInv, RestsHandled, IsInitialized
<1> QED
  BY <1>3, <1>4

LEMMA HandledStep ==
  ASSUME TypeOK, LifecycleInv, HandledInv, [Next]_vars
  PROVE  HandledInv'
<1>1. CASE log' # log
  <2>1. PICK o \in CR : Write(o)
    BY <1>1, StepWrites
  <2>2. synced' = synced /\ (pc' = "idle" \/ UNCHANGED <<pc, queued, read>>)
    BY <1>1
       DEF Next, Env, UserCreate, UserEdit, UserDelete, OtherReleased, Work,
           CacheSync, OwnedChanged, Pop, GetNotFound, GetBeingDeleted,
           GetUninitialized, GetInitialized, GetStep, Initialize,
           RunFinalizationFn, Release, Body, CallFails, ReplyLost, Restart,
           Requeue, Return, vars, worker
  <2> QED
    BY <2>1, <2>2, WriteHandled
<1>2. CASE queued' /\ UNCHANGED <<log, pc, read>>
  BY <1>2 DEF HandledInv, RestsHandled, obj
<1>3. CASE queued' /\ pc' = "idle"
  BY <1>3 DEF HandledInv, RestsHandled
<1>4. CASE pc' \notin {"idle", "continue"}
  BY <1>4 DEF HandledInv, RestsHandled
<1>5. CASE GetNotFound \/ GetBeingDeleted \/ GetInitialized
  <2>1. /\ UNCHANGED <<log, synced>> /\ read' = synced
        /\ obj' = log[synced] /\ (synced = Len(log) => cr' = log[synced])
    BY <1>5
       DEF GetNotFound, GetBeingDeleted, GetInitialized, GetStep, obj, cr
  <2> QED
    BY <1>5, <2>1
       DEF HandledInv, RestsHandled, GetNotFound, GetBeingDeleted,
           GetInitialized, Return, IsInitialized, NeedsFinalization
<1>6. CASE Body
  <2>1. /\ UNCHANGED <<log, synced, read>> /\ pc = "continue" /\ pc' = "idle"
        /\ queued' \/ queued' = queued
    BY <1>6 DEF Body, Return, Requeue
  <2>2. read = synced /\ synced = Len(log) => cr = obj
    BY DEF cr, obj
  <2> QED
    BY <2>1, <2>2 DEF HandledInv, RestsHandled, cr
<1>7. CASE Restart
  <2>1. pc' = "idle" /\ queued' = (cr.uid # 0) /\ cr' = cr
    BY <1>7 DEF Restart, cr
  <2> QED
    BY <2>1 DEF HandledInv, RestsHandled
<1>8. CASE UNCHANGED vars
  BY <1>8 DEF vars, HandledInv, RestsHandled, obj, cr, IsInitialized,
              NeedsFinalization
<1>9. ASSUME NEW o, Write(o) PROVE log' # log
  <2>1. Len(log') = Len(log) + 1 /\ Len(log) \in Nat
    BY <1>9 DEF Write, TypeOK
  <2> QED
    BY <2>1
<1>10. ASSUME log' = log, Env \/ CacheSync \/ OwnedChanged
       PROVE  HandledInv'
  BY <1>2, <1>9, <1>10
     DEF Env, UserCreate, UserEdit, UserDelete, OtherReleased, CacheSync,
         OwnedChanged, worker
<1>11. ASSUME log' = log, Work
       PROVE  HandledInv'
  BY <1>3, <1>4, <1>5, <1>6, <1>9, <1>11
     DEF Work, Pop, GetUninitialized, Initialize, RunFinalizationFn, Release,
         Requeue
<1>12. ASSUME CallFails \/ ReplyLost
       PROVE  HandledInv'
  BY <1>3, <1>12 DEF CallFails, ReplyLost, Requeue
<1> QED
  BY <1>1, <1>7, <1>8, <1>10, <1>11, <1>12 DEF Next

---------------------------------------------------------------------------
(* Lifecycle implements Finalization *)

\* The user creates no CR beyond MaxVersions.
UidsBounded == \A i \in Version : log[i].uid <= MaxVersions

LEMMA StepKeepsUids ==
  ASSUME TypeOK, LifecycleInv, UidsBounded, [Next]_vars
  PROVE  UidsBounded'
<1>1. CASE log' = log
  BY <1>1 DEF UidsBounded, Version
<1>2. CASE log' # log
  <2>1. PICK o \in CR :
          /\ Write(o)
          /\ \/ IsNewCR(o) /\ Len(log) < MaxVersions
             \/ IsChange(o)
    BY <1>2, StepWrites
  <2>2. /\ Len(log') = Len(log) + 1 /\ log'[Len(log) + 1] = Stored(o)
        /\ \A i \in Version : log'[i] = log[i]
        /\ Len(log) \in Version /\ cr = log[Len(log)] /\ Len(log) \in Nat
    BY <2>1, WriteAppends, VersionsAreCRs DEF cr
  <2>3. o.uid <= MaxVersions
    BY <2>1, <2>2, LifecycleAssumption DEF IsNewCR, IsChange, UidsBounded
  <2>4. Stored(o).uid <= MaxVersions
    BY <2>3, LifecycleAssumption DEF Stored, NoCR
  <2> QED
    BY <2>2, <2>4 DEF UidsBounded, Version
<1> QED
  BY <1>1, <1>2

\* What a write does to the CRs that had the finalizer, have it, or were
\* being deleted.
LEMMA WriteMaps ==
  ASSUME TypeOK, NEW o \in CR, Write(o)
  PROVE  /\ WithFinalizer' =
              WithFinalizer \union (IF o.finalizer THEN {o.uid} ELSE {})
         /\ Protected' = IF o.finalizer THEN {o.uid} ELSE {}
         /\ Deleting' = Deleting \/ Deleting' = Deleting \union {o.uid}
         /\ ~o.deleting => Deleting' = Deleting
<1> DEFINE n == Len(log)
           w == Stored(o)
<1>1. /\ Len(log') = n + 1 /\ n \in Nat
      /\ \A i \in Version : log'[i] = log[i]
      /\ cr' = w /\ log'[n + 1] = w
  BY WriteAppends, VersionsAreCRs DEF cr
<1>2. Version' = Version \union {n + 1}
  BY <1>1 DEF Version
<1>3. /\ w.finalizer <=> o.finalizer
      /\ w.finalizer => w.uid = o.uid
      /\ w.deleting => o.deleting /\ w.uid = o.uid
  BY DEF Stored, NoCR, CR
<1>4. WithFinalizer' = WithFinalizer \union (IF w.finalizer THEN {w.uid} ELSE {})
  <2>1. \A u : u \in WithFinalizer' <=>
               \E i \in Version' : log'[i].finalizer /\ u = log'[i].uid
    BY DEF WithFinalizer
  <2>2. \A u : u \in WithFinalizer <=>
               \E i \in Version : log[i].finalizer /\ u = log[i].uid
    BY DEF WithFinalizer
  <2> HIDE DEF w
  <2>3. \A u : u \in WithFinalizer' <=>
               u \in WithFinalizer \/ (w.finalizer /\ u = w.uid)
    BY <1>1, <1>2, <2>1, <2>2
  <2> QED
    BY <2>3
<1>5. Deleting' = Deleting \union (IF w.deleting THEN {w.uid} ELSE {})
  <2>1. \A u : u \in Deleting' <=>
               \E i \in Version' : log'[i].deleting /\ u = log'[i].uid
    BY DEF Deleting
  <2>2. \A u : u \in Deleting <=>
               \E i \in Version : log[i].deleting /\ u = log[i].uid
    BY DEF Deleting
  <2> HIDE DEF w
  <2>3. \A u : u \in Deleting' <=>
               u \in Deleting \/ (w.deleting /\ u = w.uid)
    BY <1>1, <1>2, <2>1, <2>2
  <2> QED
    BY <2>3
<1>6. Protected' = IF w.finalizer THEN {w.uid} ELSE {}
  BY <1>1 DEF Protected
<1> QED
  BY <1>3, <1>4, <1>5, <1>6

Promised == <<Protected, WithFinalizer \ Protected, Deleting, done>>

\* What the newest version tells of its CR.
LEMMA NewestMaps ==
  ASSUME TypeOK, LifecycleInv, UidsBounded
  PROVE  /\ cr.uid # 0 => cr.uid \in 1..MaxVersions
         /\ cr.finalizer => cr.uid # 0 /\ cr.uid \in WithFinalizer
         /\ cr.deleting => cr.uid \in Deleting
         /\ ~cr.deleting => cr.uid \notin Deleting
         /\ ~cr.deleting /\ ~cr.finalizer => cr.uid \notin WithFinalizer
<1>1. /\ Len(log) \in Version /\ cr = log[Len(log)] /\ cr.uid \in Nat
      /\ Len(log) \in Nat
  BY VersionsAreCRs DEF cr, CR
<1>2. cr.uid # 0 => cr.uid \in 1..MaxVersions
  BY <1>1, LifecycleAssumption DEF UidsBounded
<1>3. /\ cr.finalizer => cr.uid # 0 /\ cr.uid \in WithFinalizer
      /\ cr.deleting => cr.uid \in Deleting
  BY <1>1 DEF LifecycleInv, History, WithFinalizer, Deleting
<1>4. ASSUME NEW j \in Version, log[j].uid = cr.uid, log[j].deleting
      PROVE  cr.deleting
  <2>1. j <= Len(log)
    BY DEF Version
  <2> QED
    BY <1>1, <1>4, <2>1 DEF LifecycleInv, History
<1>5. ASSUME NEW j \in Version, log[j].uid = cr.uid, log[j].finalizer,
             ~cr.finalizer
      PROVE  cr.deleting
  <2>1. SeenDeleting(cr.uid)
    BY <1>5 DEF LifecycleInv, ReleasedSeen
  <2>2. 1..synced \subseteq Version
    BY DEF TypeOK, Version
  <2> QED
    BY <1>4, <2>1, <2>2 DEF SeenDeleting
<1> QED
  BY <1>2, <1>3, <1>4, <1>5 DEF WithFinalizer, Deleting

LEMMA WriteImplements ==
  ASSUME TypeOK, LifecycleInv, UidsBounded, [Next]_vars, log' # log
  PROVE  [Promise!Next]_Promised
<1>1. PICK o \in CR :
        /\ Write(o) /\ done' = done
        /\ \/ IsNewCR(o) /\ cr.uid = 0
           \/ /\ IsChange(o)
              /\ \/ o.finalizer = cr.finalizer
                 \/ o.finalizer /\ ~o.deleting /\ ~cr.deleting
                 \/ ~o.finalizer /\ cr.deleting /\ Finalized(cr.uid)
  BY StepWrites
<1>2. /\ WithFinalizer' =
           WithFinalizer \union (IF o.finalizer THEN {o.uid} ELSE {})
      /\ Protected' = IF o.finalizer THEN {o.uid} ELSE {}
      /\ Deleting' = Deleting \/ Deleting' = Deleting \union {o.uid}
      /\ ~o.deleting => Deleting' = Deleting
  BY <1>1, WriteMaps
<1>3. CASE IsNewCR(o) /\ cr.uid = 0
  BY <1>1, <1>2, <1>3, NewestMaps DEF IsNewCR, Protected, Promised
<1> DEFINE u == cr.uid
<1>4. CASE IsChange(o)
  <2>1. o.uid = u /\ u \in 1..MaxVersions
    BY <1>4, NewestMaps DEF IsChange
  <2>2. CASE o.finalizer = cr.finalizer
    <3>1. Protected' = Protected /\ WithFinalizer' = WithFinalizer
      BY <1>2, <2>1, <2>2, NewestMaps DEF Protected
    <3>2. CASE Deleting' = Deleting
      BY <1>1, <3>1, <3>2 DEF Promised
    <3>3. CASE Deleting' = Deleting \union {u}
      <4>1. Promise!Doom(u)
        BY <1>1, <3>1, <3>3 DEF Promise!Doom
      <4> QED
        BY <2>1, <4>1 DEF Promise!Next
    <3> QED
      BY <1>2, <2>1, <3>2, <3>3
  <2>3. CASE o.finalizer /\ ~o.deleting /\ ~cr.deleting /\ ~cr.finalizer
    <3>1. /\ Protected = {} /\ Protected' = {u} /\ Deleting' = Deleting
          /\ WithFinalizer' = WithFinalizer \union {u}
          /\ u \notin WithFinalizer /\ u \notin Deleting
      BY <1>2, <2>1, <2>3, NewestMaps DEF Protected
    <3>2. Promise!Protect(u)
      BY <1>1, <3>1 DEF Promise!Protect
    <3> QED
      BY <2>1, <3>2 DEF Promise!Next
  <2>4. CASE ~o.finalizer /\ cr.finalizer /\ cr.deleting /\ Finalized(u)
    <3>1. /\ Protected = {u} /\ Protected' = {}
          /\ WithFinalizer' = WithFinalizer /\ u \in WithFinalizer
      BY <1>2, <2>1, <2>4, NewestMaps DEF Protected
    <3>2. u \in Deleting /\ Deleting' = Deleting
      BY <1>2, <2>1, <2>4, NewestMaps
    <3>3. Promise!Release(u)
      BY <1>1, <2>4, <3>1, <3>2 DEF Promise!Release, Finalized, Fns
    <3> QED
      BY <2>1, <3>3 DEF Promise!Next
  <2>5. cr.finalizer \in BOOLEAN /\ o.finalizer \in BOOLEAN
    BY VersionsAreCRs DEF CR
  <2> QED
    BY <1>1, <1>4, <2>2, <2>3, <2>4, <2>5 DEF IsNewCR, IsChange
<1> QED
  BY <1>1, <1>3, <1>4

LEMMA EffectImplements ==
  ASSUME TypeOK, LifecycleInv, UidsBounded, [Next]_vars, log' = log
  PROVE  [Promise!Next]_Promised
<1>1. /\ Protected' = Protected /\ WithFinalizer' = WithFinalizer
      /\ Deleting' = Deleting
  BY DEF Protected, WithFinalizer, Deleting, Version, cr
<1>2. CASE done' = done
  BY <1>1, <1>2 DEF Promised
<1>3. CASE /\ pc = "finalize" /\ fn \in Fns
           /\ done' = done \union {<<obj.uid, fn>>}
  <2>1. /\ read \in Version /\ obj = log[read] /\ obj.deleting
        /\ obj.uid \in Nat /\ fn \in Nat
    BY <1>3, VersionsAreCRs
       DEF TypeOK, obj, Version, LifecycleInv, WorkerKnows, CR, Fns
  <2>2. obj.uid \in 1..MaxVersions /\ obj.uid \in Deleting
    BY <2>1, LifecycleAssumption
       DEF LifecycleInv, History, UidsBounded, Deleting
  <2>3. fn > 1 => <<obj.uid, fn - 1>> \in done
    BY <1>3, <2>1 DEF LifecycleInv, WorkerKnows
  <2>4. Promise!Finalize(obj.uid, fn)
    BY <1>1, <1>3, <2>2, <2>3 DEF Promise!Finalize
  <2> QED
    BY <1>3, <2>2, <2>4 DEF Promise!Next, Fns
<1> QED
  BY <1>2, <1>3
     DEF Next, Env, UserCreate, UserEdit, UserDelete, OtherReleased, Work,
         CacheSync, OwnedChanged, Pop, GetNotFound, GetBeingDeleted, GetUninitialized,
         GetInitialized, GetStep, Initialize, RunFinalizationFn, Release,
         Body, CallFails, ReplyLost, Restart, vars, worker

---------------------------------------------------------------------------
(* Theorems *)

THEOREM Invariance == Spec => [](TypeOK /\ LifecycleInv)
<1>1. Init => TypeOK /\ LifecycleInv
  BY InitTypeOK, InitInv
<1>2. TypeOK /\ LifecycleInv /\ [Next]_vars => (TypeOK /\ LifecycleInv)'
  BY NextInv
<1> QED
  BY <1>1, <1>2, PTL DEF Spec

\* The variables keep their types: in particular the worker and the cache
\* only ever hold versions that the API server had.
THEOREM TypeCorrect == Spec => []TypeOK
BY Invariance, PTL

\* The finalizer of a CR is released only after every finalization function
\* took effect, whatever the user does, and whichever calls fail.
THEOREM FinalizedFirst == Spec => []FinalizedBeforeRelease
<1>1. LifecycleInv => FinalizedBeforeRelease
  BY DEF LifecycleInv, ReleasedSeen, FinalizedBeforeRelease
<1> QED
  BY <1>1, Invariance, PTL

\* The owned resources are reconciled only for a CR that exists and carries
\* the finalizer, however far the cache lags behind.
THEOREM ContinueProtected == Spec => []ContinueIsProtected
<1>1. LifecycleInv => ContinueIsProtected
  BY DEF LifecycleInv
<1> QED
  BY <1>1, Invariance, PTL

\* ... and for one that no finalization function took effect for.
THEOREM ContinueUnfinalized == Spec => []ContinueIsUnfinalized
<1>1. Init => UnfinalizedInv
  BY DEF Init, UnfinalizedInv, DoneSeen, ContinueIsUnfinalized
<1>2. TypeOK /\ LifecycleInv /\ UnfinalizedInv /\ [Next]_vars
        => UnfinalizedInv'
  BY UnfinalizedStep
<1>3. UnfinalizedInv => ContinueIsUnfinalized
  BY DEF UnfinalizedInv
<1> QED
  BY <1>1, <1>2, <1>3, Invariance, PTL DEF Spec

\* At rest, with the cache current, the CR was handled to the end: none that
\* is being deleted still has the finalizer, none that lives lacks it or was
\* not read in its newest version.
THEOREM AtRestHandled == Spec => []RestsHandled
<1>1. Init => HandledInv
  BY DEF Init, HandledInv, RestsHandled, NoCR, cr
<1>2. TypeOK /\ LifecycleInv /\ HandledInv /\ [Next]_vars => HandledInv'
  BY HandledStep
<1>3. HandledInv => RestsHandled
  BY DEF HandledInv
<1> QED
  BY <1>1, <1>2, <1>3, Invariance, PTL DEF Spec

\* No write of the controller undoes an edit of the user.
THEOREM EditsSurvive == Spec => UserEditsSurvive
<1>1. ASSUME TypeOK, LifecycleInv, [Next]_vars
      PROVE  cr'.uid = cr.uid => cr'.rev >= cr.rev
  BY <1>1, StepKeepsEdits
<1> QED
  BY <1>1, Invariance, PTL DEF Spec, UserEditsSurvive

\* The finalizer's promise, as module Finalization states it: every step of
\* the lifecycle protects a CR that is alive, lets it be deleted, runs its
\* functions in order once it is, or releases it when all of them ran.
THEOREM Implements == Spec => KeepsPromise
<1>1. Init => UidsBounded /\ Promise!Init
  BY LifecycleAssumption
     DEF Init, UidsBounded, Version, NoCR, Promise!Init, Protected,
         WithFinalizer, Deleting, cr
<1>2. TypeOK /\ LifecycleInv /\ UidsBounded /\ [Next]_vars => UidsBounded'
  BY StepKeepsUids
<1>3. TypeOK /\ LifecycleInv /\ UidsBounded /\ [Next]_vars
        => [Promise!Next]_<<Protected, WithFinalizer \ Protected, Deleting, done>>
  BY WriteImplements, EffectImplements DEF Promised
<1> QED
  BY <1>1, <1>2, <1>3, Invariance, PTL DEF Spec, KeepsPromise, Promise!Spec

===========================================================================
