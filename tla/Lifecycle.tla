---------------------------- MODULE Lifecycle ----------------------------
(***************************************************************************)
(* The life of one custom resource (CR) under                              *)
(* Reconciler.ManageResourceLifecycle (src/reconciler/reconciler.go): the  *)
(* user creates, edits, deletes and re-creates the CR under one name,      *)
(* while one worker of the controller initialises it, finalises it and     *)
(* releases its finalizer.                                                 *)
(*                                                                         *)
(* The API server is the sequence `log` of the versions the CR's name has  *)
(* had; a resource version is an index of it, and the uid of a CR is the   *)
(* index of its first version.  The worker reads the manager's cache,      *)
(* which holds version `synced` and lags behind; it writes with Update,    *)
(* which the API server accepts only for the newest version.               *)
(*                                                                         *)
(* What the rest of the reconcile function does with a CR after the        *)
(* lifecycle says Continue is module OwnedResources; here it is the state  *)
(* pc = "continue".  In-memory initialisation changes only the worker's    *)
(* copy and is part of GetInitialized.                                     *)
(***************************************************************************)
EXTENDS Naturals, Sequences, SequencesExt

CONSTANTS
  NumFns,        \* finalization functions, run in this order: 1 .. NumFns
  OneShot,       \* those that return an error once their effect is there
  UseFinalizer,  \* WithFinalizer was passed
  MaxVersions,   \* bound: the user acts only while the log is shorter
  MaxFaults      \* bound: failed calls, lost replies and restarts

ASSUME LifecycleAssumption ==
  /\ NumFns \in Nat /\ MaxVersions \in Nat /\ MaxFaults \in Nat
  /\ OneShot \subseteq 1..NumFns
  /\ UseFinalizer \in BOOLEAN

Fns == 1..NumFns

VARIABLES
  log,     \* every version the CR's name has had in the API server
  synced,  \* the version the manager's cache holds
  queued,  \* the CR's key is in the workqueue
  pc,      \* what the worker does next
  read,    \* the version its Get returned
  fn,      \* the finalization function it runs next
  done,    \* <<uid, f>>: the effect of f took place for that CR
  faults   \* faults that happened so far

vars == <<log, synced, queued, pc, read, fn, done, faults>>
worker == <<pc, read, fn, done>>

\* A version of the CR.  `other` is a finalizer that is not this controller's
\* (foregroundDeletion, for instance), `init` says that the initialization
\* functions would change nothing, `rev` counts the user's edits.
CR == [uid : Nat, rev : Nat, deleting : BOOLEAN, finalizer : BOOLEAN,
       other : BOOLEAN, init : BOOLEAN]

NoCR == [uid |-> 0, rev |-> 0, deleting |-> FALSE, finalizer |-> FALSE,
         other |-> FALSE, init |-> FALSE]

cr == log[Len(log)]    \* what the API server has
obj == log[read]       \* what the worker's Get returned

Init ==
  /\ log = <<NoCR>>
  /\ synced = 1
  /\ queued = FALSE
  /\ pc = "idle" /\ read = 1 /\ fn = 1
  /\ done = {}
  /\ faults = 0

---------------------------------------------------------------------------
(* The API server and the cache *)

\* What the API server stores: a CR that is being deleted goes away with its
\* last finalizer.
Stored(o) ==
  IF o.deleting /\ ~o.finalizer /\ ~o.other THEN NoCR ELSE o

Write(o) == log' = Append(log, Stored(o))

\* Optimistic locking: the Update carries the resource version that was read.
CanUpdate == read = Len(log)

\* The informer delivers versions in order, and may skip some; the For()
\* watch of the controller enqueues the key.
CacheSync ==
  /\ \E i \in (synced + 1)..Len(log) : synced' = i
  /\ queued' = TRUE
  /\ UNCHANGED <<log, worker, faults>>

\* A resource that the CR owns, of a type that is watched, changed.
OwnedChanged ==
  /\ queued' = TRUE
  /\ UNCHANGED <<log, synced, worker, faults>>

---------------------------------------------------------------------------
(* The user *)

UserCreate ==
  /\ Len(log) < MaxVersions
  /\ cr.uid = 0
  /\ \E init \in BOOLEAN :
       Write([NoCR EXCEPT !.uid = Len(log) + 1, !.init = init])
  /\ UNCHANGED <<synced, queued, worker, faults>>

\* The user changes the spec, and may drop a default that was set; nobody but
\* the controller touches the controller's finalizer.
UserEdit ==
  /\ Len(log) < MaxVersions
  /\ cr.uid # 0
  /\ \E init \in {FALSE, cr.init} :
       Write([cr EXCEPT !.rev = @ + 1, !.init = init])
  /\ UNCHANGED <<synced, queued, worker, faults>>

UserDelete ==
  /\ Len(log) < MaxVersions
  /\ cr.uid # 0 /\ ~cr.deleting
  /\ \E other \in BOOLEAN :
       Write([cr EXCEPT !.deleting = TRUE, !.other = other])
  /\ UNCHANGED <<synced, queued, worker, faults>>

\* Whoever set the other finalizer removes it.
OtherReleased ==
  /\ cr.deleting /\ cr.other
  /\ Write([cr EXCEPT !.other = FALSE])
  /\ UNCHANGED <<synced, queued, worker, faults>>

---------------------------------------------------------------------------
(* The worker *)

Return ==
  /\ pc' = "idle"
  /\ UNCHANGED queued

\* Mutant: an error is logged and not retried.
ForgetError ==
  /\ pc' = "idle"
  /\ UNCHANGED queued

\* ReturnAndRequeue, and an error, which the controller retries with backoff.
Requeue ==
  /\ pc' = "idle"
  /\ queued' = TRUE

Pop ==
  /\ pc = "idle" /\ queued
  /\ queued' = FALSE
  /\ pc' = "get"
  /\ UNCHANGED <<log, synced, read, fn, done, faults>>

\* Mutant: WithFinalizer registers no initialization function.
InitializedWithoutFinalizer(o) == o.init

\* The initialization functions, initFinalizer among them, change nothing.
IsInitialized(o) == o.init /\ (UseFinalizer => o.finalizer)

Initialized(o) ==
  [o EXCEPT !.init = TRUE, !.finalizer = @ \/ UseFinalizer]

\* The finalization logic runs only while our finalizer is there.
NeedsFinalization(o) == UseFinalizer /\ o.finalizer

GetStep ==
  /\ pc = "get"
  /\ read' = synced
  /\ UNCHANGED <<log, synced, done, faults>>

GetNotFound ==
  /\ GetStep
  /\ log[synced].uid = 0
  /\ Return
  /\ UNCHANGED fn

\* Mutant: the loop over the finalization functions starts one too early.
FinalizeFromZero ==
  /\ GetStep
  /\ log[synced].deleting
  /\ IF NeedsFinalization(log[synced])
       THEN /\ pc' = "finalize" /\ fn' = 0
            /\ UNCHANGED queued
       ELSE Return /\ UNCHANGED fn

GetBeingDeleted ==
  /\ GetStep
  /\ log[synced].deleting
  /\ IF NeedsFinalization(log[synced])
       THEN /\ pc' = "finalize" /\ fn' = 1
            /\ UNCHANGED queued
       ELSE Return /\ UNCHANGED fn

GetUninitialized ==
  /\ GetStep
  /\ log[synced].uid # 0 /\ ~log[synced].deleting
  /\ ~IsInitialized(log[synced])
  /\ pc' = "initialize"
  /\ UNCHANGED <<queued, fn>>

\* Mutant: a CR that is being deleted is not told apart.
GetAnyInitialized ==
  /\ GetStep
  /\ log[synced].uid # 0
  /\ IsInitialized(log[synced])
  /\ pc' = "continue"
  /\ UNCHANGED <<queued, fn>>

GetInitialized ==
  /\ GetStep
  /\ log[synced].uid # 0 /\ ~log[synced].deleting
  /\ IsInitialized(log[synced])
  /\ pc' = "continue"
  /\ UNCHANGED <<queued, fn>>

\* Mutant: the Update does not carry the resource version.
InitializeBlindly ==
  /\ pc = "initialize"
  /\ Write(Initialized(obj))
  /\ Requeue
  /\ UNCHANGED <<synced, read, fn, done, faults>>

\* The Update that persists what the initialization functions changed.
Initialize ==
  /\ pc = "initialize"
  /\ IF CanUpdate THEN Write(Initialized(obj)) ELSE UNCHANGED log
  /\ Requeue
  /\ UNCHANGED <<synced, read, fn, done, faults>>

\* Mutant: the error of a function that did nothing is only logged.
IgnoreFailedFn ==
  /\ pc = "finalize" /\ fn \in Fns
  /\ fn' = fn + 1
  /\ done' \in {done, done \union {<<obj.uid, fn>>}}
  /\ UNCHANGED <<log, synced, queued, pc, read, faults>>

\* One finalization function: it succeeds, or it is of the kind that fails
\* when its effect is there already (a Create, for instance).
RunFinalizationFn ==
  /\ pc = "finalize" /\ fn \in Fns
  /\ IF fn \in OneShot /\ <<obj.uid, fn>> \in done
       THEN /\ Requeue
            /\ UNCHANGED <<fn, done>>
       ELSE /\ done' = done \union {<<obj.uid, fn>>}
            /\ fn' = fn + 1
            /\ UNCHANGED <<pc, queued>>
  /\ UNCHANGED <<log, synced, read, faults>>

\* Mutant: the loop stops one function short.
AllButLast == fn >= NumFns

AllFinalized == fn > NumFns

\* All of them succeeded: RemoveFinalizer and Update.
Release ==
  /\ pc = "finalize" /\ AllFinalized
  /\ IF CanUpdate
       THEN Write([obj EXCEPT !.finalizer = FALSE]) /\ Return
       ELSE UNCHANGED log /\ Requeue
  /\ UNCHANGED <<synced, read, fn, done, faults>>

\* The rest of the reconcile function, which may ask for another pass.
Body ==
  /\ pc = "continue"
  /\ Return \/ Requeue
  /\ UNCHANGED <<log, synced, read, fn, done, faults>>

Work ==
  \/ Pop
  \/ GetNotFound \/ GetBeingDeleted \/ GetUninitialized \/ GetInitialized
  \/ Initialize \/ RunFinalizationFn \/ Release \/ Body

---------------------------------------------------------------------------
(* Faults *)

Fault == faults < MaxFaults /\ faults' = faults + 1

\* A call of the worker fails without an effect.
CallFails ==
  /\ Fault
  /\ pc # "idle"
  /\ Requeue
  /\ UNCHANGED <<log, synced, read, fn, done>>

\* A call takes effect, but the worker gets an error.
ReplyLost ==
  /\ Fault
  /\ \/ /\ pc = "initialize" /\ CanUpdate
        /\ Write(Initialized(obj))
        /\ UNCHANGED done
     \/ /\ pc = "finalize" /\ fn \in Fns
        /\ done' = done \union {<<obj.uid, fn>>}
        /\ UNCHANGED log
     \/ /\ pc = "finalize" /\ AllFinalized /\ CanUpdate
        /\ Write([obj EXCEPT !.finalizer = FALSE])
        /\ UNCHANGED done
  /\ Requeue
  /\ UNCHANGED <<synced, read, fn>>

\* The controller restarts: the informer lists the CRs and enqueues them.
Restart ==
  /\ Fault
  /\ synced' = Len(log)
  /\ pc' = "idle"
  /\ queued' = (cr.uid # 0)
  /\ UNCHANGED <<log, read, fn, done>>

Env == UserCreate \/ UserEdit \/ UserDelete \/ OtherReleased

Next ==
  \/ Env \/ CacheSync \/ OwnedChanged
  \/ Work \/ CallFails \/ ReplyLost \/ Restart

\* controller-runtime keeps its workers running and its informers connected.
Fairness == WF_vars(Work) /\ WF_vars(CacheSync)

Spec == Init /\ [][Next]_vars

FairSpec == Spec /\ Fairness

---------------------------------------------------------------------------
(* Properties *)

Version == 1..Len(log)

TypeOK ==
  /\ log \in Seq(CR) /\ Len(log) > 0
  /\ synced \in Version /\ read \in Version
  /\ queued \in BOOLEAN
  /\ pc \in {"idle", "get", "initialize", "finalize", "continue"}
  /\ fn \in 1..(NumFns + 1)
  /\ done \subseteq (Nat \X Fns)
  /\ faults \in Nat

\* A CR that ever had the finalizer keeps it until the effect of every
\* finalization function took place, whatever call fails and whenever the
\* controller restarts (the finalize branch of ManageResourceLifecycle).
FinalizedBeforeRelease ==
  \A i \in Version : log[i].finalizer =>
    \/ cr.uid = log[i].uid /\ cr.finalizer
    \/ \A f \in Fns : <<log[i].uid, f>> \in done

\* A CR that ever had the finalizer, and one that was being deleted.
WithFinalizer == {log[i].uid : i \in {j \in Version : log[j].finalizer}}
Deleting == {log[i].uid : i \in {j \in Version : log[j].deleting}}
Protected == IF cr.finalizer THEN {cr.uid} ELSE {}

\* Seen from outside, the CRs are finalised as module Finalization says: the
\* functions run in order and for CRs that are being deleted only, nobody gets
\* the finalizer again, and it goes when all of them ran.
Promise == INSTANCE Finalization
             WITH Uids <- 1..MaxVersions,
                  protected <- Protected,
                  released <- WithFinalizer \ Protected,
                  doomed <- Deleting,
                  effects <- done

KeepsPromise == Promise!Spec

\* While the worker reconciles the owned resources of a CR, that very CR
\* exists and carries the finalizer, although the worker decided on a cached
\* copy: nothing is created for a CR that is finalised or gone.
ContinueIsProtected ==
  pc = "continue" /\ UseFinalizer => cr.uid = obj.uid /\ cr.finalizer

\* ... and no finalization function took effect for it: what they clean up is
\* not there again when the finalizer goes, although the cache may have shown
\* the CR alive to passes after the one that began to finalise it failed.
ContinueIsUnfinalized ==
  pc = "continue" => \A f \in Fns : <<obj.uid, f>> \notin done

\* With no pass due and the cache current, a CR that is being deleted is
\* released, and of any other the newest version was read, with the finalizer
\* in place: no event, error, conflict or lost reply leaves one behind.
RestsHandled ==
  pc = "idle" /\ ~queued /\ synced = Len(log) /\ cr.uid # 0 =>
    IF cr.deleting THEN ~NeedsFinalization(cr)
                   ELSE IsInitialized(cr) /\ read = Len(log)

\* No write of the controller undoes an edit of the user, although it sends
\* the whole object it read from the cache.
UserEditsSurvive ==
  [][cr'.uid = cr.uid => cr'.rev >= cr.rev]_vars

\* A CR that is being deleted is released, once faults and edits stop.
Releasing(u) == cr.uid = u /\ cr.deleting /\ cr.finalizer

DeletedIsReleased ==
  \A u \in 1..MaxVersions : Releasing(u) ~> ~Releasing(u)

\* What the README says: when all finalization logic is completed, the
\* finalizer is removed.
FinalizedIsReleased ==
  \A u \in 1..MaxVersions :
    (Releasing(u) /\ \A f \in Fns : <<u, f>> \in done) ~> ~Releasing(u)

\* Every version of a CR that is not superseded is reconciled: its
\* initialization is persisted, if need be, and the body runs for it.  The
\* controller itself adds at most one version per version of the user's.
LastVersionReconciled ==
  \A n \in 1..(2 * MaxVersions) :
    <>[](Len(log) = n /\ cr.uid # 0 /\ ~cr.deleting) =>
      <>(pc = "continue" /\ read = n)

===========================================================================
