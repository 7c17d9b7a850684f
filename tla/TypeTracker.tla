--------------------------- MODULE TypeTracker ---------------------------
(***************************************************************************)
(* The type tracker of a Reconciler (src/reconciler/tracker.go) under      *)
(* several workers: MaxConcurrentReconciles of them share one typeTracker, *)
(* and each runs the part of ReconcileOwnedResources that tracks the types *)
(* of the resources it manages (src/reconciler/reconciler.go).             *)
(*                                                                         *)
(* The tracker is read without its mutex, so every read and every critical *)
(* section is a step of its own.  The unlocked read of the slice races     *)
(* with append: it sees the slice before or after, or the process crashes  *)
(* on a torn slice header, which is Restart.                               *)
(***************************************************************************)
EXTENDS Naturals, FiniteSets, Sequences

CONSTANTS
  Workers,         \* the workers of the controller
  Types,           \* types (GVKs) of owned resources
  NoWorker,        \* the mutex is free
  DynamicWatches,  \* config.AreDynamicWatchesEnabled()
  MaxFaults        \* bound: failed watches and restarts

ASSUME TypeTrackerAssumption ==
  /\ IsFiniteSet(Workers) /\ NoWorker \notin Workers
  /\ DynamicWatches \in BOOLEAN
  /\ MaxFaults \in Nat

VARIABLES
  seenTypes,  \* the tracked types, in the order they were added
  watches,    \* watches[t]: event sources for t that the controller runs
  mu,         \* who holds the mutex
  pc,         \* pc[w]: what worker w does next
  gvk,        \* gvk[w]: the type of the reference it is at
  managed,    \* managed[w]: the types it is done with in this pass
  faults

vars == <<seenTypes, watches, mu, pc, gvk, managed, faults>>

Pc == {"idle", "template", "check", "lockWatch", "watch", "recheck",
       "lockTrack", "append"}

\* Mutant: only the last entry is compared.
LastTracked(t) == seenTypes # <<>> /\ seenTypes[Len(seenTypes)] = t

\* The entry is looked up by value (ContainsBy with DeepEqual).
Tracked(t) == \E i \in DOMAIN seenTypes : seenTypes[i] = t

Init ==
  /\ seenTypes = <<>>
  /\ watches = [t \in Types |-> 0]
  /\ mu = NoWorker
  /\ pc = [w \in Workers |-> "idle"]
  /\ gvk \in [Workers -> Types]
  /\ managed = [w \in Workers |-> {}]
  /\ faults = 0

Goto(w, p) == pc' = [pc EXCEPT ![w] = p]

Step(w, from, to) == pc[w] = from /\ Goto(w, to)

---------------------------------------------------------------------------
(* A pass of one worker *)

StartPass(w) ==
  /\ Step(w, "idle", "template")
  /\ managed' = [managed EXCEPT ![w] = {}]
  /\ UNCHANGED <<seenTypes, watches, mu, gvk, faults>>

\* A template returned a reference to a resource of type t.
Reference(w, t) ==
  /\ Step(w, "template", "check")
  /\ gvk' = [gvk EXCEPT ![w] = t]
  /\ UNCHANGED <<seenTypes, watches, mu, managed, faults>>

\* The type at hand is dealt with: the worker goes on with the next template.
NextTemplate(w) ==
  /\ Goto(w, "template")
  /\ managed' = [managed EXCEPT ![w] = @ \union {gvk[w]}]

\* isTypeTracked, without the mutex.
IsTracked(w) ==
  /\ pc[w] = "check" /\ Tracked(gvk[w])
  /\ NextTemplate(w)
  /\ UNCHANGED <<seenTypes, watches, mu, gvk, faults>>

\* A type that is new is watched first, and tracked then.
AfterCheck == IF DynamicWatches THEN "lockWatch" ELSE "recheck"

\* Mutant: a worker leaves a new type to another one and looks again.
WaitForOthers(w) ==
  /\ ~Tracked(gvk[w])
  /\ Step(w, "check", "check")
  /\ UNCHANGED <<seenTypes, watches, mu, gvk, managed, faults>>

IsNotTracked(w) ==
  /\ ~Tracked(gvk[w])
  /\ Step(w, "check", AfterCheck)
  /\ UNCHANGED <<seenTypes, watches, mu, gvk, managed, faults>>

Lock(w) ==
  /\ mu = NoWorker
  /\ mu' = w
  /\ \/ Step(w, "lockWatch", "watch")
     \/ Step(w, "lockTrack", "append")
  /\ UNCHANGED <<seenTypes, watches, gvk, managed, faults>>

Unlock == mu' = NoWorker

\* watchOwned: the event source is added under the mutex.
WatchOwned(w) ==
  /\ Step(w, "watch", "recheck")
  /\ watches' = [watches EXCEPT ![gvk[w]] = @ + 1]
  /\ Unlock
  /\ UNCHANGED <<seenTypes, gvk, managed, faults>>

\* trackType looks again, without the mutex, and takes it to append.
AlreadyTracked(w) ==
  /\ pc[w] = "recheck" /\ Tracked(gvk[w])
  /\ NextTemplate(w)
  /\ UNCHANGED <<seenTypes, watches, mu, gvk, faults>>

StillNotTracked(w) ==
  /\ ~Tracked(gvk[w])
  /\ Step(w, "recheck", "lockTrack")
  /\ UNCHANGED <<seenTypes, watches, mu, gvk, managed, faults>>

\* Mutant: the entry is appended to a copy of the slice (value receiver).
AppendToCopy(w) ==
  /\ pc[w] = "append"
  /\ NextTemplate(w)
  /\ Unlock
  /\ UNCHANGED <<seenTypes, watches, gvk, faults>>

AppendType(w) ==
  /\ pc[w] = "append"
  /\ seenTypes' = Append(seenTypes, gvk[w])
  /\ NextTemplate(w)
  /\ Unlock
  /\ UNCHANGED <<watches, gvk, faults>>

EndPass(w) ==
  /\ Step(w, "template", "idle")
  /\ UNCHANGED <<seenTypes, watches, mu, gvk, managed, faults>>

Track(w) ==
  \/ IsTracked(w) \/ IsNotTracked(w)
  \/ Lock(w) \/ WatchOwned(w)
  \/ AlreadyTracked(w) \/ StillNotTracked(w) \/ AppendType(w)

---------------------------------------------------------------------------
(* Faults *)

Fault == faults < MaxFaults /\ faults' = faults + 1

\* No object can be made of the type: an error before the mutex is taken.
NewObjectFails(w) ==
  /\ Fault
  /\ Step(w, "lockWatch", "idle")
  /\ UNCHANGED <<seenTypes, watches, mu, gvk, managed>>

\* Mutant: the error of the watch is logged, and the type tracked all the same.
IgnoreWatchError(w) ==
  /\ Fault
  /\ Step(w, "watch", "recheck")
  /\ Unlock
  /\ UNCHANGED <<seenTypes, watches, gvk, managed>>

\* Mutant: no deferred unlock, so that the error returns with the mutex held.
ReturnWithLock(w) ==
  /\ Fault
  /\ Step(w, "watch", "idle")
  /\ UNCHANGED <<seenTypes, watches, mu, gvk, managed>>

\* The watch fails: the deferred unlock runs, and the pass ends in an error.
WatchFails(w) ==
  /\ Fault
  /\ Step(w, "watch", "idle")
  /\ Unlock
  /\ UNCHANGED <<seenTypes, watches, gvk, managed>>

\* The process restarts, with a new tracker and a new controller.
Restart ==
  /\ Fault
  /\ seenTypes' = <<>>
  /\ watches' = [t \in Types |-> 0]
  /\ mu' = NoWorker
  /\ pc' = [w \in Workers |-> "idle"]
  /\ managed' = [w \in Workers |-> {}]
  /\ UNCHANGED gvk

Next ==
  \/ \E w \in Workers :
       \/ StartPass(w)
       \/ \E t \in Types : Reference(w, t)
       \/ Track(w)
       \/ EndPass(w)
       \/ NewObjectFails(w)
       \/ WatchFails(w)
  \/ Restart

\* The Go scheduler runs every goroutine, and its mutex hands over to a waiter
\* that waited long enough (starvation mode): strong fairness of Lock.
Fairness ==
  \A w \in Workers : WF_vars(Track(w)) /\ SF_vars(Lock(w))

Spec == Init /\ [][Next]_vars

FairSpec == Spec /\ Fairness

---------------------------------------------------------------------------
(* Properties *)

Critical == {"watch", "append"}

Entries(t) == {i \in 1..Len(seenTypes) : seenTypes[i] = t}

\* Types, and the discipline of the mutex: the worker in a critical section
\* (watchOwned, the append of trackType) is the one that holds it, and every
\* way out of the section, errors included, gives it back.
TypeOK ==
  /\ seenTypes \in Seq(Types)
  /\ watches \in [Types -> Nat]
  /\ mu \in Workers \union {NoWorker}
  /\ pc \in [Workers -> Pc]
  /\ gvk \in [Workers -> Types]
  /\ managed \in [Workers -> SUBSET Types]
  /\ faults \in Nat
  /\ \A w \in Workers : pc[w] \in Critical <=> mu = w

\* A type that the tracker lists is watched: whichever worker added it, and
\* whichever watches failed, none of them believes that a type is looked
\* after when its events go unnoticed.
TrackedIsWatched ==
  DynamicWatches => \A t \in Types : Tracked(t) => watches[t] > 0

\* What a pass managed is tracked when it comes to the pruner, so that the
\* pruner of this or a later pass lists its type.
ManagedIsTracked ==
  \A w \in Workers : \A t \in managed[w] : Tracked(t)

\* The unlocked reads let several workers add the same type, but each worker
\* adds it at most once: watches and entries do not pile up pass by pass.
LeakIsBounded ==
  \A t \in Types :
    /\ Cardinality(Entries(t)) <= Cardinality(Workers)
    /\ watches[t] <= Cardinality(Workers)

\* No worker is stuck on the mutex.
TracksOn ==
  \A w \in Workers :
    pc[w] \notin {"idle", "template"} ~> pc[w] \in {"idle", "template"}

\* The tracker is what the pruner and the watches take it for: a type is
\* watched before it is tracked, and is not lost, neither to an append of
\* another worker nor to a failed watch.
Promise == INSTANCE TrackedTypes
             WITH tracked <- {t \in Types : Tracked(t)},
                  watched <- {t \in Types : watches[t] > 0}

KeepsPromise == Promise!Spec

\* What trackType checks for, and its test: a type that is tracked is not
\* added again.
NoDuplicates ==
  \A t \in Types : Cardinality(Entries(t)) <= 1

===========================================================================
