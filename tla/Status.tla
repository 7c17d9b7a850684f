------------------------------ MODULE Status ------------------------------
(***************************************************************************)
(* Reconciler.ReconcileStatus (src/reconciler/status.go): the status of a  *)
(* custom resource (CR) follows that of the workloads it lists, with their *)
(* health and the worst of it, and the functions the caller passes.        *)
(*                                                                         *)
(* `cr` and `feed[t]` hold the versions of the CR and of the workloads of  *)
(* kind t, from the one in the cache (head) to the one of the API server   *)
(* (last), as in OwnedResources.  The status of the CR keeps, for every    *)
(* workload, the workload as it was read: its status and, for the          *)
(* properties, the spec that the health was computed from.                 *)
(***************************************************************************)
EXTENDS Health, Sequences, SequencesExt

CONSTANTS
  Keys,        \* the workloads
  KindOf,      \* [Keys -> {"Deployment", "StatefulSet"}]
  Workloads,   \* [Keys -> sets of the forms a workload may have]
  Missing,     \* a workload that is not there
  Lists,       \* the lists of workloads a CR may ask for
  MaxEdits,    \* bound: edits of the CR
  MaxChanges,  \* bound: changes of the workloads
  MaxFaults    \* bound: failed calls, lost replies and restarts

Kinds == {"Deployment", "StatefulSet"}

ASSUME StatusAssumption ==
  /\ KindOf \in [Keys -> Kinds]
  /\ \A k \in Keys : /\ Workloads[k] \subseteq Deployment \union StatefulSet
                     /\ Missing \notin Workloads[k]
                     /\ \A w \in Workloads[k] : w.kind = KindOf[k]
  /\ Lists \subseteq SUBSET Keys /\ Lists # {}
  /\ MaxEdits \in Nat /\ MaxChanges \in Nat /\ MaxFaults \in Nat

VARIABLES
  tier,     \* 1: AppStatus, 2: with health, 3: with aggregated health
  mutators, \* the caller passes functions
  cr,       \* versions of the CR
  feed,     \* feed[t]: versions of the workloads of kind t
  queued,   \* the CR's key is in the workqueue
  pc,       \* what the worker does next
  inst,     \* the instance the worker works on
  todo,     \* workloads it has not yet looked at
  update,   \* the status is to be written
  fresh,    \* nobody wrote the CR since the version it read
  edits, changes, faults

local == <<pc, inst, todo, update>>
budget == <<edits, changes, faults>>
setup == <<tier, mutators>>
vars == <<setup, cr, feed, queued, local, fresh, budget>>

Form == UNION {Workloads[k] : k \in Keys}
Code == HealthStatusCode \union {""}

\* `generation` counts the edits of the spec, of which `list` is part;
\* `custom` is the field that the caller's functions reconcile.
CR == [generation : Nat, list : SUBSET Keys,
       work : [Keys -> Form \union {Missing}], health : [Keys -> Code],
       aggregate : Code, custom : Nat]

\* A CR without status, and what the worker holds between two passes.
NewCR(n, l) == [generation |-> n, list |-> l, work |-> [k \in Keys |-> Missing],
                health |-> [k \in Keys |-> ""], aggregate |-> "", custom |-> 0]
NoCR == NewCR(0, {})

StatusOf(o) == <<o.work, o.health, o.aggregate, o.custom>>

Api(k) == Last(feed[KindOf[k]])[k]
Cached(k) == Head(feed[KindOf[k]])[k]

Init ==
  /\ tier \in 1..3 /\ mutators \in BOOLEAN
  /\ \E l \in Lists : cr = <<NewCR(1, l)>>
  /\ \E f \in [Keys -> Form \union {Missing}] :
       /\ \A k \in Keys : f[k] \in Workloads[k] \union {Missing}
       /\ feed = [t \in Kinds |-> <<[k \in Keys |->
                    IF KindOf[k] = t THEN f[k] ELSE Missing]>>]
  /\ queued = TRUE /\ pc = "idle" /\ inst = NoCR
  /\ todo = {} /\ update = FALSE /\ fresh = FALSE
  /\ edits = 0 /\ changes = 0 /\ faults = 0

---------------------------------------------------------------------------
(* The API server, its users and the caches *)

\* A write that changes nothing makes no version, and raises no event.
Write(o) ==
  IF o = Last(cr) THEN UNCHANGED <<cr, fresh>>
                  ELSE cr' = Append(cr, o) /\ fresh' = FALSE

UserEdit ==
  /\ edits < MaxEdits /\ edits' = edits + 1
  /\ \E l \in Lists :
       Write([Last(cr) EXCEPT !.generation = @ + 1, !.list = l])
  /\ UNCHANGED <<setup, feed, queued, local, changes, faults>>

\* A workload appears, goes away, or makes progress.
Change(k) ==
  /\ changes < MaxChanges /\ changes' = changes + 1
  /\ \E w \in (Workloads[k] \union {Missing}) \ {Api(k)} :
       feed' = [feed EXCEPT ![KindOf[k]] =
                  Append(@, [Last(@) EXCEPT ![k] = w])]
  /\ UNCHANGED <<setup, cr, queued, local, fresh, edits, faults>>

\* Both the CR and the kinds of its workloads are watched.
CRSync ==
  /\ Len(cr) > 1
  /\ cr' = Tail(cr)
  /\ queued' = TRUE
  /\ UNCHANGED <<setup, feed, local, fresh, budget>>

KindSync(t) ==
  /\ Len(feed[t]) > 1
  /\ feed' = [feed EXCEPT ![t] = Tail(@)]
  /\ queued' = TRUE
  /\ UNCHANGED <<setup, cr, local, fresh, budget>>

---------------------------------------------------------------------------
(* The pass *)

\* Mutant: the aggregated health starts from that of the last pass.
KeepAggregate(o) == o

\* The aggregated health starts from the best.
ResetAggregate(o) ==
  IF tier = 3 THEN [o EXCEPT !.aggregate = "Healthy"] ELSE o

\* The CR is read before the handlers that precede this one.
Start ==
  /\ pc = "idle" /\ queued
  /\ queued' = FALSE
  /\ pc' = "workloads"
  /\ inst' = ResetAggregate(Head(cr))
  /\ todo' = Head(cr).list
  /\ update' = FALSE
  /\ fresh' = (Len(cr) = 1)
  /\ UNCHANGED <<setup, cr, feed, budget>>

Return ==
  /\ pc' = "idle"
  /\ inst' = NoCR /\ todo' = {} /\ update' = FALSE

\* An error: the pass is tried again.
Error ==
  /\ Return
  /\ queued' = TRUE

\* The Deployments come first.
NextWorkload(k) ==
  /\ pc = "workloads" /\ k \in todo
  /\ KindOf[k] = "StatefulSet" =>
       \A j \in todo : KindOf[j] = "StatefulSet"

\* setWorkloadHealth
WithHealth(o, k) ==
  LET health == HealthOf(o.work[k]) IN
  [o EXCEPT
     !.health[k] = IF tier >= 2 THEN health ELSE @,
     !.aggregate = IF tier = 3 /\ healthIsWorse(@, health) THEN health ELSE @]

\* Mutant: the comparisons work as they are meant to, and the result of
\* setWorkloadHealth replaces what was found out before.
HealthDiffers(k) ==
  LET o == WithHealth([inst EXCEPT !.work[k] = Cached(k)], k) IN
  IF tier = 1 THEN update \/ o.work # inst.work
              ELSE o.health # inst.health \/ o.aggregate # inst.aggregate

\* The code compares what it stored, by value, with a pointer to what it
\* observed, or the other way round: they differ whatever they hold.
Differs(k) == TRUE

\* Mutant: a workload that is not there is left out.
SkipMissing(k) ==
  /\ NextWorkload(k)
  /\ Cached(k) = Missing
  /\ todo' = todo \ {k}
  /\ UNCHANGED <<setup, cr, feed, queued, pc, inst, update, fresh, budget>>

WorkloadMissing(k) ==
  /\ NextWorkload(k)
  /\ Cached(k) = Missing
  /\ Error
  /\ UNCHANGED <<setup, cr, feed, fresh, budget>>

Aggregate(k) ==
  /\ NextWorkload(k)
  /\ Cached(k) # Missing
  /\ todo' = todo \ {k}
  /\ inst' = WithHealth([inst EXCEPT !.work[k] = Cached(k)], k)
  /\ update' = Differs(k)
  /\ UNCHANGED <<setup, cr, feed, queued, pc, fresh, budget>>

\* The caller's functions: one of them records the generation, for instance.
CallMutators ==
  /\ mutators
  /\ inst' = [inst EXCEPT !.custom = inst.generation]
  /\ update' = (update \/ inst.custom # inst.generation)

Mutate ==
  /\ pc = "workloads" /\ todo = {}
  /\ pc' = "write"
  /\ CallMutators \/ (~mutators /\ UNCHANGED <<inst, update>>)
  /\ UNCHANGED <<setup, cr, feed, queued, todo, fresh, budget>>

\* The status Update carries the version that was read.
CanWrite == pc = "write" /\ update /\ fresh

UpdateStatus ==
  /\ CanWrite
  /\ Write(inst)
  /\ Return
  /\ UNCHANGED <<setup, feed, queued, budget>>

Conflict ==
  /\ pc = "write" /\ update /\ ~fresh
  /\ Error
  /\ UNCHANGED <<setup, cr, feed, fresh, budget>>

NoUpdate ==
  /\ pc = "write" /\ ~update
  /\ Return
  /\ UNCHANGED <<setup, cr, feed, queued, fresh, budget>>

Work ==
  \/ Start
  \/ \E k \in Keys : WorkloadMissing(k) \/ Aggregate(k)
  \/ Mutate \/ UpdateStatus \/ Conflict \/ NoUpdate

---------------------------------------------------------------------------
(* Faults *)

Fault == faults < MaxFaults /\ faults' = faults + 1

\* What there is that can fail: Get, a function of the caller, the Update.
Calls ==
  \/ pc = "workloads" /\ (todo # {} \/ mutators)
  \/ pc = "write" /\ update

\* A call fails, or its reply is lost.
Fail ==
  /\ Fault
  /\ Calls
  /\ (CanWrite /\ Write(inst)) \/ UNCHANGED <<cr, fresh>>
  /\ Error
  /\ UNCHANGED <<setup, feed, edits, changes>>

Restart ==
  /\ Fault
  /\ cr' = <<Last(cr)>>
  /\ feed' = [t \in Kinds |-> <<Last(feed[t])>>]
  /\ Error
  /\ UNCHANGED <<setup, fresh, edits, changes>>

Sync == CRSync \/ \E t \in Kinds : KindSync(t)

Next ==
  \/ UserEdit \/ (\E k \in Keys : Change(k))
  \/ Sync \/ Work \/ Fail \/ Restart

\* controller-runtime keeps its workers running and its informers connected.
Fairness ==
  WF_vars(Work) /\ WF_vars(CRSync) /\ \A t \in Kinds : WF_vars(KindSync(t))

Spec == Init /\ [][Next]_vars

FairSpec == Spec /\ Fairness

---------------------------------------------------------------------------
(* Properties *)

Worst(codes) ==
  CHOOSE c \in codes : \A d \in codes : Rank(d) <= Rank(c)

WorstOf(o) == Worst({"Healthy"} \union {o.health[k] : k \in o.list})

\* What a pass holds of the workloads it looked at.
PassOK ==
  pc # "idle" => \A k \in inst.list \ todo :
    /\ inst.work[k] # Missing
    /\ tier >= 2 => inst.health[k] = HealthOf(inst.work[k])

\* Types, and PassOK.
TypeOK ==
  /\ tier \in 1..3 /\ mutators \in BOOLEAN
  /\ cr \in Seq(CR) /\ cr # <<>>
  /\ feed \in [Kinds -> Seq([Keys -> Form \union {Missing}])]
  /\ \A t \in Kinds : feed[t] # <<>>
  /\ queued \in BOOLEAN /\ pc \in {"idle", "workloads", "write"}
  /\ inst \in CR /\ todo \subseteq Keys
  /\ update \in BOOLEAN /\ fresh \in BOOLEAN
  /\ edits \in Nat /\ changes \in Nat /\ faults \in Nat
  /\ PassOK

StatusWritten == StatusOf(Last(cr')) # StatusOf(Last(cr))

\* Whatever is written as the aggregated health is the worst of the healths
\* written with it: it recovers when the workloads do, and no error leaves
\* one out (README, tier 3).
AggregateIsWorst ==
  [][StatusWritten /\ tier = 3 =>
       Last(cr').aggregate = WorstOf(Last(cr'))]_vars

\* A CR is reported healthy only when every workload it lists was rolled out.
HealthyIsRolledOut ==
  [][StatusWritten /\ tier = 3 /\ Last(cr').aggregate = "Healthy" =>
       \A k \in Last(cr').list : RolledOut(Last(cr').work[k])]_vars

Idle == pc = "idle" /\ ~queued

\* Without workloads and functions nothing sets the update flag, and the
\* aggregate stays what it was (see ReportedIsWorst).
Noticed(o) == o.list # {} \/ mutators

Reported(o) ==
  /\ mutators => o.custom = o.generation
  /\ \A k \in o.list : Api(k) # Missing /\ o.work[k] = Api(k)
  /\ tier >= 2 => \A k \in o.list : o.health[k] = HealthOf(Api(k))
  /\ tier = 3 /\ Noticed(o) => o.aggregate = WorstOf(o)

AtRest == Idle /\ Len(cr) = 1 /\ \A t \in Kinds : Len(feed[t]) = 1

\* With no pass due and no version on its way, the status is that of the
\* workloads, but for the aggregate of a CR that lists none, without functions.
\* No other change is lost to the update flag, and none to a conflict, to a
\* workload that was not there, or to a read before the last of the events.
RestsReported == AtRest => Reported(Last(cr))

\* When the workloads a CR lists are there and come to rest, its status ends
\* up with theirs (with the exception of RestsReported), and the controller
\* with nothing to do: the status written on every pass does not cause the
\* next, although the workloads are compared with something that always
\* differs.
StatusFollows ==
  (<>[]\A k \in Last(cr).list : Api(k) # Missing) =>
    <>[](Idle /\ Reported(Last(cr)))

\* What the README says of tier 3: the overall health is always the worst that
\* was found across the workloads, once there is one in the status.
ReportedIsWorst ==
  AtRest /\ tier = 3 /\ Last(cr).aggregate # "" =>
    Last(cr).aggregate = WorstOf(Last(cr))

===========================================================================
