------------------------------ MODULE Modify ------------------------------
(***************************************************************************)
(* How resource.CreateOrModify brings one resource that exists in line     *)
(* with its enabled template (src/resource/create_or_modify.go, from       *)
(* step 4 on, and Property.reconcile of src/resource/property.go), and     *)
(* what becomes of the fields that others set in the meantime.  The        *)
(* template, and the options it gives, are those of module Template.       *)
(*                                                                         *)
(* The content of a resource assigns a value, or Absent, to each of its    *)
(* leaves.  A property (JSONPath) is the set of leaves below it, so that   *)
(* one property may lie within another.  Lists are leaves: an update and a *)
(* merge patch replace them as a whole.                                    *)
(*                                                                         *)
(* `feed` holds the versions of the resource from the one in the cache     *)
(* (head) to the one of the API server (last), as in OwnedResources.       *)
(***************************************************************************)
EXTENDS Naturals, Sequences, SequencesExt, Template

CONSTANTS
  Leaves,        \* the fields of the resource
  Vals, Absent,  \* their values, and that of a field that is not there
  Templates,     \* the templates that the controller may use
  Configs,       \* the global configurations that it may set
  Default,       \* what the API server gives the fields that are not set
  MaxEdits,      \* bound: changes of the template
  MaxDrifts,     \* bound: changes by others
  MaxFaults      \* bound: failed passes

Content == [Leaves -> Vals \union {Absent}]

\* ReconcileOptions
Options == [ensure : SUBSET SUBSET Leaves, ignore : SUBSET SUBSET Leaves,
            op : {"Update", "Patch"}]

\* What template.Build returns.
Wanted(t) == Build(t, [l \in Leaves |-> Absent])

ASSUME ModifyAssumption ==
  /\ Absent \notin Vals
  /\ \A t \in Templates, c \in Configs :
       /\ Wanted(t) \in Content
       /\ GetReconcileOptions(t, c) \in Options
  /\ Default \in Content
  /\ MaxEdits \in Nat /\ MaxDrifts \in Nat /\ MaxFaults \in Nat

VARIABLES
  config,   \* the global configuration
  template,
  feed,     \* versions of the resource
  queued,   \* a reconcile of the owner is due
  pc,
  opts,     \* what GetReconcileOptions returns
  desired,  \* normalizedDesired
  live,     \* the version that the pass works on
  work,     \* u_live, on its way from live to what is written
  todo,     \* ensured properties that are not yet reconciled
  fresh,    \* live is still what the API server has
  edits, drifts, faults

local == <<opts, desired, live, work, todo>>
budget == <<edits, drifts, faults>>
vars == <<config, template, feed, queued, pc, local, fresh, budget>>

Cached == Head(feed)
Api == Last(feed)

Ensured == UNION opts.ensure
Ignored == UNION opts.ignore

\* The API server fills in its defaults.
Defaulted(o) == [l \in Leaves |-> IF o[l] = Absent THEN Default[l] ELSE o[l]]

\* normalize: what the ensured properties hold, less the ignored ones.
Normal(o, by) ==
  [l \in Leaves |-> IF l \in (UNION by.ensure) \ (UNION by.ignore)
                     THEN o[l] ELSE Absent]

\* The options that the next pass will go by.
NextOpts == GetReconcileOptions(template, config)

\* The resource was created from the template.
Init ==
  /\ config \in Configs /\ template \in Templates
  /\ feed = <<Defaulted(Wanted(template))>>
  /\ queued = TRUE /\ pc = "idle"
  /\ opts = NextOpts
  /\ desired = Wanted(template) /\ live = desired /\ work = desired
  /\ todo = {}
  /\ fresh = FALSE
  /\ edits = 0 /\ drifts = 0 /\ faults = 0

---------------------------------------------------------------------------
(* The API server, and those who write to it *)

\* A write of what is there already makes no version, and raises no event.
Store(o) ==
  feed' = IF Defaulted(o) = Api THEN feed ELSE Append(feed, Defaulted(o))

Sync ==
  /\ Len(feed) > 1
  /\ feed' = Tail(feed)
  /\ queued' = TRUE
  /\ UNCHANGED <<config, template, pc, local, fresh, budget>>

EditTemplate ==
  /\ edits < MaxEdits /\ edits' = edits + 1
  /\ template' \in Templates \ {template}
  /\ queued' = TRUE
  /\ UNCHANGED <<config, feed, pc, local, fresh, drifts, faults>>

Drift(l, v) ==
  /\ drifts < MaxDrifts /\ drifts' = drifts + 1
  /\ v # Api[l]
  /\ Store([Api EXCEPT ![l] = v])
  /\ fresh' = FALSE
  /\ UNCHANGED <<config, template, queued, pc, local, edits, faults>>

---------------------------------------------------------------------------
(* The pass *)

Get ==
  /\ pc = "idle" /\ queued
  /\ queued' = FALSE
  /\ opts' = NextOpts
  /\ desired' = Normal(Wanted(template), opts')
  /\ live' = Cached /\ work' = Cached
  /\ todo' = opts'.ensure
  /\ fresh' = (Len(feed) = 1)
  /\ pc' = IF Normal(Cached, opts') = desired' THEN "idle" ELSE "reconcile"
  /\ UNCHANGED <<config, template, feed, budget>>

Present(o, p) == \E l \in p : o[l] # Absent

\* Mutant: the property is set when it is desired, and never deleted.
SetOnly(o, p) ==
  IF Present(desired, p)
    THEN [l \in Leaves |-> IF l \in p THEN desired[l] ELSE o[l]]
    ELSE o

\* Property.reconcile: p is deleted from o when it is not desired, and
\* replaced by what is desired, as a whole, when it differs.
WithProperty(o, p) ==
  IF Present(desired, p) \/ Present(o, p)
    THEN [l \in Leaves |-> IF l \in p THEN desired[l] ELSE o[l]]
    ELSE o

\* Mutant: no copy is made of live, the base of the patch, before it changes.
ReconcileInPlace(p) ==
  /\ pc = "reconcile" /\ p \in todo
  /\ todo' = todo \ {p}
  /\ work' = WithProperty(work, p) /\ live' = work'
  /\ UNCHANGED <<config, template, feed, queued, pc, opts, desired, fresh,
                 budget>>

ReconcileProperty(p) ==
  /\ pc = "reconcile" /\ p \in todo
  /\ todo' = todo \ {p}
  /\ work' = WithProperty(work, p)
  /\ UNCHANGED <<config, template, feed, queued, pc, opts, desired, live,
                 fresh, budget>>

\* Mutant: Update without the resource version that was read.
BlindWrite == pc = "reconcile" /\ todo = {}

\* The update carries the resource version of live; the patch does not.
CanWrite == pc = "reconcile" /\ todo = {} /\ (opts.op = "Update" => fresh)

\* MergeFrom(live): the patch holds the fields in which work differs from it.
Patched ==
  [l \in Leaves |-> IF work[l] = live[l] THEN Api[l] ELSE work[l]]

StoreWork ==
  /\ CanWrite
  /\ Store(IF opts.op = "Update" THEN work ELSE Patched)

Write ==
  /\ StoreWork
  /\ pc' = "idle"
  /\ UNCHANGED <<config, template, queued, local, fresh, budget>>

\* Mutant: an error is logged and not retried.
LogError ==
  /\ pc' = "idle"
  /\ UNCHANGED <<config, template, queued, local, fresh>>

\* An error ends the pass, and the owner is queued again.
Error ==
  /\ pc' = "idle"
  /\ queued' = TRUE
  /\ UNCHANGED <<config, template, local, fresh>>

Conflict ==
  /\ pc = "reconcile" /\ todo = {} /\ ~CanWrite
  /\ Error
  /\ UNCHANGED <<feed, budget>>

\* A call fails, or its reply is lost once it is done.
Fail ==
  /\ pc = "reconcile" /\ faults < MaxFaults
  /\ faults' = faults + 1
  /\ UNCHANGED feed \/ StoreWork
  /\ Error
  /\ UNCHANGED <<edits, drifts>>

Worker ==
  \/ Get
  \/ \E p \in opts.ensure : ReconcileProperty(p)
  \/ Write \/ Conflict

Next ==
  \/ Sync \/ EditTemplate
  \/ \E l \in Leaves, v \in Vals \union {Absent} : Drift(l, v)
  \/ Worker \/ Fail

Spec == Init /\ [][Next]_vars

\* The controller runs its worker, and the informer delivers.
FairSpec == Spec /\ WF_vars(Worker) /\ WF_vars(Sync)

---------------------------------------------------------------------------
(* Properties *)

\* Between its read and its write, the pass holds what the API server has
\* unless somebody wrote to it, and it has changed, of that, the properties
\* that it has dealt with and no other field.
PassOK ==
  pc = "reconcile" =>
    /\ fresh => live = Api
    /\ \A l \in Leaves :
         work[l] = IF l \in UNION (opts.ensure \ todo)
                     THEN desired[l] ELSE live[l]

\* Types, and PassOK.
TypeOK ==
  /\ config \in Configs /\ template \in Templates
  /\ feed \in Seq(Content) /\ feed # <<>>
  /\ queued \in BOOLEAN
  /\ pc \in {"idle", "reconcile"}
  /\ opts \in Options
  /\ desired \in Content /\ live \in Content /\ work \in Content
  /\ todo \subseteq opts.ensure
  /\ fresh \in BOOLEAN
  /\ edits \in Nat /\ drifts \in Nat /\ faults \in Nat
  /\ PassOK

Writes == pc = "reconcile" /\ pc' = "idle" /\ feed' # feed

\* A write of the controller (the update or patch of CreateOrModify) touches
\* a field only if a property is ensured above it and the pass saw it differ
\* from what it wants: what others own outside of the ensured properties is
\* never set back to an older value, however stale the cache is and whoever
\* writes between the read and the write.
OthersKept ==
  [][Writes => \A l \in Leaves :
       Api'[l] # Api[l] => l \in Ensured /\ live[l] # desired[l]]_vars

\* After a write of CreateOrModify the API server holds, in the ensured
\* properties less the ignored ones, what the template wants, when nobody else
\* changed the resource since the version that the pass worked on.
WriteEnsures ==
  [][Writes /\ fresh =>
       Normal(Api', opts) = Normal(Defaulted(desired), opts)]_vars

\* The API server's defaults do not contradict the template.
Stable ==
  Normal(Defaulted(Wanted(template)), NextOpts)
    = Normal(Wanted(template), NextOpts)

\* With no pass due and no version on its way, the resource has the ensured
\* content: neither a stale cache, nor somebody who wrote between the read and
\* the write, nor a merge patch that says nothing new leaves it behind.
RestsInLine ==
  pc = "idle" /\ ~queued /\ Len(feed) = 1 /\ Stable =>
    Normal(Api, NextOpts) = Normal(Wanted(template), NextOpts)

\* When the changes stop, the controller does: the resource has the ensured
\* content, and no pass is due, whether or not others filled in fields.
Settles ==
  <>[](/\ pc = "idle" /\ ~queued
       /\ Stable => Normal(Api, NextOpts) = Normal(Wanted(template), NextOpts))

\* What the documentation of Property says of an ignored property: it is
\* excluded from reconciliation even within an ensured one, so that no write
\* of the controller changes what the API server has there.
IgnoredKept ==
  [][Writes => \A l \in Ignored : Api'[l] = Api[l]]_vars

===========================================================================
