----------------------------- MODULE Mutators -----------------------------
(***************************************************************************)
(* A template whose mutations read the cluster: SetDeploymentReplicas and  *)
(* SetServiceLiveValues (src/mutators/mutators.go), which copy live values *)
(* into the desired object, and RolloutTrigger                             *)
(* (src/mutators/rollout_triggers.go), which puts a hash of a Secret or    *)
(* ConfigMap, the source, into the pod template.  Template.Build runs them *)
(* at the beginning of resource.CreateOrModify, which then reads the live  *)
(* object once more.  A change of the source reaches the owner through     *)
(* Reconciler.FilteredEventHandler (src/reconciler/reconciler.go).         *)
(*                                                                         *)
(* `kind` says which of the two the one resource is.  `source` and `feed`  *)
(* hold the versions from the cached one (head) to that of the API server  *)
(* (last), as in OwnedResources.  An address or a node port is a number,   *)
(* and 0 stands for none, as in Go.                                        *)
(***************************************************************************)
EXTENDS Naturals, Sequences, SequencesExt, Functions

CONSTANTS
  Templates,        \* [kind -> what the template's builder may return]
  Contents, Hash,   \* contents of the source, and what util.Hash makes of them
  NoHash,           \* the hash of a source that is not there
  Replicas,         \* replicas that others may ask for
  IPs, NodePorts,   \* what the API server hands out to Services
  Missing,          \* an object that is not there
  MaxEdits,         \* bound: edits of the template
  MaxChanges,       \* bound: changes of the source
  MaxOthers,        \* bound: changes of the resource by others
  MaxFaults         \* bound: failed calls, lost replies and restarts

Kinds == DOMAIN Templates

\* A port of a Service is its number and protocol; ports[p] is its node port.
PortSets == {DOMAIN t.ports : t \in Templates["Service"]}

Deployment == [replicas : Replicas, hash : Range(Hash) \union {NoHash}]
Service == [type : {"ClusterIP", "NodePort"}, ip : IPs \union {0},
            ports : UNION {[P -> NodePorts \union {0}] : P \in PortSets}]

NoNodePorts(o) == \A p \in DOMAIN o.ports : o.ports[p] = 0

ASSUME MutatorsAssumption ==
  /\ Kinds = {"Deployment", "Service"}
  /\ Templates["Deployment"] \subseteq Deployment
  /\ Templates["Service"] \subseteq Service
  /\ \A t \in Templates["Service"] : t.type = "ClusterIP" => NoNodePorts(t)
  /\ Hash \in [Contents -> Range(Hash)] /\ NoHash \notin Range(Hash)
  /\ IPs \subseteq Nat \ {0} /\ NodePorts \subseteq Nat \ {0}
  /\ Missing \notin Deployment \union Service \union Contents
  /\ MaxEdits \in Nat /\ MaxChanges \in Nat
  /\ MaxOthers \in Nat /\ MaxFaults \in Nat

VARIABLES
  kind, op, enforce,  \* resource, ModifyOp, SetDeploymentReplicas(enforce)
  template,   \* what the template's builder returns
  source,     \* versions of the source: its content, or Missing
  events,     \* events of the source that the handler has not seen yet
  known,      \* the owner is in the cache
  feed,       \* versions of the resource
  queued,     \* the owner's key is in the workqueue
  pc,         \* what the worker does next
  built,      \* the live object that the mutation read
  desired,    \* what Build makes of the template
  live,       \* the live object that CreateOrModify read
  fresh,      \* live is still what the API server has
  lost,       \* an event was dropped, and no pass has begun since
  contents,   \* history: what the source was
  edits, changes, others, faults

setup == <<kind, op, enforce>>
local == <<pc, built, desired, live>>
budget == <<edits, changes, others, faults>>
vars == <<setup, template, source, events, known, feed, queued, local, fresh,
          lost, contents, budget>>

Cached == Head(feed)
Api == Last(feed)

Init ==
  /\ kind \in Kinds /\ op \in {"Update", "Patch"} /\ enforce \in BOOLEAN
  /\ kind = "Service" => ~enforce
  /\ template \in Templates[kind]
  /\ \E c \in Contents \union {Missing} : source = <<c>> /\ contents = {c}
  /\ events = 1 /\ known = FALSE
  /\ feed = <<Missing>>
  /\ queued = FALSE /\ pc = "idle"
  /\ built = Missing /\ desired = Missing /\ live = Missing
  /\ fresh = FALSE /\ lost = FALSE
  /\ edits = 0 /\ changes = 0 /\ others = 0 /\ faults = 0

---------------------------------------------------------------------------
(* The API server and those who write to it *)

\* It refuses to change an address, and node ports of a type that has none.
Accepts(o) ==
  kind = "Service" => /\ Api # Missing => o.ip \in {0, Api.ip}
                      /\ o.type = "ClusterIP" => NoNodePorts(o)

\* It hands out what is not asked for.
Allocations(o) ==
  IF o.type = "ClusterIP" THEN {o.ports}
  ELSE {np \in [DOMAIN o.ports -> NodePorts] :
          /\ IsInjective(np)
          /\ \A p \in DOMAIN np : o.ports[p] \in {0, np[p]}}

Stored(o) ==
  IF kind = "Deployment" THEN {o}
  ELSE [type : {o.type}, ports : Allocations(o),
        ip : IF o.ip # 0 THEN {o.ip}
             ELSE IF Api # Missing THEN {Api.ip} ELSE IPs]

\* A write that changes nothing makes no version.
Store(o) ==
  feed' = IF o = Api THEN feed ELSE Append(feed, o)

\* An autoscaler, or a user who sets node ports.
ChangedByOthers ==
  IF kind = "Deployment"
    THEN {[Api EXCEPT !.replicas = n] : n \in Replicas}
    ELSE {[Api EXCEPT !.ports = np] :
            np \in Allocations([Api EXCEPT !.ports = [p \in DOMAIN @ |-> 0]])}

Others ==
  /\ others < MaxOthers /\ others' = others + 1
  /\ Api # Missing
  /\ \E o \in (ChangedByOthers \union {Missing}) \ {Api} : Store(o)
  /\ fresh' = FALSE
  /\ UNCHANGED <<setup, template, source, events, known, queued, local, lost,
                 contents, edits, changes, faults>>

\* Only a Deployment has the trigger.
ChangeSource ==
  /\ kind = "Deployment"
  /\ changes < MaxChanges /\ changes' = changes + 1
  /\ \E c \in (Contents \union {Missing}) \ {Last(source)} :
       source' = Append(source, c) /\ contents' = contents \union {c}
  /\ UNCHANGED <<setup, template, events, known, feed, queued, local, fresh,
                 lost, edits, others, faults>>

\* The owner is edited, and with it what the builder returns.
EditTemplate ==
  /\ edits < MaxEdits /\ edits' = edits + 1
  /\ template' \in Templates[kind] \ {template}
  /\ queued' = (queued \/ known)
  /\ UNCHANGED <<setup, source, events, known, feed, local, fresh, lost,
                 contents, changes, others, faults>>

---------------------------------------------------------------------------
(* The caches and the event handlers *)

\* The informer of the owners lists it, at last.
OwnerSync ==
  /\ ~known
  /\ known' = TRUE /\ queued' = TRUE
  /\ UNCHANGED <<setup, template, source, events, feed, local, fresh, lost,
                 contents, budget>>

ResourceSync ==
  /\ Len(feed) > 1
  /\ feed' = Tail(feed)
  /\ queued' = (queued \/ known)
  /\ UNCHANGED <<setup, template, source, events, known, local, fresh, lost,
                 contents, budget>>

\* An informer brings its cache up to date before it calls the handlers.
SourceSync ==
  /\ Len(source) > 1
  /\ source' = Tail(source)
  /\ events' = events + 1
  /\ UNCHANGED <<setup, template, known, feed, queued, local, fresh, lost,
                 contents, budget>>

\* Mutant: no requests when the source is not there (a deletion).
HandleIfThere ==
  /\ events > 0 /\ events' = events - 1
  /\ queued' = (queued \/ (known /\ Head(source) # Missing))
  /\ UNCHANGED <<setup, template, source, known, feed, local, fresh, lost,
                 contents, budget>>

\* FilteredEventHandler: a request for every owner that is listed.
HandleEvent ==
  /\ events > 0 /\ events' = events - 1
  /\ queued' = (queued \/ known)
  /\ UNCHANGED <<setup, template, source, known, feed, local, fresh, lost,
                 contents, budget>>

---------------------------------------------------------------------------
(* The pass: Template.Build *)

Goto(p) == pc' = p

\* The local variables of the pass are gone.
Return ==
  /\ Goto("idle")
  /\ built' = Missing /\ desired' = Missing /\ live' = Missing
  /\ fresh' = FALSE

Start ==
  /\ pc = "idle" /\ queued
  /\ queued' = FALSE /\ lost' = FALSE
  /\ desired' = template
  /\ Goto(IF kind = "Deployment" THEN "replicas" ELSE "service")
  /\ UNCHANGED <<setup, template, source, events, known, feed, built, live,
                 fresh, contents, budget>>

WithReplicas(o) ==
  IF o = Missing THEN desired ELSE [desired EXCEPT !.replicas = o.replicas]

\* Mutant: a Deployment that is not there is taken for one without replicas.
IgnoreNotFound ==
  /\ pc = "replicas"
  /\ built' = IF enforce THEN Missing ELSE Cached
  /\ desired' = IF ~enforce /\ Cached = Missing
                  THEN [desired EXCEPT !.replicas = 0] ELSE WithReplicas(built')
  /\ Goto("trigger")
  /\ UNCHANGED <<setup, template, source, events, known, feed, queued, live,
                 fresh, lost, contents, budget>>

\* SetDeploymentReplicas: a value that is not enforced is the live one.
SetReplicas ==
  /\ pc = "replicas"
  /\ built' = IF enforce THEN Missing ELSE Cached
  /\ desired' = WithReplicas(built')
  /\ Goto("trigger")
  /\ UNCHANGED <<setup, template, source, events, known, feed, queued, live,
                 fresh, lost, contents, budget>>

GetHash(c) == IF c = Missing THEN NoHash ELSE Hash[c]

AddTrigger ==
  /\ pc = "trigger"
  /\ desired' = [desired EXCEPT !.hash = GetHash(Head(source))]
  /\ Goto("get")
  /\ UNCHANGED <<setup, template, source, events, known, feed, queued, built,
                 live, fresh, lost, contents, budget>>

\* findPort: the live node port of each port that the live object has too.
LivePorts(wanted, found) ==
  [p \in DOMAIN wanted |-> IF p \in DOMAIN found THEN found[p] ELSE wanted[p]]

\* SetServiceLiveValues
WithServiceValues(o) ==
  IF o = Missing THEN desired
  ELSE [desired EXCEPT
          !.ip = o.ip,
          !.ports = IF desired.type = "ClusterIP"
                      THEN @ ELSE LivePorts(@, o.ports)]

SetServiceValues ==
  /\ pc = "service"
  /\ built' = Cached
  /\ desired' = WithServiceValues(Cached)
  /\ Goto("get")
  /\ UNCHANGED <<setup, template, source, events, known, feed, queued, live,
                 fresh, lost, contents, budget>>

---------------------------------------------------------------------------
(* The pass: the rest of CreateOrModify *)

Get ==
  /\ pc = "get" /\ Cached # desired
  /\ live' = Cached
  /\ fresh' = (Len(feed) = 1)
  /\ Goto(IF Cached = Missing THEN "create" ELSE "modify")
  /\ UNCHANGED <<setup, template, source, events, known, feed, queued, built,
                 desired, lost, contents, budget>>

GetInLine ==
  /\ pc = "get" /\ Cached = desired
  /\ Return
  /\ UNCHANGED <<setup, template, source, events, known, feed, queued, lost,
                 contents, budget>>

\* The patch holds the fields in which desired differs from live; a list is
\* one field.
Patched ==
  [f \in DOMAIN desired |-> IF desired[f] = live[f] THEN Api[f] ELSE desired[f]]

Object == IF pc = "modify" /\ op = "Patch" THEN Patched ELSE desired

\* Mutant: the update does not carry the version that was read.
CanWriteBlindly ==
  \/ pc = "create" /\ Api = Missing
  \/ pc = "modify" /\ Api # Missing /\ Accepts(Object)

\* An update carries the version that was read, a patch does not.
CanWrite ==
  \/ pc = "create" /\ Api = Missing
  \/ /\ pc = "modify" /\ Api # Missing
     /\ op = "Update" => fresh
     /\ Accepts(Object)

Write ==
  /\ CanWrite
  /\ \E o \in Stored(Object) : Store(o)
  /\ Return
  /\ UNCHANGED <<setup, template, source, events, known, queued, lost, contents,
                 budget>>

\* The pass ends in an error, and is tried again.
Error ==
  /\ Return
  /\ queued' = TRUE
  /\ UNCHANGED <<setup, template, lost, contents>>

Refused ==
  /\ pc \in {"create", "modify"} /\ ~CanWrite
  /\ Error
  /\ UNCHANGED <<source, events, known, feed, budget>>

Work == Start \/ SetReplicas \/ AddTrigger \/ SetServiceValues
          \/ Get \/ GetInLine \/ Write \/ Refused

---------------------------------------------------------------------------
(* Faults *)

Fault ==
  /\ faults < MaxFaults /\ faults' = faults + 1
  /\ UNCHANGED <<edits, changes, others>>

\* Mutant: whatever error Get returns, the source counts as not there.
ErrorIsNotFound ==
  /\ Fault
  /\ pc = "trigger"
  /\ desired' = [desired EXCEPT !.hash = NoHash]
  /\ Goto("get")
  /\ UNCHANGED <<setup, template, source, events, known, feed, queued, built,
                 live, fresh, lost, contents>>

\* A call, one that a mutation makes among them, fails without an effect.
CallFails ==
  /\ Fault
  /\ pc # "idle"
  /\ Error
  /\ UNCHANGED <<source, events, known, feed>>

ReplyLost ==
  /\ Fault
  /\ CanWrite
  /\ \E o \in Stored(Object) : Store(o)
  /\ Error
  /\ UNCHANGED <<source, events, known>>

\* The handler cannot list the owners: the event is logged and dropped.
ListFails ==
  /\ Fault
  /\ events > 0 /\ events' = events - 1
  /\ lost' = TRUE
  /\ UNCHANGED <<setup, template, source, known, feed, queued, local, fresh,
                 contents>>

\* The caches are filled anew, and everything in them is an event.
Restart ==
  /\ Fault
  /\ source' = <<Last(source)>> /\ feed' = <<Last(feed)>>
  /\ events' = 1 /\ known' = TRUE
  /\ Error

Sync == OwnerSync \/ ResourceSync \/ SourceSync

Next ==
  \/ Others \/ ChangeSource \/ EditTemplate
  \/ Sync \/ HandleEvent \/ Work
  \/ CallFails \/ ReplyLost \/ ListFails \/ Restart

\* controller-runtime keeps workers, informers and event handlers running.
\* The two reads of a pass follow each other in memory: it does not happen for
\* ever that the informer, with a version to deliver between two passes, waits
\* for the next pass to be between its reads.
Fairness ==
  /\ WF_vars(OwnerSync) /\ WF_vars(SourceSync) /\ WF_vars(HandleEvent)
  /\ WF_vars(Work)
  /\ WF_vars(ResourceSync) /\ SF_vars(pc = "idle" /\ ResourceSync)

Spec == Init /\ [][Next]_vars

FairSpec == Spec /\ Fairness

---------------------------------------------------------------------------
(* Properties *)

Source == Contents \union {Missing}
OfKind == IF kind = "Deployment" THEN Deployment ELSE Service

\* Types; what the pass holds is of the resource's kind.
TypeOK ==
  /\ kind \in Kinds /\ op \in {"Update", "Patch"} /\ enforce \in BOOLEAN
  /\ template \in Templates[kind]
  /\ source \in Seq(Source) /\ source # <<>>
  /\ events \in Nat /\ known \in BOOLEAN
  /\ feed \in Seq(OfKind \union {Missing}) /\ feed # <<>>
  /\ queued \in BOOLEAN
  /\ pc \in {"idle", "replicas", "trigger", "service",
             "get", "create", "modify"}
  /\ {built, live} \subseteq OfKind \union {Missing}
  /\ desired \in OfKind \union {Missing}
  /\ fresh \in BOOLEAN /\ lost \in BOOLEAN
  /\ contents \subseteq Source
  /\ edits \in Nat /\ changes \in Nat /\ others \in Nat /\ faults \in Nat

\* Pods are rolled out only for a content that the source really had: neither
\* a failed read nor a half-built object puts another hash into the pod
\* template.
HashIsReal ==
  kind = "Deployment" /\ Api # Missing =>
    \E c \in contents : Api.hash = GetHash(c)

\* The controller replaces what the API server has by something else.
Modifies ==
  /\ pc = "modify" /\ pc' = "idle"
  /\ Api # Missing /\ Api' # Missing

ReplicasSurvive ==
  kind = "Deployment" /\ ~enforce => Api'.replicas = Api.replicas

\* A list of ports is patched as a whole, from a version that may be old.
NodePortsSurvive ==
  kind = "Service" /\ (op = "Patch" => fresh) =>
    \A p \in DOMAIN Api.ports \intersect DOMAIN Api'.ports :
      Api.type = Api'.type => Api'.ports[p] = Api.ports[p]

\* What others set is not undone, however old the caches are and whatever
\* else the write is about, as long as the two reads of a pass, that of the
\* mutation and that of CreateOrModify, find the same.
LiveValuesSurvive ==
  [][Modifies /\ built = live => ReplicasSurvive /\ NodePortsSurvive]_vars

Idle == pc = "idle" /\ ~queued

InLine ==
  /\ Api # Missing
  /\ IF kind = "Deployment"
       THEN /\ Api.hash = GetHash(Last(source)) \/ lost
            /\ enforce => Api.replicas = template.replicas
       ELSE /\ Api.type = template.type
            /\ DOMAIN Api.ports = DOMAIN template.ports

Synced == known /\ events = 0 /\ Len(source) = 1 /\ Len(feed) = 1

\* With no pass due and nothing on its way, neither a version nor an event of
\* the source, the resource is in line, whichever of the three caches the two
\* reads of a pass and its trigger found behind.
RestsInLine == Idle /\ Synced => InLine

\* Once everybody else is done, the controller comes to rest with the resource
\* in line with its template, and its pods with the source, whose events and
\* versions arrive on their own; only an event that the handler dropped, with
\* no pass since, can leave them behind.
Settles == <>[](Idle /\ InLine)

===========================================================================
