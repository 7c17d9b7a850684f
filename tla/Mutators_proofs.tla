------------------------- MODULE Mutators_proofs -------------------------
(***************************************************************************)
(* Theorems about module Mutators, for any templates, contents and hashes, *)
(* any replicas, addresses and node ports, and any number of edits,        *)
(* changes and faults: its types, that only real hashes reach the pods,    *)
(* that what others set survives the writes of the controller, and that    *)
(* the resource is in line whenever the controller rests.                  *)
(*                                                                         *)
(* The inductive invariant says what every version in the feed is good     *)
(* for, and what the pass knows of the object that it builds: the hash in  *)
(* it is real, its replicas and node ports are those that the mutation     *)
(* read, and nobody wrote the resource since a read that is fresh.         *)
(*                                                                         *)
(* What the controller rests with takes a second invariant, of the last    *)
(* pass: with none due after it and no version on its way, it builds what  *)
(* the template says, with the hash of the source, and compares it with    *)
(* the resource as the API server has it.                                  *)
(***************************************************************************)
EXTENDS Mutators, Versions_proofs, TLAPS

---------------------------------------------------------------------------
(* The inductive invariant *)

Real(o) == \E c \in contents : o.hash = GetHash(c)

\* Node ports go with the type.
Fits(o) ==
  /\ o.type = "ClusterIP" => NoNodePorts(o)
  /\ o.type = "NodePort" => \A p \in DOMAIN o.ports : o.ports[p] # 0

\* What the API server may hold.
Good == {o \in OfKind : IF kind = "Deployment" THEN Real(o) ELSE Fits(o)}

FeedOK == feed \in Seq(Good \union {Missing}) /\ feed # <<>>

RestOK ==
  /\ kind \in Kinds /\ op \in {"Update", "Patch"} /\ enforce \in BOOLEAN
  /\ template \in Templates[kind]
  /\ contents \subseteq Source
  /\ source \in Seq(contents) /\ source # <<>>
  /\ events \in Nat /\ known \in BOOLEAN
  /\ queued \in BOOLEAN /\ lost \in BOOLEAN
  /\ edits \in Nat /\ changes \in Nat /\ others \in Nat /\ faults \in Nat

LocalOK ==
  /\ pc \in {"idle", "replicas", "trigger", "service",
             "get", "create", "modify"}
  /\ built \in OfKind \union {Missing} /\ live \in OfKind \union {Missing}
  /\ desired \in OfKind \union {Missing}
  /\ fresh \in BOOLEAN

PassInv ==
  /\ pc \in {"replicas", "trigger"} => kind = "Deployment"
  /\ pc = "service" => kind = "Service"
  /\ pc # "idle" => desired # Missing
  /\ pc = "modify" => live # Missing
  /\ pc \in {"create", "modify"} => (fresh => live = Api)

Built == pc \in {"get", "create", "modify"}

DeploymentInv ==
  kind = "Deployment" =>
    /\ Built => Real(desired)
    /\ Built \/ pc = "trigger" =>
         (~enforce /\ built # Missing => desired.replicas = built.replicas)

ServiceInv ==
  kind = "Service" =>
    /\ pc # "idle" => (desired.type = "ClusterIP" => NoNodePorts(desired))
    /\ Built /\ built # Missing /\ desired.type = "NodePort" =>
         \A p \in DOMAIN desired.ports \intersect DOMAIN built.ports :
           desired.ports[p] = built.ports[p]

Inv ==
  /\ RestOK /\ FeedOK /\ LocalOK
  /\ PassInv /\ DeploymentInv /\ ServiceInv

---------------------------------------------------------------------------
(* Kinds, versions and hashes *)

LEMMA KindIs ==
  ASSUME RestOK
  PROVE  /\ kind = "Deployment" \/ kind = "Service"
         /\ kind = "Deployment" => OfKind = Deployment
         /\ kind = "Service" => OfKind = Service
         /\ Missing \notin OfKind /\ template \in OfKind
         /\ kind = "Service" /\ template.type = "ClusterIP" =>
              NoNodePorts(template)
BY MutatorsAssumption DEF RestOK, OfKind

LEMMA ApiIs ==
  ASSUME Inv
  PROVE  /\ Api \in Good \union {Missing} /\ Cached \in Good \union {Missing}
         /\ Good \subseteq OfKind /\ Missing \notin OfKind
         /\ Len(feed) = 1 => Cached = Api
<1>1. feed \in Seq(Good \union {Missing}) /\ feed # <<>>
  BY DEF Inv, FeedOK
<1>2. Good \subseteq OfKind
  BY DEF Good
<1> QED
  BY <1>1, <1>2, SeqEnds, KindIs DEF Inv, Api, Cached

LEMMA HashIs ==
  ASSUME NEW c \in Source
  PROVE  GetHash(c) \in Range(Hash) \union {NoHash}
BY MutatorsAssumption DEF GetHash, Source

\* The versions stay good while the source takes on more contents.
LEMMA FeedStays ==
  ASSUME kind' = kind, contents \subseteq contents', feed' # <<>>,
         feed' \in Seq(Good \union {Missing})
  PROVE  FeedOK'
<1>1. OfKind' = OfKind
  BY DEF OfKind
<1>2. \A o : Real(o) => Real(o)'
  BY DEF Real
<1>3. Good \subseteq Good'
  BY <1>1, <1>2 DEF Good, Fits, NoNodePorts
<1>4. Good \union {Missing} \subseteq Good' \union {Missing}
  BY <1>3
<1>5. feed' \in Seq(Good' \union {Missing})
  BY <1>4, SeqMonotonic
<1> QED
  BY <1>5 DEF FeedOK

LEMMA StoreStores ==
  ASSUME Inv, NEW o \in Good \union {Missing}, Store(o)
  PROVE  /\ feed' \in Seq(Good \union {Missing}) /\ feed' # <<>>
         /\ Api' = o
<1>1. feed \in Seq(Good \union {Missing}) /\ feed # <<>>
  BY DEF Inv, FeedOK
<1>2. CASE o = Api
  BY <1>1, <1>2 DEF Store, Api
<1>3. CASE o # Api
  <2>1. feed' = Append(feed, o)
    BY <1>3 DEF Store
  <2> QED
    BY <1>1, <2>1, AppendEnds DEF Api
<1> QED
  BY <1>2, <1>3

---------------------------------------------------------------------------
(* Steps outside the pass, and the end of a pass *)

LEMMA PassStays ==
  ASSUME Inv, UNCHANGED <<setup, local>>, contents \subseteq contents',
         RestOK', feed' \in Seq(Good \union {Missing}), feed' # <<>>,
         fresh' \in BOOLEAN, fresh' => fresh /\ Api' = Api
  PROVE  Inv'
<1>1. UNCHANGED <<kind, op, enforce, pc, built, desired, live>>
  BY DEF setup, local
<1>2. FeedOK'
  BY <1>1, FeedStays
<1>3. OfKind' = OfKind /\ (Real(desired) => Real(desired)')
  BY <1>1 DEF OfKind, Real
<1>4. LocalOK'
  BY <1>1, <1>3 DEF Inv, LocalOK
<1>5. PassInv'
  BY <1>1 DEF Inv, PassInv
<1>6. DeploymentInv'
  BY <1>1, <1>3 DEF Inv, DeploymentInv, Built
<1>7. ServiceInv'
  BY <1>1 DEF Inv, ServiceInv, Built, NoNodePorts
<1> QED
  BY <1>2, <1>4, <1>5, <1>6, <1>7 DEF Inv

LEMMA ReturnKeeps ==
  ASSUME Return, RestOK', FeedOK'
  PROVE  Inv'
<1>1. /\ pc' = "idle" /\ built' = Missing /\ desired' = Missing
      /\ live' = Missing /\ fresh' = FALSE
  BY DEF Return, Goto
<1> QED
  BY <1>1 DEF Inv, LocalOK, PassInv, DeploymentInv, ServiceInv, Built

---------------------------------------------------------------------------
(* The steps of the pass *)

\* What stays the same in most steps of the pass.
Within ==
  /\ UNCHANGED <<setup, template, source, events, known, feed, contents>>
  /\ UNCHANGED budget
  /\ queued' \in BOOLEAN /\ lost' \in BOOLEAN

LEMMA WithinKeeps ==
  ASSUME Inv, Within
  PROVE  /\ RestOK' /\ FeedOK' /\ OfKind' = OfKind /\ Api' = Api
         /\ UNCHANGED <<kind, op, enforce, feed, contents>>
<1>1. UNCHANGED <<kind, op, enforce, template, source, events, known, feed,
                  contents, edits, changes, others, faults>>
  BY DEF Within, setup, budget
<1>2. RestOK'
  BY <1>1 DEF Inv, RestOK, Within
<1>3. FeedOK'
  BY <1>1, FeedStays DEF Inv, FeedOK
<1> QED
  BY <1>1, <1>2, <1>3 DEF OfKind, Api

LEMMA StartKeeps ==
  ASSUME Inv, Start
  PROVE  Inv'
<1>1. /\ Within /\ desired' = template /\ UNCHANGED <<built, live, fresh>>
      /\ pc' = IF kind = "Deployment" THEN "replicas" ELSE "service"
  BY DEF Start, Within, Goto, Inv, RestOK
<1>2. /\ RestOK' /\ FeedOK' /\ OfKind' = OfKind
      /\ UNCHANGED <<kind, enforce>>
  BY <1>1, WithinKeeps
<1>3. /\ kind = "Deployment" \/ kind = "Service"
      /\ template \in OfKind /\ Missing \notin OfKind
      /\ kind = "Service" /\ template.type = "ClusterIP" =>
           NoNodePorts(template)
  BY KindIs DEF Inv
<1>4. LocalOK'
  BY <1>1, <1>2, <1>3 DEF Inv, LocalOK
<1>5. PassInv' /\ DeploymentInv'
  BY <1>1, <1>2, <1>3 DEF PassInv, DeploymentInv, Built
<1>6. ServiceInv'
  BY <1>1, <1>2, <1>3 DEF ServiceInv, Built, NoNodePorts
<1> QED
  BY <1>2, <1>4, <1>5, <1>6 DEF Inv

LEMMA SetReplicasKeeps ==
  ASSUME Inv, SetReplicas
  PROVE  Inv'
<1>1. /\ Within /\ pc = "replicas" /\ pc' = "trigger"
      /\ built' = (IF enforce THEN Missing ELSE Cached)
      /\ desired' = WithReplicas(built') /\ UNCHANGED <<live, fresh>>
  BY DEF SetReplicas, Within, Goto, Inv, RestOK
<1>2. /\ RestOK' /\ FeedOK' /\ OfKind' = OfKind
      /\ UNCHANGED <<kind, enforce>>
  BY <1>1, WithinKeeps
<1>3. kind = "Deployment" /\ desired \in Deployment /\ OfKind = Deployment
  BY <1>1, KindIs DEF Inv, PassInv, LocalOK
<1>4. built' \in Deployment \union {Missing} /\ Missing \notin Deployment
  BY <1>1, <1>3, ApiIs
<1>5. /\ desired' \in Deployment
      /\ built' # Missing => desired'.replicas = built'.replicas
  <2>1. CASE built' = Missing
    BY <1>1, <1>3, <2>1 DEF WithReplicas
  <2>2. CASE built' # Missing
    <3>1. desired' = [desired EXCEPT !.replicas = built'.replicas]
      BY <1>1, <2>2 DEF WithReplicas
    <3>2. built'.replicas \in Replicas
      BY <1>4, <2>2 DEF Deployment
    <3> QED
      BY <1>3, <3>1, <3>2 DEF Deployment
  <2> QED
    BY <2>1, <2>2
<1>6. LocalOK'
  BY <1>1, <1>2, <1>3, <1>4, <1>5 DEF Inv, LocalOK
<1>7. PassInv' /\ DeploymentInv' /\ ServiceInv'
  BY <1>1, <1>2, <1>3, <1>4, <1>5
     DEF PassInv, DeploymentInv, ServiceInv, Built
<1> QED
  BY <1>2, <1>6, <1>7 DEF Inv

\* The hash is that of the source in the cache, which it was once.
LEMMA AddTriggerKeeps ==
  ASSUME Inv, AddTrigger
  PROVE  Inv'
<1> DEFINE c == Head(source)
<1>1. /\ Within /\ pc = "trigger" /\ pc' = "get"
      /\ desired' = [desired EXCEPT !.hash = GetHash(c)]
      /\ UNCHANGED <<built, live, fresh>>
  BY DEF AddTrigger, Within, Goto, Inv, RestOK
<1>2. /\ RestOK' /\ FeedOK' /\ OfKind' = OfKind
      /\ UNCHANGED <<kind, enforce, contents>>
  BY <1>1, WithinKeeps
<1>3. /\ kind = "Deployment" /\ desired \in Deployment
      /\ OfKind = Deployment /\ Missing \notin Deployment
  BY <1>1, KindIs DEF Inv, PassInv, LocalOK
<1>4. c \in contents /\ c \in Source
  BY SeqEnds DEF Inv, RestOK
<1>5. GetHash(c) \in Range(Hash) \union {NoHash}
  BY <1>4, HashIs
<1> HIDE DEF c
<1>6. /\ desired' \in Deployment /\ desired'.hash = GetHash(c)
      /\ desired'.replicas = desired.replicas
  BY <1>1, <1>3, <1>5 DEF Deployment
<1>7. Real(desired)'
  BY <1>2, <1>4, <1>6 DEF Real
<1>8. LocalOK'
  BY <1>1, <1>2, <1>3, <1>6 DEF Inv, LocalOK
<1>9. DeploymentInv'
  BY <1>1, <1>2, <1>3, <1>6, <1>7 DEF Inv, DeploymentInv, Built
<1>10. PassInv' /\ ServiceInv'
  BY <1>1, <1>2, <1>3, <1>6 DEF PassInv, ServiceInv
<1> QED
  BY <1>2, <1>8, <1>9, <1>10 DEF Inv

\* The node ports of a Service that has them are the live ones.
LEMMA SetServiceKeeps ==
  ASSUME Inv, SetServiceValues
  PROVE  Inv'
<1>1. /\ Within /\ pc = "service" /\ pc' = "get" /\ built' = Cached
      /\ desired' = WithServiceValues(Cached) /\ UNCHANGED <<live, fresh>>
  BY DEF SetServiceValues, Within, Goto, Inv, RestOK
<1>2. /\ RestOK' /\ FeedOK' /\ OfKind' = OfKind
      /\ UNCHANGED <<kind, enforce>>
  BY <1>1, WithinKeeps
<1>3. /\ kind = "Service" /\ desired \in Service
      /\ OfKind = Service /\ Missing \notin Service
      /\ desired.type = "ClusterIP" => NoNodePorts(desired)
  BY <1>1, KindIs DEF Inv, PassInv, LocalOK, ServiceInv
<1>4. Cached \in Service \union {Missing}
  BY <1>3, ApiIs
<1>5. /\ desired' \in Service
      /\ desired'.type = "ClusterIP" => NoNodePorts(desired')
      /\ Cached # Missing /\ desired'.type = "NodePort" =>
           \A p \in DOMAIN desired'.ports \intersect DOMAIN Cached.ports :
             desired'.ports[p] = Cached.ports[p]
  <2>1. CASE Cached = Missing
    BY <1>1, <1>3, <2>1 DEF WithServiceValues
  <2>2. CASE Cached # Missing
    <3> DEFINE w == desired.ports
               f == Cached.ports
               q == IF desired.type = "ClusterIP" THEN w ELSE LivePorts(w, f)
    <3>1. Cached \in Service
      BY <1>4, <2>2
    <3>2. PICK P \in PortSets : w \in [P -> NodePorts \union {0}]
      BY <1>3 DEF Service
    <3>3. PICK Q \in PortSets : f \in [Q -> NodePorts \union {0}]
      BY <3>1 DEF Service
    <3>4. /\ LivePorts(w, f) \in [P -> NodePorts \union {0}]
          /\ \A p \in P \intersect Q : LivePorts(w, f)[p] = f[p]
      BY <3>2, <3>3 DEF LivePorts
    <3>5. q \in [P -> NodePorts \union {0}]
      BY <3>2, <3>4
    <3>6. desired' = [desired EXCEPT !.ip = Cached.ip, !.ports = q]
      BY <1>1, <1>3, <2>2 DEF WithServiceValues, Service
    <3>7. Cached.ip \in IPs \union {0}
      BY <3>1 DEF Service
    <3>8. /\ desired.type = "ClusterIP" => q = w
          /\ desired.type # "ClusterIP" => q = LivePorts(w, f)
      OBVIOUS
    <3>9. DOMAIN q = P /\ DOMAIN f = Q
      BY <3>3, <3>5
    <3> HIDE DEF q
    <3>10. /\ desired' \in Service /\ desired'.ports = q
           /\ desired'.type = desired.type
      BY <1>3, <3>5, <3>6, <3>7 DEF Service
    <3>11. desired'.type = "ClusterIP" => NoNodePorts(desired')
      BY <1>3, <3>8, <3>10 DEF NoNodePorts
    <3>12. desired'.type = "NodePort" =>
             \A p \in DOMAIN desired'.ports \intersect DOMAIN f :
               desired'.ports[p] = f[p]
      BY <3>4, <3>8, <3>9, <3>10
    <3> QED
      BY <3>10, <3>11, <3>12
  <2> QED
    BY <2>1, <2>2
<1>6. LocalOK'
  BY <1>1, <1>2, <1>3, <1>4, <1>5 DEF Inv, LocalOK
<1>7. PassInv' /\ DeploymentInv'
  BY <1>1, <1>2, <1>3, <1>5 DEF PassInv, DeploymentInv
<1>8. ServiceInv'
  BY <1>1, <1>2, <1>5 DEF ServiceInv, NoNodePorts
<1> QED
  BY <1>2, <1>6, <1>7, <1>8 DEF Inv

\* The version that is read is the last, as long as it is fresh.
LEMMA GetKeeps ==
  ASSUME Inv, Get
  PROVE  Inv'
<1>1. /\ Within /\ pc = "get" /\ live' = Cached
      /\ pc' = IF Cached = Missing THEN "create" ELSE "modify"
      /\ fresh' = (Len(feed) = 1) /\ UNCHANGED <<built, desired>>
  BY DEF Get, Within, Goto, Inv, RestOK
<1>2. /\ RestOK' /\ FeedOK' /\ OfKind' = OfKind /\ Api' = Api
      /\ UNCHANGED <<kind, enforce, contents>>
  BY <1>1, WithinKeeps
<1>3. /\ Cached \in OfKind \union {Missing}
      /\ Len(feed) = 1 => Cached = Api
  BY ApiIs
<1>4. fresh' \in BOOLEAN
  BY <1>1
<1>5. LocalOK'
  BY <1>1, <1>2, <1>3, <1>4 DEF Inv, LocalOK
<1>6. PassInv'
  BY <1>1, <1>2, <1>3 DEF Inv, PassInv
<1>7. Real(desired) => Real(desired)'
  BY <1>1, <1>2 DEF Real
<1>8. DeploymentInv'
  BY <1>1, <1>2, <1>7 DEF Inv, DeploymentInv, Built
<1>9. ServiceInv'
  BY <1>1, <1>2 DEF Inv, ServiceInv, Built, NoNodePorts
<1> QED
  BY <1>2, <1>5, <1>6, <1>8, <1>9 DEF Inv

---------------------------------------------------------------------------
(* The write *)

LEMMA PatchedIs ==
  ASSUME Inv, pc = "modify", Api # Missing
  PROVE  /\ Patched \in OfKind
         /\ \A f \in DOMAIN desired :
              Patched[f] = IF desired[f] = live[f] THEN Api[f] ELSE desired[f]
         /\ DOMAIN Patched = DOMAIN desired
<1>1. /\ desired \in OfKind /\ Api \in OfKind
      /\ kind = "Deployment" \/ kind = "Service"
  BY ApiIs, KindIs DEF Inv, LocalOK, PassInv
<1>2. /\ \A f \in DOMAIN desired :
           Patched[f] = IF desired[f] = live[f] THEN Api[f] ELSE desired[f]
      /\ DOMAIN Patched = DOMAIN desired
  BY DEF Patched
<1>3. CASE kind = "Deployment"
  <2>1. desired \in Deployment /\ Api \in Deployment
    BY <1>1, <1>3 DEF OfKind
  <2>2. DOMAIN desired = {"replicas", "hash"}
    BY <2>1 DEF Deployment
  <2>3. Patched = [replicas |-> Patched.replicas, hash |-> Patched.hash]
    BY <2>2 DEF Patched
  <2>4. /\ Patched.replicas \in Replicas
        /\ Patched.hash \in Range(Hash) \union {NoHash}
    BY <1>2, <2>1, <2>2 DEF Deployment
  <2>5. Patched \in Deployment
    BY <2>3, <2>4 DEF Deployment
  <2> QED
    BY <1>2, <1>3, <2>5 DEF OfKind
<1>4. CASE kind = "Service"
  <2>1. desired \in Service /\ Api \in Service
    BY <1>1, <1>4 DEF OfKind
  <2>2. DOMAIN desired = {"type", "ip", "ports"}
    BY <2>1 DEF Service
  <2>3. Patched = [type |-> Patched.type, ip |-> Patched.ip,
                   ports |-> Patched.ports]
    BY <2>2 DEF Patched
  <2>4. /\ Patched.type \in {"ClusterIP", "NodePort"}
        /\ Patched.ip \in IPs \union {0}
        /\ Patched.ports \in UNION {[P -> NodePorts \union {0}] : P \in PortSets}
    BY <1>2, <2>1, <2>2 DEF Service
  <2>5. Patched \in Service
    BY <2>3, <2>4 DEF Service
  <2> QED
    BY <1>2, <1>4, <2>5 DEF OfKind
<1> QED
  BY <1>1, <1>3, <1>4

\* What is sent to the API server, and accepted.
LEMMA ObjectIs ==
  ASSUME Inv, CanWrite
  PROVE  /\ Object \in OfKind
         /\ kind = "Deployment" => Real(Object)
         /\ kind = "Service" /\ Object.type = "ClusterIP" => NoNodePorts(Object)
<1>1. Built /\ desired \in OfKind
  BY DEF CanWrite, Built, Inv, LocalOK, PassInv
<1>2. CASE pc = "modify" /\ op = "Patch"
  <2>1. Object = Patched /\ Api # Missing /\ Accepts(Patched)
    BY <1>2 DEF Object, CanWrite
  <2>2. kind = "Service" /\ Patched.type = "ClusterIP" => NoNodePorts(Patched)
    BY <2>1 DEF Accepts
  <2>3. ASSUME kind = "Deployment" PROVE Real(Patched)
    <3>1. Real(desired) /\ "hash" \in DOMAIN desired
      BY <1>1, <2>3 DEF Inv, DeploymentInv, OfKind, Deployment
    <3>2. Real(Api)
      BY <2>1, <2>3, ApiIs DEF Good
    <3>3. Patched.hash = Api.hash \/ Patched.hash = desired.hash
      BY <1>2, <2>1, <3>1, PatchedIs
    <3> QED
      BY <3>1, <3>2, <3>3 DEF Real
  <2> QED
    BY <1>2, <2>1, <2>2, <2>3, PatchedIs
<1>3. CASE ~(pc = "modify" /\ op = "Patch")
  <2>1. Object = desired
    BY <1>3 DEF Object
  <2> QED
    BY <1>1, <2>1 DEF Inv, DeploymentInv, ServiceInv, Built
<1> QED
  BY <1>2, <1>3

LEMMA AllocationsAre ==
  ASSUME NEW o \in Service, o.type = "ClusterIP" => NoNodePorts(o),
         NEW np \in Allocations(o)
  PROVE  /\ DOMAIN np = DOMAIN o.ports
         /\ np \in UNION {[P -> NodePorts \union {0}] : P \in PortSets}
         /\ o.type = "ClusterIP" => np = o.ports /\ \A p \in DOMAIN np : np[p] = 0
         /\ o.type = "NodePort" => \A p \in DOMAIN np :
              np[p] # 0 /\ o.ports[p] \in {0, np[p]}
<1>1. PICK P \in PortSets : o.ports \in [P -> NodePorts \union {0}]
  BY DEF Service
<1>2. DOMAIN o.ports = P
  BY <1>1
<1>3. CASE o.type = "ClusterIP"
  <2>1. np = o.ports
    BY <1>3 DEF Allocations
  <2> QED
    BY <1>1, <1>3, <2>1 DEF NoNodePorts
<1>4. CASE o.type # "ClusterIP"
  <2>1. /\ np \in [P -> NodePorts]
        /\ \A p \in P : o.ports[p] \in {0, np[p]}
    BY <1>2, <1>4 DEF Allocations
  <2>2. np \in [P -> NodePorts \union {0}] /\ DOMAIN np = P
    BY <2>1
  <2>3. 0 \notin NodePorts
    BY MutatorsAssumption
  <2> QED
    BY <1>2, <1>4, <2>1, <2>2, <2>3
<1> QED
  BY <1>3, <1>4

\* What the API server stores of an object.
LEMMA StoredIs ==
  ASSUME Inv, CanWrite, NEW o \in Stored(Object)
  PROVE  /\ o \in Good
         /\ kind = "Deployment" => o = Object
         /\ kind = "Service" =>
              /\ o.type = Object.type /\ DOMAIN o.ports = DOMAIN Object.ports
              /\ o.type = "ClusterIP" => o.ports = Object.ports
              /\ o.type = "NodePort" => \A p \in DOMAIN o.ports :
                   Object.ports[p] \in {0, o.ports[p]}
<1> DEFINE b == Object
<1>1. /\ b \in OfKind
      /\ kind = "Deployment" => Real(b)
      /\ kind = "Service" /\ b.type = "ClusterIP" => NoNodePorts(b)
      /\ kind = "Deployment" \/ kind = "Service"
  BY ObjectIs, KindIs DEF Inv
<1>2. Api \in OfKind \union {Missing} /\ o \in Stored(b)
  BY ApiIs
<1> HIDE DEF b
<1>3. CASE kind = "Deployment"
  BY <1>1, <1>2, <1>3 DEF Stored, Good, b
<1>4. CASE kind = "Service"
  <2>1. b \in Service /\ Api \in Service \union {Missing}
    BY <1>1, <1>2, <1>4 DEF OfKind
  <2>2. o \in [type : {b.type}, ports : Allocations(b),
               ip : IF b.ip # 0 THEN {b.ip}
                    ELSE IF Api # Missing THEN {Api.ip} ELSE IPs]
    BY <1>2, <1>4 DEF Stored
  <2>3. /\ o.type = b.type /\ o.ports \in Allocations(b)
        /\ b.type \in {"ClusterIP", "NodePort"}
    BY <2>1, <2>2 DEF Service
  <2>4. o.ip \in IPs \union {0}
    <3>1. b.ip \in IPs \union {0}
      BY <2>1 DEF Service
    <3>2. Api # Missing => Api.ip \in IPs \union {0}
      BY <2>1 DEF Service
    <3>3. o.ip \in IF b.ip # 0 THEN {b.ip}
                   ELSE IF Api # Missing THEN {Api.ip} ELSE IPs
      BY <2>2
    <3> QED
      BY <3>1, <3>2, <3>3
  <2>5. /\ DOMAIN o.ports = DOMAIN b.ports
        /\ o.ports \in UNION {[P -> NodePorts \union {0}] : P \in PortSets}
        /\ b.type = "ClusterIP" =>
             o.ports = b.ports /\ \A p \in DOMAIN o.ports : o.ports[p] = 0
        /\ b.type = "NodePort" => \A p \in DOMAIN o.ports :
             o.ports[p] # 0 /\ b.ports[p] \in {0, o.ports[p]}
    BY <1>1, <1>4, <2>1, <2>3, AllocationsAre
  <2>6. o = [type |-> o.type, ip |-> o.ip, ports |-> o.ports]
    BY <2>2
  <2>7. o \in Service
    BY <2>3, <2>4, <2>5, <2>6 DEF Service
  <2>8. Fits(o)
    BY <2>3, <2>5 DEF Fits, NoNodePorts
  <2>9. o \in Good
    BY <1>4, <2>7, <2>8 DEF Good, OfKind
  <2>10. /\ o.type = "ClusterIP" => o.ports = b.ports
         /\ o.type = "NodePort" => \A p \in DOMAIN o.ports :
              b.ports[p] \in {0, o.ports[p]}
    BY <2>3, <2>5
  <2> QED
    BY <1>4, <2>3, <2>5, <2>9, <2>10 DEF b
<1> QED
  BY <1>1, <1>3, <1>4

LEMMA WriteKeepsFeed ==
  ASSUME Inv, CanWrite, NEW o \in Stored(Object), Store(o),
         UNCHANGED <<kind, contents>>
  PROVE  FeedOK' /\ Api' = o /\ o \in Good
<1>1. o \in Good
  BY StoredIs
<1> QED
  BY <1>1, StoreStores, FeedStays

---------------------------------------------------------------------------
(* The other steps *)

LEMMA OthersKeeps ==
  ASSUME Inv, Others
  PROVE  Inv'
<1>1. /\ UNCHANGED <<setup, local, kind, op, enforce>>
      /\ UNCHANGED <<template, source, events, known, queued, lost, contents,
                     edits, changes, faults>>
      /\ others' = others + 1 /\ fresh' = FALSE /\ Api # Missing
  BY DEF Others, setup
<1>2. PICK o \in ChangedByOthers \union {Missing} : Store(o)
  BY DEF Others
<1>3. RestOK'
  BY <1>1 DEF Inv, RestOK, Source
<1>4. Api \in Good /\ Api \in OfKind
  BY <1>1, ApiIs
<1>5. ASSUME o # Missing PROVE o \in Good
  <2>1. CASE kind = "Deployment"
    <3>1. Api \in Deployment /\ Real(Api)
      BY <1>4, <2>1 DEF Good, OfKind
    <3>2. PICK n \in Replicas : o = [Api EXCEPT !.replicas = n]
      BY <1>2, <1>5, <2>1 DEF ChangedByOthers
    <3>3. o \in Deployment /\ o.hash = Api.hash
      BY <3>1, <3>2 DEF Deployment
    <3> QED
      BY <2>1, <3>1, <3>3 DEF Good, OfKind, Real
  <2>2. CASE kind # "Deployment"
    <3> DEFINE z == [Api EXCEPT !.ports = [p \in DOMAIN @ |-> 0]]
               none == [p \in DOMAIN Api.ports |-> 0]
    <3>1. Api \in Service
      BY <1>4, <2>2 DEF OfKind
    <3>2. PICK np \in Allocations(z) : o = [Api EXCEPT !.ports = np]
      BY <1>2, <1>5, <2>2 DEF ChangedByOthers
    <3>3. PICK P \in PortSets : Api.ports \in [P -> NodePorts \union {0}]
      BY <3>1 DEF Service
    <3>4. none \in [P -> NodePorts \union {0}] /\ \A p \in P : none[p] = 0
      BY <3>3
    <3>5. z = [Api EXCEPT !.ports = none]
      BY <3>1 DEF Service
    <3>6. DOMAIN none = P
      BY <3>4
    <3> HIDE DEF none, z
    <3>7. z \in Service /\ z.ports = none /\ z.type = Api.type
      BY <3>1, <3>4, <3>5 DEF Service
    <3>8. NoNodePorts(z)
      BY <3>4, <3>6, <3>7 DEF NoNodePorts
    <3>9. /\ np \in UNION {[Q -> NodePorts \union {0}] : Q \in PortSets}
          /\ z.type = "ClusterIP" => \A p \in DOMAIN np : np[p] = 0
          /\ z.type = "NodePort" => \A p \in DOMAIN np : np[p] # 0
      BY <3>7, <3>8, AllocationsAre
    <3>10. o \in Service /\ o.ports = np /\ o.type = Api.type
      BY <3>1, <3>2, <3>9 DEF Service
    <3>11. Fits(o)
      BY <3>7, <3>9, <3>10 DEF Fits, NoNodePorts
    <3> QED
      BY <2>2, <3>10, <3>11 DEF Good, OfKind
  <2> QED
    BY <2>1, <2>2
<1>6. feed' \in Seq(Good \union {Missing}) /\ feed' # <<>>
  BY <1>2, <1>5, StoreStores
<1> QED
  BY <1>1, <1>3, <1>6, PassStays

LEMMA ChangeSourceKeeps ==
  ASSUME Inv, ChangeSource
  PROVE  Inv'
<1>1. /\ UNCHANGED <<setup, local, kind, op, enforce>>
      /\ UNCHANGED <<template, events, known, feed, queued, fresh, lost,
                     edits, others, faults>>
      /\ changes' = changes + 1
  BY DEF ChangeSource, setup
<1>2. PICK c \in Source : /\ source' = Append(source, c)
                          /\ contents' = contents \union {c}
  BY DEF ChangeSource, Source
<1>3. /\ contents \subseteq contents' /\ contents' \subseteq Source
      /\ c \in contents'
  BY <1>2 DEF Inv, RestOK
<1>4. source \in Seq(contents')
  BY <1>3, SeqMonotonic DEF Inv, RestOK
<1>5. source' \in Seq(contents') /\ source' # <<>>
  BY <1>2, <1>3, <1>4, AppendEnds
<1>6. RestOK'
  BY <1>1, <1>3, <1>5 DEF Inv, RestOK, Source
<1>7. /\ feed' \in Seq(Good \union {Missing}) /\ feed' # <<>>
      /\ Api' = Api /\ fresh' \in BOOLEAN
  BY <1>1 DEF Inv, FeedOK, LocalOK, Api
<1> QED
  BY <1>1, <1>3, <1>6, <1>7, PassStays

\* An informer, an edit or an event handler.
LEMMA EnvironmentKeeps ==
  ASSUME Inv, UNCHANGED <<setup, local, fresh, contents>>, RestOK',
         feed' = feed \/ ResourceSync
  PROVE  Inv'
<1>1. feed \in Seq(Good \union {Missing}) /\ feed # <<>> /\ fresh \in BOOLEAN
  BY DEF Inv, FeedOK, LocalOK
<1>2. /\ feed' \in Seq(Good \union {Missing}) /\ feed' # <<>>
      /\ Api' = Api
  <2>1. CASE feed' = feed
    BY <1>1, <2>1 DEF Api
  <2>2. CASE ResourceSync
    BY <1>1, <2>2, TailEnds DEF ResourceSync, Api
  <2> QED
    BY <2>1, <2>2
<1> QED
  BY <1>1, <1>2, PassStays

LEMMA InitHolds == Init => Inv
<1> SUFFICES ASSUME Init PROVE Inv
  OBVIOUS
<1>1. PICK c \in Source : source = <<c>> /\ contents = {c}
  BY DEF Init, Source
<1>2. /\ kind \in Kinds /\ op \in {"Update", "Patch"} /\ enforce \in BOOLEAN
      /\ template \in Templates[kind] /\ events = 1 /\ known = FALSE
      /\ queued = FALSE /\ lost = FALSE
      /\ edits = 0 /\ changes = 0 /\ others = 0 /\ faults = 0
  BY DEF Init
<1>3. RestOK
  <2>1. source \in Seq(contents) /\ source # <<>> /\ contents \subseteq Source
    BY <1>1
  <2>2. events \in Nat /\ known \in BOOLEAN /\ queued \in BOOLEAN
    BY <1>2
  <2>3. /\ lost \in BOOLEAN /\ edits \in Nat /\ changes \in Nat
        /\ others \in Nat /\ faults \in Nat
    BY <1>2
  <2> QED
    BY <1>2, <2>1, <2>2, <2>3 DEF RestOK
<1>4. /\ feed = <<Missing>> /\ pc = "idle" /\ built = Missing
      /\ desired = Missing /\ live = Missing /\ fresh = FALSE
  BY DEF Init
<1>5. FeedOK
  BY <1>4 DEF FeedOK
<1>6. LocalOK /\ PassInv /\ DeploymentInv /\ ServiceInv
  BY <1>4 DEF LocalOK, PassInv, DeploymentInv, ServiceInv, Built
<1> QED
  BY <1>3, <1>5, <1>6 DEF Inv

LEMMA NextKeeps ==
  ASSUME Inv, [Next]_vars
  PROVE  Inv'
<1>1. RestOK /\ FeedOK
  BY DEF Inv
<1>2. CASE Others \/ ChangeSource
  BY <1>2, OthersKeeps, ChangeSourceKeeps
<1>3. CASE EditTemplate \/ OwnerSync \/ ResourceSync \/ HandleEvent
  <2>1. UNCHANGED <<setup, local, fresh, contents>>
    BY <1>3 DEF EditTemplate, OwnerSync, ResourceSync, HandleEvent
  <2>2. feed' = feed \/ ResourceSync
    BY <1>3 DEF EditTemplate, OwnerSync, HandleEvent
  <2>3. RestOK'
    <3>1. CASE EditTemplate
      BY <1>1, <3>1 DEF RestOK, EditTemplate, setup, Source
    <3>2. CASE OwnerSync
      BY <1>1, <3>2 DEF RestOK, OwnerSync, setup, budget, Source
    <3>3. CASE ResourceSync
      BY <1>1, <3>3 DEF RestOK, ResourceSync, setup, budget, Source
    <3>4. CASE HandleEvent
      BY <1>1, <3>4 DEF RestOK, HandleEvent, setup, budget, Source
    <3> QED
      BY <1>3, <3>1, <3>2, <3>3, <3>4
  <2> QED
    BY <2>1, <2>2, <2>3, EnvironmentKeeps
<1>4. CASE SourceSync
  <2>1. UNCHANGED <<setup, local, fresh, contents>> /\ feed' = feed
    BY <1>4 DEF SourceSync
  <2>2. source' \in Seq(contents) /\ source' # <<>>
    BY <1>1, <1>4, TailEnds DEF RestOK, SourceSync
  <2>3. RestOK'
    BY <1>1, <1>4, <2>2 DEF RestOK, SourceSync, setup, budget, Source
  <2> QED
    BY <2>1, <2>3, EnvironmentKeeps
<1>5. CASE Start \/ SetReplicas \/ AddTrigger \/ SetServiceValues \/ Get
  BY <1>5, StartKeeps, SetReplicasKeeps, AddTriggerKeeps, SetServiceKeeps,
     GetKeeps
<1>6. CASE GetInLine \/ Refused \/ CallFails
  <2>1. /\ Return /\ UNCHANGED <<kind, op, enforce, feed, contents>>
        /\ UNCHANGED <<template, source, events, known, lost, edits, changes,
                       others>>
        /\ queued' = TRUE \/ queued' = queued
        /\ faults' = faults \/ faults' = faults + 1
    BY <1>6 DEF GetInLine, Refused, CallFails, Error, Fault, setup, budget
  <2>2. RestOK'
    <3>1. queued' \in BOOLEAN
      BY <1>1, <2>1 DEF RestOK
    <3>2. faults' \in Nat
      BY <1>1, <2>1 DEF RestOK
    <3> QED
      BY <1>1, <2>1, <3>1, <3>2 DEF RestOK, Source
  <2>3. FeedOK'
    BY <1>1, <2>1, FeedStays DEF FeedOK
  <2> QED
    BY <2>1, <2>2, <2>3, ReturnKeeps
<1>7. CASE Write \/ ReplyLost
  <2>1. /\ Return /\ UNCHANGED <<kind, op, enforce, contents>>
        /\ UNCHANGED <<template, source, events, known, lost, edits, changes,
                       others>>
        /\ queued' = TRUE \/ queued' = queued
        /\ faults' = faults \/ faults' = faults + 1
    BY <1>7 DEF Write, ReplyLost, Error, Fault, setup, budget
  <2>2. RestOK'
    <3>1. queued' \in BOOLEAN
      BY <1>1, <2>1 DEF RestOK
    <3>2. faults' \in Nat
      BY <1>1, <2>1 DEF RestOK
    <3> QED
      BY <1>1, <2>1, <3>1, <3>2 DEF RestOK, Source
  <2>3. FeedOK'
    BY <1>7, <2>1, WriteKeepsFeed DEF Write, ReplyLost
  <2> QED
    BY <2>1, <2>2, <2>3, ReturnKeeps
<1>8. CASE ListFails
  <2>1. UNCHANGED <<setup, local, fresh, contents>> /\ feed' = feed
    BY <1>8 DEF ListFails
  <2>2. RestOK'
    BY <1>1, <1>8 DEF RestOK, ListFails, Fault, setup, Source
  <2> QED
    BY <2>1, <2>2, EnvironmentKeeps
<1>9. CASE Restart
  <2>1. /\ Return /\ UNCHANGED <<kind, op, enforce, contents>>
        /\ UNCHANGED <<template, lost, edits, changes, others>>
        /\ source' = <<Last(source)>> /\ feed' = <<Last(feed)>>
        /\ events' = 1 /\ known' = TRUE /\ queued' = TRUE
        /\ faults' = faults + 1
    BY <1>9 DEF Restart, Error, Fault, setup
  <2>2. source' \in Seq(contents) /\ source' # <<>>
    BY <1>1, <2>1, LastEnds DEF RestOK
  <2>3. RestOK'
    BY <1>1, <2>1, <2>2 DEF RestOK, Source
  <2>4. feed' \in Seq(Good \union {Missing}) /\ feed' # <<>>
    BY <1>1, <2>1, LastEnds DEF FeedOK
  <2>5. FeedOK'
    BY <2>1, <2>4, FeedStays
  <2> QED
    BY <2>1, <2>3, <2>5, ReturnKeeps
<1>10. CASE UNCHANGED vars
  <2>1. UNCHANGED <<setup, local, fresh, contents>> /\ feed' = feed
    BY <1>10 DEF vars
  <2>2. RestOK'
    BY <1>1, <1>10 DEF RestOK, vars, setup, budget, Source
  <2> QED
    BY <2>1, <2>2, EnvironmentKeeps
<1> QED
  BY <1>2, <1>3, <1>4, <1>5, <1>6, <1>7, <1>8, <1>9, <1>10
     DEF Next, Sync, Work

LEMMA Invariance == Spec => []Inv
<1>1. Init => Inv
  BY InitHolds
<1>2. Inv /\ [Next]_vars => Inv'
  BY NextKeeps
<1> QED
  BY <1>1, <1>2, PTL DEF Spec

---------------------------------------------------------------------------
(* What the controller rests with *)

\* A pass is due, whatever becomes of the source.
Due == queued \/ ~known \/ Len(feed) # 1

Templated(o) ==
  IF kind = "Deployment" THEN enforce => o.replicas = template.replicas
    ELSE o.type = template.type /\ DOMAIN o.ports = DOMAIN template.ports

\* Or a change of the source has not come to the owner yet.
Rolled(o) ==
  kind = "Deployment" =>
    \/ lost \/ events # 0 \/ Len(source) # 1
    \/ o.hash = GetHash(Last(source))

\* The pass that is under way, the last one, is about the template and the
\* source as they are, and compares with the resource as it is.
LastPass ==
  /\ pc # "idle" => Templated(desired)
  /\ Built => Rolled(desired)
  /\ pc \in {"create", "modify"} => live = Api

InOrder == Api # Missing /\ Templated(Api) /\ Rolled(Api)

Rest == ~Due => LastPass /\ (pc = "idle" => InOrder)

RestInv == Inv /\ Rest

LEMMA DueRest ==
  ASSUME Inv', Due' PROVE RestInv'
BY DEF RestInv, Rest

LEMMA InitRest == Init => RestInv
BY InitHolds DEF Init, RestInv, Rest, Due

\* A write of others or of the controller makes a version, or changes nothing.
LEMMA StoreIsDue ==
  ASSUME Inv, NEW o \in Good \union {Missing}, Store(o)
  PROVE  Due' \/ (o = Api /\ feed' = feed)
<1>1. CASE o = Api
  BY <1>1 DEF Store
<1>2. CASE o # Api
  <2>1. feed' = Append(feed, o) /\ feed \in Seq(Good \union {Missing})
        /\ Len(feed) > 0
    BY <1>2, SeqEnds DEF Store, Inv, FeedOK
  <2>2. Len(feed') # 1
    BY <2>1
  <2> QED
    BY <2>2 DEF Due
<1> QED
  BY <1>1, <1>2

\* Events and versions of the source, and what others write.
LEMMA EnvRest ==
  ASSUME RestInv, Inv',
         \/ Others \/ ChangeSource \/ EditTemplate \/ Sync \/ HandleEvent
         \/ ListFails
  PROVE  RestInv'
<1>1. Inv /\ RestOK /\ RestOK' /\ feed \in Seq(Good \union {Missing})
      /\ feed # <<>>
  BY DEF RestInv, Inv, FeedOK
<1>2. CASE Others
  <2>1. PICK o \in (ChangedByOthers \union {Missing}) \ {Api} : Store(o)
    BY <1>2 DEF Others
  <2>2. feed' = Append(feed, o) /\ Len(feed) > 0
    BY <1>1, <2>1, SeqEnds DEF Store
  <2>3. Len(feed') # 1
    BY <1>1, <2>2
  <2> QED
    BY <2>3, DueRest DEF Due
<1>3. CASE EditTemplate \/ OwnerSync \/ ResourceSync \/ HandleEvent
  <2>1. Due'
    BY <1>1, <1>3
       DEF EditTemplate, OwnerSync, ResourceSync, HandleEvent, Due, RestOK
  <2> QED
    BY <2>1, DueRest
<1>4. CASE ChangeSource \/ SourceSync \/ ListFails
  <2>1. /\ UNCHANGED <<kind, op, enforce, pc, built, desired, live>>
        /\ UNCHANGED <<template, known, feed, queued>>
    BY <1>4 DEF ChangeSource, SourceSync, ListFails, setup, local
  <2>2. lost' \/ events' # 0 \/ Len(source') # 1
    <3>1. source \in Seq(contents) /\ events \in Nat /\ Len(source) > 0
      BY <1>1, SeqEnds DEF RestOK
    <3>2. CASE ChangeSource
      <4>1. PICK c : source' = Append(source, c)
        BY <3>2 DEF ChangeSource
      <4>2. Len(source') = Len(source) + 1
        BY <3>1, <4>1
      <4> QED
        BY <3>1, <4>2
    <3>3. CASE SourceSync
      BY <3>1, <3>3 DEF SourceSync
    <3>4. CASE ListFails
      BY <3>4 DEF ListFails
    <3> QED
      BY <1>4, <3>2, <3>3, <3>4
  <2>3. Rolled(desired)' /\ Rolled(Api)'
    BY <2>2 DEF Rolled
  <2>4. (Due <=> Due') /\ Api' = Api
    BY <2>1 DEF Due, Api
  <2>5. /\ Templated(desired) => Templated(desired)'
        /\ Templated(Api) => Templated(Api)'
    BY <2>1, <2>4 DEF Templated
  <2> QED
    BY <2>1, <2>3, <2>4, <2>5
       DEF RestInv, Rest, LastPass, InOrder, Built
<1> QED
  BY <1>2, <1>3, <1>4 DEF Sync

\* The pass: the mutations keep what the template says, and the trigger takes
\* the hash of the source.
LEMMA PassRest ==
  ASSUME RestInv, Inv',
         Start \/ SetReplicas \/ AddTrigger \/ SetServiceValues \/ Get
  PROVE  RestInv'
<1> SUFFICES ASSUME ~Due'
             PROVE  LastPass' /\ (pc = "idle" => InOrder)'
  BY DEF RestInv, Rest
<1>1. /\ UNCHANGED <<kind, op, enforce, template, source, events, known, feed>>
      /\ Inv
  BY DEF RestInv, Start, SetReplicas, AddTrigger, SetServiceValues, Get, setup
<1>2. pc' # "idle"
  BY DEF Start, SetReplicas, AddTrigger, SetServiceValues, Get, Goto
<1>3. CASE Start
  <2>1. desired' = template /\ ~Built'
    BY <1>3 DEF Start, Goto, Built
  <2> QED
    BY <1>1, <1>2, <2>1 DEF LastPass, Templated, Built
<1>4. CASE SetReplicas \/ AddTrigger \/ SetServiceValues \/ Get
  <2>1. ~Due /\ Api' = Api /\ lost' = lost /\ pc # "idle"
    BY <1>1, <1>4
       DEF Due, Api, SetReplicas, AddTrigger, SetServiceValues, Get
  <2>2. Templated(desired) /\ (Built => Rolled(desired)) /\ desired \in OfKind
    BY <1>1, <2>1 DEF RestInv, Rest, LastPass, Inv, LocalOK, PassInv
  <2>3. CASE SetReplicas
    <3>1. /\ kind = "Deployment" /\ pc' = "trigger"
          /\ enforce => desired' = desired
      BY <1>1, <2>3
         DEF SetReplicas, WithReplicas, Inv, PassInv, Goto
    <3> QED
      BY <1>1, <2>2, <3>1 DEF LastPass, Templated, Built
  <2>4. CASE AddTrigger
    <3>1. /\ kind = "Deployment" /\ pc' = "get"
          /\ desired' = [desired EXCEPT !.hash = GetHash(Head(source))]
      BY <1>1, <2>4 DEF AddTrigger, Inv, PassInv, Goto
    <3>2. desired \in Deployment
      BY <2>2, <3>1 DEF OfKind
    <3>3. /\ desired'.hash = GetHash(Head(source))
          /\ desired'.replicas = desired.replicas
      BY <3>1, <3>2 DEF Deployment
    <3>4. Len(source) = 1 => Head(source) = Last(source)
      BY <1>1, SeqEnds DEF Inv, RestOK
    <3> QED
      BY <1>1, <2>1, <2>2, <3>1, <3>3, <3>4 DEF LastPass, Templated, Rolled
  <2>5. CASE SetServiceValues
    <3>1. /\ kind = "Service" /\ pc' = "get"
          /\ desired' = WithServiceValues(Cached)
      BY <1>1, <2>5 DEF SetServiceValues, Inv, PassInv, Goto
    <3>2. desired \in Service
      BY <2>2, <3>1 DEF OfKind
    <3>3. /\ desired'.type = desired.type
          /\ DOMAIN desired'.ports = DOMAIN desired.ports
      <4>1. CASE Cached = Missing
        BY <3>1, <4>1 DEF WithServiceValues
      <4>2. CASE Cached # Missing
        <5> DEFINE q == IF desired.type = "ClusterIP" THEN desired.ports
                          ELSE LivePorts(desired.ports, Cached.ports)
        <5>1. desired' = [desired EXCEPT !.ip = Cached.ip, !.ports = q]
          BY <3>1, <3>2, <4>2 DEF WithServiceValues, Service
        <5>2. DOMAIN q = DOMAIN desired.ports
          BY DEF LivePorts
        <5> HIDE DEF q
        <5> QED
          BY <3>2, <5>1, <5>2 DEF Service
      <4> QED
        BY <4>1, <4>2
    <3> QED
      BY <1>1, <2>2, <3>1, <3>3 DEF LastPass, Templated, Rolled
  <2>6. CASE Get
    <3>1. live' = Cached /\ desired' = desired /\ Built
      BY <2>6 DEF Get, Built
    <3>2. Len(feed) = 1 => Cached = Api
      BY <1>1, ApiIs
    <3>3. Cached = Api
      BY <2>1, <3>2 DEF Due
    <3>4. Rolled(desired)'
      BY <1>1, <2>1, <2>2, <3>1 DEF Rolled
    <3>5. Templated(desired)'
      BY <1>1, <2>2, <3>1 DEF Templated
    <3> QED
      BY <1>2, <2>1, <3>1, <3>3, <3>4, <3>5 DEF LastPass
  <2> QED
    BY <1>4, <2>3, <2>4, <2>5, <2>6
<1> QED
  BY <1>3, <1>4

\* The pass finds the resource as it should be, or makes it so.
LEMMA EndRest ==
  ASSUME RestInv, Inv', GetInLine \/ Write
  PROVE  RestInv'
<1> SUFFICES ASSUME ~Due'
             PROVE  LastPass' /\ InOrder'
  BY DEF RestInv, Rest
<1>1. /\ UNCHANGED <<kind, op, enforce, template, source, events, known>>
      /\ UNCHANGED <<queued, lost>>
      /\ Return /\ Inv /\ Built
  BY DEF RestInv, GetInLine, Write, CanWrite, setup, Built
<1>2. feed' = feed
  <2>1. CASE GetInLine
    BY <2>1 DEF GetInLine
  <2>2. CASE Write
    <3>1. PICK o \in Stored(Object) : Store(o)
      BY <2>2 DEF Write
    <3>2. o \in Good
      BY <1>1, <2>2, <3>1, StoredIs DEF Write
    <3> QED
      BY <1>1, <3>1, <3>2, StoreIsDue
  <2> QED
    BY <2>1, <2>2
<1>3. ~Due /\ Api' = Api
  BY <1>1, <1>2 DEF Due, Api
<1>4. /\ pc' = "idle" /\ Templated(desired) /\ Rolled(desired)
      /\ desired \in OfKind /\ Missing \notin OfKind
      /\ pc \in {"create", "modify"} => live = Api
  BY <1>1, <1>3, ApiIs
     DEF RestInv, Rest, LastPass, Inv, LocalOK, PassInv, Built, Return, Goto
<1>5. LastPass'
  BY <1>4 DEF LastPass, Built
<1>6. Api # Missing /\ Templated(Api) /\ Rolled(Api)
  <2>1. CASE GetInLine
    <3>1. Cached = desired /\ (Len(feed) = 1 => Cached = Api)
      BY <1>1, <2>1, ApiIs DEF GetInLine
    <3>2. Api = desired
      BY <1>3, <3>1 DEF Due
    <3> QED
      BY <1>4, <3>2
  <2>2. CASE Write
    <3>1. CanWrite
      BY <2>2 DEF Write
    <3>2. PICK o \in Stored(Object) : Store(o)
      BY <2>2 DEF Write
    <3>3. o \in Good /\ o # Missing
      BY <1>1, <3>1, <3>2, ApiIs, StoredIs
    <3>4. o = Api
      BY <1>1, <3>2, <3>3, StoreIsDue
    <3>5. /\ pc = "modify" /\ live = Api /\ Api # Missing
          /\ op \in {"Update", "Patch"}
      BY <1>1, <1>4, <3>1, <3>3, <3>4 DEF CanWrite, Inv, RestOK
    <3>6. \A f \in DOMAIN desired : Object[f] = desired[f]
      <4>1. CASE op = "Patch"
        BY <1>1, <3>5, <4>1, PatchedIs DEF Object
      <4>2. CASE op # "Patch"
        BY <4>2 DEF Object
      <4> QED
        BY <4>1, <4>2
    <3>7. CASE kind = "Deployment"
      <4>1. desired \in Deployment
        BY <1>4, <3>7 DEF OfKind
      <4>2. Api.replicas = desired.replicas /\ Api.hash = desired.hash
        BY <1>1, <3>1, <3>2, <3>4, <3>6, <3>7, <4>1, StoredIs DEF Deployment
      <4> QED
        BY <1>4, <3>5, <3>7, <4>2 DEF Templated, Rolled
    <3>8. CASE kind # "Deployment"
      <4>1. kind = "Service" /\ desired \in Service
        BY <1>1, <1>4, <3>8, KindIs DEF OfKind, Inv
      <4>2. Object.type = desired.type /\ Object.ports = desired.ports
        BY <3>6, <4>1 DEF Service
      <4>3. Api.type = Object.type /\ DOMAIN Api.ports = DOMAIN Object.ports
        BY <1>1, <3>1, <3>2, <3>4, <4>1, StoredIs
      <4> QED
        BY <1>4, <3>5, <3>8, <4>2, <4>3 DEF Templated, Rolled
    <3> QED
      BY <3>7, <3>8
  <2> QED
    BY <2>1, <2>2
<1>7. Templated(Api)' /\ Rolled(Api)'
  BY <1>1, <1>3, <1>6 DEF Templated, Rolled
<1> QED
  BY <1>3, <1>5, <1>6, <1>7 DEF InOrder

LEMMA StepRest ==
  ASSUME RestInv, [Next]_vars
  PROVE  RestInv'
<1>1. Inv'
  BY NextKeeps DEF RestInv
<1>2. CASE \/ Others \/ ChangeSource \/ EditTemplate \/ Sync \/ HandleEvent
           \/ ListFails
  BY <1>1, <1>2, EnvRest
<1>3. CASE Start \/ SetReplicas \/ AddTrigger \/ SetServiceValues \/ Get
  BY <1>1, <1>3, PassRest
<1>4. CASE GetInLine \/ Write
  BY <1>1, <1>4, EndRest
<1>5. CASE Refused \/ CallFails \/ ReplyLost \/ Restart
  BY <1>1, <1>5, DueRest
     DEF Refused, CallFails, ReplyLost, Restart, Error, Due
<1>6. CASE UNCHANGED vars
  <2>1. /\ UNCHANGED <<kind, enforce, template, source, events, known, feed>>
        /\ UNCHANGED <<queued, pc, desired, live, lost>>
    BY <1>6 DEF vars, setup, local
  <2>2. Api' = Api
    BY <2>1 DEF Api
  <2> QED
    BY <1>1, <2>1, <2>2
       DEF RestInv, Rest, Due, LastPass, InOrder, Templated, Rolled, Built
<1> QED
  BY <1>2, <1>3, <1>4, <1>5, <1>6 DEF Next, Work

---------------------------------------------------------------------------
(* The theorems *)

\* Every variable keeps its type, and what the pass holds is of the kind of
\* the resource.
THEOREM TypeCorrect == Spec => []TypeOK
<1>1. ASSUME Inv PROVE TypeOK
  <2>1. /\ contents \subseteq Source /\ source \in Seq(contents)
        /\ Good \union {Missing} \subseteq OfKind \union {Missing}
        /\ feed \in Seq(Good \union {Missing})
    BY <1>1 DEF Inv, RestOK, FeedOK, Good
  <2>2. source \in Seq(Source) /\ feed \in Seq(OfKind \union {Missing})
    BY <2>1, SeqMonotonic
  <2> QED
    BY <1>1, <2>2 DEF Inv, RestOK, FeedOK, LocalOK, TypeOK
<1> QED
  BY <1>1, Invariance, PTL

\* The hash in the pod template is always that of a content that the source
\* had, whatever calls fail and however old the caches are.
THEOREM HashReal == Spec => []HashIsReal
<1>1. ASSUME Inv PROVE HashIsReal
  BY <1>1, ApiIs DEF Good, HashIsReal, Real
<1> QED
  BY <1>1, Invariance, PTL

\* The replicas and the node ports that others set survive every write of the
\* controller whose two reads found the same.
THEOREM LiveSurvive == Spec => LiveValuesSurvive
<1>1. ASSUME Inv, [Next]_vars, Modifies, built = live
      PROVE  ReplicasSurvive /\ NodePortsSurvive
  <2>1. pc = "modify" /\ Api # Missing
    BY <1>1 DEF Modifies
  <2>2. CASE Api' = Api
    BY <2>2 DEF ReplicasSurvive, NodePortsSurvive
  <2>3. ASSUME CanWrite, NEW o \in Stored(Object), Store(o),
               UNCHANGED <<kind, contents>>
        PROVE  ReplicasSurvive /\ NodePortsSurvive
    <3>1. Api' = o
      BY <1>1, <2>3, WriteKeepsFeed
    <3>2. /\ built # Missing /\ (fresh => built = Api)
          /\ op = "Update" => fresh
      BY <1>1, <2>1, <2>3 DEF Inv, PassInv, CanWrite
    <3>3. desired \in OfKind
      BY <1>1, <2>1 DEF Inv, LocalOK, PassInv
    <3>4. /\ op = "Patch" => Object = Patched
          /\ op = "Update" => Object = desired
          /\ op \in {"Update", "Patch"}
      BY <1>1, <2>1 DEF Object, Inv, RestOK
    <3>5. ReplicasSurvive
      <4> SUFFICES ASSUME kind = "Deployment", ~enforce
                   PROVE  o.replicas = Api.replicas
        BY <3>1 DEF ReplicasSurvive
      <4>1. desired.replicas = live.replicas
        BY <1>1, <2>1, <3>2 DEF Inv, DeploymentInv, Built
      <4>2. "replicas" \in DOMAIN desired
        BY <3>3 DEF OfKind, Deployment
      <4>3. Object.replicas = Api.replicas
        BY <1>1, <2>1, <3>2, <3>4, <4>1, <4>2, PatchedIs
      <4> QED
        BY <1>1, <2>3, <4>3, StoredIs
    <3>6. NodePortsSurvive
      <4> SUFFICES ASSUME kind = "Service", fresh, Api.type = o.type,
                          NEW p \in DOMAIN Api.ports \intersect DOMAIN o.ports
                   PROVE  o.ports[p] = Api.ports[p]
        BY <3>1, <3>2, <3>4 DEF NodePortsSurvive
      <4>1. built = Api
        BY <3>2
      <4>2. /\ "type" \in DOMAIN desired /\ "ports" \in DOMAIN desired
            /\ o.type \in {"ClusterIP", "NodePort"}
        BY <1>1, <2>3, <3>3, StoredIs DEF OfKind, Service, Good
      <4>3. Object.type = desired.type /\ Object.ports = desired.ports
        BY <1>1, <2>1, <3>4, <4>1, <4>2, PatchedIs
      <4>4. /\ o.type = desired.type /\ DOMAIN o.ports = DOMAIN desired.ports
            /\ o.type = "ClusterIP" => o.ports = desired.ports
            /\ o.type = "NodePort" => desired.ports[p] \in {0, o.ports[p]}
        BY <1>1, <2>3, <4>3, StoredIs
      <4>5. Fits(Api)
        BY <1>1, <2>1, ApiIs DEF Good
      <4>6. CASE o.type = "ClusterIP"
        <5>1. NoNodePorts(desired)
          BY <1>1, <2>1, <4>4, <4>6 DEF Inv, ServiceInv
        <5> QED
          BY <4>4, <4>5, <4>6, <5>1 DEF Fits, NoNodePorts
      <4>7. CASE o.type = "NodePort"
        <5>1. desired.ports[p] = Api.ports[p]
          BY <1>1, <2>1, <3>2, <4>1, <4>4, <4>7 DEF Inv, ServiceInv, Built
        <5>2. Api.ports[p] # 0
          BY <4>5, <4>7 DEF Fits
        <5> QED
          BY <4>4, <4>7, <5>1, <5>2
      <4> QED
        BY <4>2, <4>6, <4>7
    <3> QED
      BY <3>5, <3>6
  <2>4. Api' = Api \/ Write \/ ReplyLost
    <3>1. CASE feed' = feed
      BY <3>1 DEF Api
    <3>2. CASE Restart
      BY <1>1, <3>2, LastEnds DEF Restart, Api, Inv, FeedOK
    <3>3. CASE Others \/ ResourceSync
      <4>1. pc' = pc
        BY <3>3 DEF Others, ResourceSync, local
      <4> QED
        BY <1>1, <4>1 DEF Modifies
    <3>4. \/ feed' = feed \/ Restart \/ Others \/ ResourceSync
          \/ Write \/ ReplyLost
      BY <1>1 DEF Next, vars, ChangeSource, EditTemplate, Sync, OwnerSync,
         SourceSync, HandleEvent, Work, Start, SetReplicas, AddTrigger,
         SetServiceValues, Get, GetInLine, Refused, CallFails, ListFails
    <3> QED
      BY <3>1, <3>2, <3>3, <3>4
  <2>5. CASE Write \/ ReplyLost
    <3>1. /\ CanWrite /\ UNCHANGED <<kind, contents>>
          /\ \E o \in Stored(Object) : Store(o)
      BY <2>5 DEF Write, ReplyLost, Error, setup
    <3> QED
      BY <2>3, <3>1
  <2> QED
    BY <2>2, <2>4, <2>5
<1>2. Inv /\ [Next]_vars =>
        [Modifies /\ built = live => ReplicasSurvive /\ NodePortsSurvive]_vars
  BY <1>1
<1> QED
  BY <1>2, Invariance, PTL DEF Spec, LiveValuesSurvive

\* With no pass due, no version of the resource on its way and no event of the
\* source either, the resource is as the template says and its pods have the
\* hash of the source, unless the handler dropped an event.
THEOREM AtRestInLine == Spec => []RestsInLine
<1>1. Init => RestInv
  BY InitRest
<1>2. RestInv /\ [Next]_vars => RestInv'
  BY StepRest
<1>3. RestInv => RestsInLine
  BY KindIs DEF RestInv, Inv, Rest, Due, InOrder, Templated, Rolled,
     RestsInLine, Idle, Synced, InLine
<1> QED
  BY <1>1, <1>2, <1>3, PTL DEF Spec

===========================================================================
