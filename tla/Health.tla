------------------------------ MODULE Health ------------------------------
(***************************************************************************)
(* How healthy a workload is, and which health is worse                    *)
(* (src/reconciler/health.go).  The messages are left out.                 *)
(***************************************************************************)
EXTENDS Integers

\* From most to least healthy.  The code never finds "Missing" or "Unknown".
healthOrder == <<"Healthy", "Suspended", "Progressing", "Missing", "Degraded",
                 "Unknown">>

HealthStatusCode == {healthOrder[i] : i \in DOMAIN healthOrder}

\* A code that is not in the order counts as the first.
Rank(c) ==
  IF c \in HealthStatusCode
    THEN CHOOSE i \in DOMAIN healthOrder : healthOrder[i] = c
    ELSE 1

healthIsWorse(current, new) == Rank(new) > Rank(current)

\* A Deployment: its generation and the one its controller has observed, the
\* ProgressDeadlineExceeded condition, spec.replicas, and the replicas of its
\* status.
Deployment == [kind : {"Deployment"}, generation : Nat, observed : Nat,
               paused : BOOLEAN, deadlineExceeded : BOOLEAN, want : Nat,
               updated : Nat, replicas : Nat, available : Nat]

GetDeploymentHealth(d) ==
  IF d.paused THEN "Suspended"
  ELSE IF d.generation > d.observed THEN "Progressing"
  ELSE IF d.deadlineExceeded THEN "Degraded"
  ELSE IF \/ d.updated < d.want
          \/ d.replicas > d.updated
          \/ d.available < d.updated THEN "Progressing"
  ELSE "Healthy"

\* A StatefulSet: "partitioned" has spec.updateStrategy.rollingUpdate, which
\* the API server fills in, "onDelete" leaves the pods to others; revisions
\* says that updateRevision is currentRevision.
StatefulSet == [kind : {"StatefulSet"}, generation : Nat, observed : Nat,
                want : Nat, ready : Nat, updated : Nat,
                strategy : {"partitioned", "rolling", "onDelete"},
                partition : Nat, revisions : BOOLEAN]

GetStatefulSetHealth(s) ==
  IF \/ s.observed = 0 \/ s.generation > s.observed
     \/ s.ready < s.want
     \/ s.strategy = "partitioned" /\ s.updated < s.want - s.partition
     \/ s.strategy = "rolling" /\ ~s.revisions
    THEN "Progressing"
    ELSE "Healthy"

\* Mutant: only the Deployments are told apart by their status.
DeploymentHealthOnly(w) ==
  IF w.kind = "Deployment" THEN GetDeploymentHealth(w) ELSE "Healthy"

HealthOf(w) ==
  IF w.kind = "Deployment" THEN GetDeploymentHealth(w)
                           ELSE GetStatefulSetHealth(w)

\* What a user means by healthy: everything that was asked for runs, nothing
\* else does, and the controller of the workload knows of it.  A StatefulSet
\* below its partition, and one that is updated by hand, keeps old pods.
RolledOut(w) ==
  /\ w.observed >= w.generation
  /\ IF w.kind = "Deployment"
       THEN /\ ~w.paused /\ ~w.deadlineExceeded
            /\ w.available >= w.want /\ w.replicas <= w.updated
       ELSE /\ w.ready >= w.want
            /\ w.strategy = "partitioned" => w.updated + w.partition >= w.want
            /\ w.strategy = "rolling" => w.revisions

===========================================================================
