----------------------------- MODULE MCStatus -----------------------------
(* Instances of Status for TLC: a Deployment and a StatefulSet. *)
EXTENDS Status

CONSTANTS d, s

MCKindOf == d :> "Deployment" @@ s :> "StatefulSet"

Deploy(exceeded, updated, available) ==
  [kind |-> "Deployment", generation |-> 2, observed |-> 2,
   paused |-> FALSE, deadlineExceeded |-> exceeded, want |-> 2,
   updated |-> updated, replicas |-> 2, available |-> available]

Stateful(strategy, updated, revisions) ==
  [kind |-> "StatefulSet", generation |-> 2, observed |-> 2,
   want |-> 2, ready |-> 2, updated |-> updated,
   strategy |-> strategy, partition |-> 1, revisions |-> revisions]

\* The Deployment: rolled out, and stuck.  The StatefulSet: rolled out up to
\* its partition, and in the middle of a rolling update.
MCWorkloads ==
  d :> {Deploy(FALSE, 2, 2), Deploy(TRUE, 1, 1)}
  @@ s :> {Stateful("partitioned", 1, FALSE), Stateful("rolling", 1, FALSE)}

MCLists == {{d, s}, {}}

===========================================================================
