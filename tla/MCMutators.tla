---------------------------- MODULE MCMutators ----------------------------
(* Instances of Mutators for TLC: a Deployment and a Service. *)
EXTENDS Mutators

CONSTANTS c1, c2, h1, h2, p1, p2

MCHash == c1 :> h1 @@ c2 :> h2

Svc(t, P) == [type |-> t, ip |-> 0, ports |-> [p \in P |-> 0]]

\* A Deployment; a Service that the owner may give a second port, or take its
\* node ports.
MCTemplates ==
  [Deployment |-> {[replicas |-> 1, hash |-> NoHash]},
   Service |-> {Svc("NodePort", {p1}), Svc("NodePort", {p1, p2}),
                Svc("ClusterIP", {p1})}]

===========================================================================
