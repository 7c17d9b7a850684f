------------------------- MODULE MCOwnedResources -------------------------
(* Instances of OwnedResources for TLC. *)
EXTENDS OwnedResources

CONSTANTS k1, k2, t1, t2, v1, v2

\* Two resources of one type, and of two types.
OneType == [k \in {k1, k2} |-> t1]
TwoTypes == k1 :> t1 @@ k2 :> t2

\* The first is updated, the second patched.
OneOfEach == k1 :> "Update" @@ k2 :> "Patch"

Want(m1, m2, v, p) == [mode |-> k1 :> m1 @@ k2 :> m2, val |-> v, prune |-> p]

\* What the user asks for: both resources, the first disabled, the first no
\* longer listed, other content, the pruner off.
MCSpecs ==
  { Want("enabled", "enabled", v1, TRUE),
    Want("disabled", "enabled", v1, TRUE),
    Want("absent", "enabled", v1, TRUE),
    Want("enabled", "enabled", v2, TRUE),
    Want("absent", "enabled", v1, FALSE) }

===========================================================================
