----------------------------- MODULE MCModify -----------------------------
(* Instances of Modify for TLC.  The API server defaults the field i,      *)
(* which the templates do not set.                                         *)
EXTENDS Modify

CONSTANTS a, b, i, o, v1, v2

MCInitialEnsure == {{a, i}, {b}}
MCDefault == [l \in Leaves |-> IF l = i THEN v1 ELSE Absent]

Base == NewTemplate("Service", a :> v1)

\* Ensures two properties, a third within the first, and ignores a field of it.
Explicit(t) ==
  WithIgnoreProperties(WithEnsureProperties(t, {{a, i}, {a}, {b}}), {{i}})

\* The options of the last are those of the configuration.
MCTemplates ==
  {Explicit(WithMutation(Base, b :> v1)),
   WithModifyOp(Explicit(WithMutation(Base, b :> v1)), "Patch"),
   WithModifyOp(Explicit(Base), "Patch"),
   Explicit(Apply(WithMutations(Base, <<b :> v1, b :> v2>>),
                  a :> v2 @@ b :> v1)),
   WithModifyOp(WithIgnoreProperties(Apply(Base, a :> v2), {{a}}), "Patch")}

MCConfigs ==
  {InitialConfig,
   SetDefaultReconcileConfigForGVK(InitialConfig, "Service",
     [ensure |-> {{a, i}}, ignore |-> {{i}}])}

===========================================================================
