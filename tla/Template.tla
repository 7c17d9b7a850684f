----------------------------- MODULE Template -----------------------------
(***************************************************************************)
(* resource.Template (src/resource/template.go) and the global             *)
(* configuration of reconciles by type (src/config/global.go), as values:  *)
(* what a chain of the constructors makes of a template, what Build makes  *)
(* of the template, and which options a reconcile goes by.                 *)
(*                                                                         *)
(* A builder, transformation or mutation sets some fields of the object,   *)
(* and is the function of those fields to their values.  The mutations     *)
(* that read the cluster are in Mutators, and whether a template is        *)
(* enabled in OwnedResources.  A property is a set of fields.              *)
(***************************************************************************)
EXTENDS Sequences, SequencesExt, TLC

CONSTANT InitialEnsure   \* what "*" ensures unless it is set

NewTemplate(gvk, builder) ==
  [gvk |-> gvk, builders |-> <<builder>>, mutations |-> <<>>,
   ensure |-> {}, ignore |-> {}, op |-> ""]

Apply(t, transformation) == [t EXCEPT !.builders = Append(@, transformation)]

WithMutation(t, fn) == [t EXCEPT !.mutations = Append(@, fn)]
WithMutations(t, fns) == FoldLeft(WithMutation, t, fns)

WithEnsureProperties(t, ensure) == [t EXCEPT !.ensure = ensure]
WithIgnoreProperties(t, ignore) == [t EXCEPT !.ignore = ignore]
WithModifyOp(t, op) == [t EXCEPT !.op = op]

\* The builder and its transformations first, whenever they were added.
Build(t, empty) ==
  FoldLeft(LAMBDA o, fn : fn @@ o, empty, t.builders \o t.mutations)

InitialConfig == "*" :> [ensure |-> InitialEnsure, ignore |-> {}]

SetDefaultReconcileConfigForGVK(config, gvk, cfg) ==
  (IF gvk = "" THEN "*" ELSE gvk) :> cfg @@ config

\* Nothing takes "*" out of the configuration.
GetDefaultReconcileConfigForGVK(config, gvk) ==
  IF gvk \in DOMAIN config THEN config[gvk] ELSE config["*"]

\* Without properties to ensure, the default configuration holds, for the
\* properties to ignore as well.
GetReconcileOptions(t, config) ==
  LET cfg == IF t.ensure # {}
               THEN t ELSE GetDefaultReconcileConfigForGVK(config, t.gvk)
  IN  [ensure |-> cfg.ensure, ignore |-> cfg.ignore,
       op |-> IF t.op = "" THEN "Update" ELSE t.op]

===========================================================================
