--------------------------- MODULE Finalization ---------------------------
(***************************************************************************)
(* What the finalizer promises (the finalization part of                   *)
(* Reconciler.ManageResourceLifecycle, src/reconciler/reconciler.go), for  *)
(* CRs known by their uids: a CR that is being deleted stays until every   *)
(* finalization function has run for it, in their order, and the functions *)
(* run for no other CR.  Lifecycle implements it with a cache that lags    *)
(* behind and calls that fail.                                             *)
(***************************************************************************)
EXTENDS Naturals

CONSTANTS
  Uids,    \* of CRs
  NumFns   \* finalization functions: 1 .. NumFns

VARIABLES
  protected,  \* the CRs that have the finalizer
  released,   \* those that had it
  doomed,     \* those that are, or were, being deleted
  effects     \* <<u, f>>: function f took effect for u

Init == protected = {} /\ released = {} /\ doomed = {} /\ effects = {}

Protect(u) ==
  /\ u \notin released \union doomed
  /\ protected' = protected \union {u}
  /\ UNCHANGED <<released, doomed, effects>>

Doom(u) ==
  /\ doomed' = doomed \union {u}
  /\ UNCHANGED <<protected, released, effects>>

\* A function may run again, even after the release: the cache may be old.
Finalize(u, f) ==
  /\ u \in doomed
  /\ f > 1 => <<u, f - 1>> \in effects
  /\ effects' = effects \union {<<u, f>>}
  /\ UNCHANGED <<protected, released, doomed>>

Release(u) ==
  /\ u \in protected \cap doomed
  /\ \A f \in 1..NumFns : <<u, f>> \in effects
  /\ protected' = protected \ {u}
  /\ released' = released \union {u}
  /\ UNCHANGED <<doomed, effects>>

Next ==
  \E u \in Uids :
    Protect(u) \/ Doom(u) \/ Release(u) \/ \E f \in 1..NumFns : Finalize(u, f)

Spec == Init /\ [][Next]_<<protected, released, doomed, effects>>

===========================================================================
