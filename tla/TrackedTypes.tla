--------------------------- MODULE TrackedTypes ---------------------------
(***************************************************************************)
(* What the type tracker promises to those who rely on it, the pruner and  *)
(* the dynamic watches (src/reconciler/tracker.go): types are watched      *)
(* before they are tracked, both for as long as the process lives.         *)
(* TypeTracker implements it with workers that interleave, and             *)
(* OwnedResources, where it is one step of the pass, does too.             *)
(***************************************************************************)
CONSTANTS Types, DynamicWatches

VARIABLES tracked, watched   \* sets of types

Init == tracked = {} /\ watched = {}

Watch(t) ==
  /\ watched' = watched \union {t}
  /\ UNCHANGED tracked

\* With or without a watch that another worker added.
Track(t) ==
  /\ DynamicWatches => t \in watched
  /\ tracked' = tracked \union {t}
  /\ UNCHANGED watched

WatchAndTrack(t) ==
  /\ watched' = IF DynamicWatches THEN watched \union {t} ELSE watched
  /\ tracked' = tracked \union {t}

\* The process restarts.
Forget == tracked' = {} /\ watched' = {}

Next ==
  \/ \E t \in Types : Watch(t) \/ Track(t) \/ WatchAndTrack(t)
  \/ Forget

Spec == Init /\ [][Next]_<<tracked, watched>>

===========================================================================
