----------------------------- MODULE Converge -----------------------------
(***************************************************************************)
(* What ReconcileOwnedResources promises (src/reconciler/reconciler.go):   *)
(* the resources of a CR change only towards what some recent version of   *)
(* the CR asks for, and when the controller rests they are what the newest *)
(* asks for, save a resource that should not be there any more, of a type *)
(* that is not tracked.  `window` holds the versions that it may still go  *)
(* by: those from the cached one on and the one that a pass works on; it   *)
(* never comes back to an older one.  OwnedResources implements this with  *)
(* caches that lag behind, calls that fail and restarts, as long as the    *)
(* types are watched and nobody else creates a resource of these names.    *)
(***************************************************************************)
CONSTANTS Keys, TypeOf, Vals, NoVal, Specs   \* as in OwnedResources

VARIABLES
  newest,   \* what the user asks for
  window,   \* what the controller may go by
  have,     \* the resources
  tracked,  \* types that were enabled, and are looked after
  calm      \* the controller has nothing to do and nothing to learn

vars == <<newest, window, have, tracked, calm>>

NoObj == [val |-> NoVal, owned |-> FALSE, deleting |-> FALSE]

Exists(o) == o # NoObj

Settled(k) ==
  LET o == have[k]
      gone == ~Exists(o) \/ o.deleting
  IN /\ newest.mode[k] = "enabled" => Exists(o) /\ o.val = newest.val
     /\ newest.mode[k] = "disabled" /\ TypeOf[k] \in tracked => gone
     /\ newest.mode[k] = "absent" /\ newest.prune /\ TypeOf[k] \in tracked =>
          ~o.owned \/ gone

Init ==
  /\ newest \in Specs /\ window = {newest}
  /\ have = [k \in Keys |-> NoObj]
  /\ tracked = {} /\ calm = FALSE

\* The user.
Ask(s) ==
  /\ newest' = s /\ window' = window \union {s}
  /\ UNCHANGED <<have, tracked>>

Put(k, o) == have' = [have EXCEPT ![k] = o]

\* A delete waits for the finalizers of the resource.
Deleted(o) == {NoObj, [o EXCEPT !.deleting = TRUE]}

\* Somebody else changes or deletes a resource that is there.
Disturb(k) ==
  /\ Exists(have[k])
  /\ \E o \in Deleted(have[k]) \union {[have[k] EXCEPT !.val = v] : v \in Vals} :
       Put(k, o)
  /\ UNCHANGED <<newest, window, tracked>>

\* The controller sees newer versions of the CR, and never older ones again.
Narrow ==
  /\ newest' = newest
  /\ window' \subseteq window /\ newest \in window'

\* It creates or updates the resource of an enabled template, ...
Bring(k) ==
  /\ \E s \in window :
       /\ s.mode[k] = "enabled"
       /\ Put(k, IF Exists(have[k]) THEN [have[k] EXCEPT !.val = s.val]
                 ELSE [val |-> s.val, owned |-> TRUE, deleting |-> FALSE])
  /\ Narrow /\ UNCHANGED tracked

\* ... removes that of a disabled template, or of none at all, ...
TakeAway(k) ==
  /\ Exists(have[k])
  /\ \E s \in window : \/ s.mode[k] = "disabled"
                       \/ /\ s.mode[k] = "absent" /\ s.prune
                          /\ TypeOf[k] \in tracked
  /\ \E o \in Deleted(have[k]) : Put(k, o)
  /\ Narrow /\ UNCHANGED tracked

\* ... and looks after the types of the resources that it brought.
Track(k) ==
  /\ \E s \in window : s.mode[k] = "enabled"
  /\ tracked' = tracked \union {TypeOf[k]}
  /\ UNCHANGED <<newest, window, have>>

\* It goes on, or restarts.
GoOn ==
  /\ Narrow
  /\ tracked' \in {tracked, {}}
  /\ UNCHANGED have

Next ==
  /\ \/ \E s \in Specs : Ask(s)
     \/ \E k \in Keys : Disturb(k) \/ Bring(k) \/ TakeAway(k) \/ Track(k)
     \/ GoOn
  /\ calm' => (\A k \in Keys : Settled(k))'

Spec == Init /\ [][Next]_vars

===========================================================================
