---------------------- MODULE OwnedResources_proofs ----------------------
(***************************************************************************)
(* Theorems about module OwnedResources, for any set of resources, types   *)
(* and requests, either modify operation, with or without dynamic watches, *)
(* and any number of edits, drifts and faults.                             *)
(*                                                                         *)
(* PruneKeepsEnabled needs PassInv, which follows the pass from step to    *)
(* step: an enabled template is either still to be dealt with or managed,  *)
(* so that all of them are managed when the pruner starts.  WakeInv below  *)
(* says for each resource that a pass that decided on an old version has   *)
(* another pass to come; NoLostWakeup and the refinement of Converge       *)
(* follow from it, with TrackedInv: without faults, a resource that is     *)
(* there has its type tracked.                                             *)
(***************************************************************************)
EXTENDS OwnedResources, TLAPS, Versions_proofs

---------------------------------------------------------------------------
(* The inductive invariant *)

Enabled(k) == snap.mode[k] = "enabled"

InTemplates ==
  pc \in {"template", "create", "modify", "remove", "skip", "track"}

PassInv ==
  /\ InTemplates =>
       \A k \in Keys : Enabled(k) => k \in managed \union todo
  /\ pc \in {"prune", "delete"} =>
       \A k \in Keys : Enabled(k) => k \in managed
  /\ pc \in {"remove", "skip"} => ~Enabled(cur)
  /\ pc # "delete" => toDelete = {}
  /\ toDelete \subseteq Keys \ managed

---------------------------------------------------------------------------
(* The feeds *)

FeedOK ==
  /\ feed \in [Types -> Seq([Keys -> Obj])]
  /\ \A t \in Types : Len(feed[t]) > 0

\* The ends of a sequence that is not empty.
LEMMA FeedEnds ==
  ASSUME NEW S, NEW s \in Seq(S), Len(s) > 0
  PROVE  /\ Head(s) \in S /\ Last(s) \in S
         /\ Tail(s) \in Seq(S) /\ Len(Tail(s)) = Len(s) - 1
BY DEF Last

LEMMA ApiIsObj ==
  ASSUME FeedOK, NEW k \in Keys
  PROVE  TypeOf[k] \in Types /\ Api(k) \in Obj /\ Cached(k) \in Obj
<1>1. TypeOf[k] \in Types
  BY OwnedResourcesAssumption
<1>2. feed[TypeOf[k]] \in Seq([Keys -> Obj]) /\ Len(feed[TypeOf[k]]) > 0
  BY <1>1 DEF FeedOK
<1>3. /\ Head(feed[TypeOf[k]]) \in [Keys -> Obj]
      /\ Last(feed[TypeOf[k]]) \in [Keys -> Obj]
  BY <1>2, FeedEnds
<1> QED
  BY <1>1, <1>3 DEF Api, Cached

\* A write keeps the types of the feeds.
LEMMA WriteFeed ==
  ASSUME FeedOK, fresh \in BOOLEAN,
         NEW k \in Keys, NEW o \in Obj, Write(k, o)
  PROVE  FeedOK' /\ fresh' \in BOOLEAN
<1>1. CASE o = Api(k)
  BY <1>1 DEF Write, FeedOK
<1>2. CASE o # Api(k)
  <2> DEFINE u == TypeOf[k]
             new == [Last(feed[u]) EXCEPT ![k] = o]
  <2>1. /\ feed' = [feed EXCEPT ![u] = Append(feed[u], new)]
        /\ fresh' = (fresh /\ k # cur)
    BY <1>2 DEF Write
  <2>2. u \in Types /\ feed[u] \in Seq([Keys -> Obj]) /\ Len(feed[u]) > 0
    BY ApiIsObj DEF FeedOK
  <2>3. Last(feed[u]) \in [Keys -> Obj]
    BY <2>2, FeedEnds
  <2>4. new \in [Keys -> Obj]
    BY <2>3
  <2> HIDE DEF new, u
  <2>5. /\ Append(feed[u], new) \in Seq([Keys -> Obj])
        /\ Len(Append(feed[u], new)) > 0
    BY <2>2, <2>4
  <2> QED
    BY <2>1, <2>2, <2>5 DEF FeedOK
<1> QED
  BY <1>1, <1>2

LEMMA DeleteFeed ==
  ASSUME FeedOK, fresh \in BOOLEAN, NEW k \in Keys, Delete(k)
  PROVE  FeedOK' /\ fresh' \in BOOLEAN
<1>1. NoObj \in Obj
  BY DEF NoObj, Obj
<1>2. [Api(k) EXCEPT !.deleting = TRUE] \in Obj
  BY ApiIsObj DEF Obj
<1> QED
  BY <1>1, <1>2, WriteFeed DEF Delete

\* Everything but the feeds and the fresh flag.
LocalOK ==
  /\ spec \in Seq(Specs) /\ Len(spec) > 0
  /\ queued \in BOOLEAN /\ pc \in Pc
  /\ snap \in Specs /\ todo \subseteq Keys /\ cur \in Keys
  /\ managed \subseteq Keys /\ requeue \in BOOLEAN
  /\ seenTypes \subseteq Types /\ toPrune \subseteq Types
  /\ toDelete \subseteq Keys
  /\ edits \in Nat /\ drifts \in Nat /\ faults \in Nat

LEMMA TypeOKParts ==
  TypeOK <=> LocalOK /\ FeedOK /\ fresh \in BOOLEAN /\ PassOK
BY DEF TypeOK, LocalOK, FeedOK

Inv == LocalOK /\ FeedOK /\ fresh \in BOOLEAN /\ PassInv

---------------------------------------------------------------------------
(* The invariant is preserved, action by action *)

LEMMA InitInv == Init => Inv
<1> SUFFICES ASSUME Init PROVE Inv
  OBVIOUS
<1>1. NoObj \in Obj
  BY DEF NoObj, Obj
<1>2. PICK s \in Specs : spec = <<s>> /\ snap = s
  BY DEF Init
<1>3. FeedOK
  <2>1. [k \in Keys |-> NoObj] \in [Keys -> Obj]
    BY <1>1
  <2> DEFINE c == [k \in Keys |-> NoObj]
  <2> HIDE DEF c
  <2>2. <<c>> \in Seq([Keys -> Obj]) /\ Len(<<c>>) > 0
    BY <2>1 DEF c
  <2>3. feed = [t \in Types |-> <<c>>]
    BY DEF Init, c
  <2> QED
    BY <2>2, <2>3 DEF FeedOK
<1>4. LocalOK /\ fresh \in BOOLEAN
  <2>1. spec \in Seq(Specs) /\ Len(spec) > 0 /\ snap \in Specs
    BY <1>2
  <2>2. pc \in Pc /\ queued \in BOOLEAN /\ requeue \in BOOLEAN /\ fresh \in BOOLEAN
    BY DEF Init, Pc
  <2>3. /\ todo = {} /\ managed = {} /\ seenTypes = {} /\ toPrune = {}
        /\ toDelete = {} /\ cur \in Keys
        /\ edits = 0 /\ drifts = 0 /\ faults = 0
    BY DEF Init
  <2> QED
    BY <2>1, <2>2, <2>3 DEF LocalOK
<1>5. PassInv
  BY DEF Init, PassInv, InTemplates
<1> QED
  BY <1>3, <1>4, <1>5 DEF Inv

\* Steps of the environment leave the worker alone.
LEMMA EnvInv ==
  ASSUME Inv, Env
  PROVE  Inv'
<1>1. CASE UserEdit
  <2>1. PICK s \in Specs : spec' = Append(spec, s)
    BY <1>1 DEF UserEdit
  <2>2. spec' \in Seq(Specs) /\ Len(spec') > 0
    BY <2>1 DEF Inv, LocalOK
  <2> QED
    BY <1>1, <2>2 DEF UserEdit, local, Inv, LocalOK, FeedOK, PassInv, InTemplates,
                     Enabled
<1>2. ASSUME NEW k \in Keys, Drift(k) \/ Reap(k)
      PROVE  Inv'
  <2>1. FeedOK' /\ fresh' \in BOOLEAN
    <3>1. CASE Delete(k)
      BY <3>1, DeleteFeed DEF Inv
    <3>2. CASE \E v \in Vals : Write(k, [Api(k) EXCEPT !.val = v])
      <4>1. PICK v \in Vals : Write(k, [Api(k) EXCEPT !.val = v])
        BY <3>2
      <4>2. [Api(k) EXCEPT !.val = v] \in Obj
        BY ApiIsObj DEF Inv, Obj
      <4> QED
        BY <4>1, <4>2, WriteFeed DEF Inv
    <3>3. CASE \E v \in Vals : Write(k, [NoObj EXCEPT !.val = v])
      <4>1. PICK v \in Vals : Write(k, [NoObj EXCEPT !.val = v])
        BY <3>3
      <4>2. [NoObj EXCEPT !.val = v] \in Obj
        BY DEF NoObj, Obj
      <4> QED
        BY <4>1, <4>2, WriteFeed DEF Inv
    <3>4. CASE Write(k, NoObj)
      <4>1. NoObj \in Obj
        BY DEF NoObj, Obj
      <4> QED
        BY <3>4, <4>1, WriteFeed DEF Inv
    <3> QED
      BY <1>2, <3>1, <3>2, <3>3, <3>4 DEF Drift, Reap
  <2>2. LocalOK'
    BY <1>2 DEF Drift, Reap, local, budget, Inv, LocalOK
  <2>3. PassInv'
    BY <1>2 DEF Drift, Reap, local, Inv, PassInv, InTemplates, Enabled
  <2> QED
    BY <2>1, <2>2, <2>3 DEF Inv
<1> QED
  BY <1>1, <1>2 DEF Env

LEMMA SyncInv ==
  ASSUME Inv, Sync
  PROVE  Inv'
<1>1. CASE SpecSync
  <2>1. spec' \in Seq(Specs) /\ Len(spec') > 0
    BY <1>1 DEF SpecSync, Inv, LocalOK
  <2> QED
    BY <1>1, <2>1 DEF SpecSync, local, budget, Inv, LocalOK, FeedOK, PassInv,
                     InTemplates, Enabled
<1>2. ASSUME NEW t \in Types, TypeSync(t)
      PROVE  Inv'
  <2>1. feed[t] \in Seq([Keys -> Obj]) /\ Len(feed[t]) > 1
    BY <1>2 DEF TypeSync, Inv, FeedOK
  <2>2. Tail(feed[t]) \in Seq([Keys -> Obj]) /\ Len(Tail(feed[t])) > 0
    BY <2>1
  <2>3. FeedOK'
    BY <1>2, <2>2 DEF TypeSync, Inv, FeedOK
  <2>4. queued' \in BOOLEAN
    BY <1>2 DEF TypeSync, Inv, LocalOK, Raises
  <2> QED
    BY <1>2, <2>3, <2>4 DEF TypeSync, local, budget, Inv, LocalOK, PassInv,
                           InTemplates, Enabled
<1> QED
  BY <1>1, <1>2 DEF Sync

\* A pass ends, well or not: nothing is left of its local variables.
LEMMA ReturnInv ==
  ASSUME Inv, Return, queued' \in BOOLEAN,
         spec' \in Seq(Specs), Len(spec') > 0, seenTypes' \subseteq Types,
         FeedOK', fresh' \in BOOLEAN, edits' \in Nat, drifts' \in Nat, faults' \in Nat
  PROVE  Inv'
BY DEF Return, Inv, LocalOK, PassInv, InTemplates, Pc

\* A write of the worker on resource k keeps the types of the feeds.
LEMMA WorkerWriteFeed ==
  ASSUME Inv, NEW k \in Keys,
         \/ Write(k, NewObj)
         \/ Write(k, [Api(k) EXCEPT !.val = snap.val])
         \/ Delete(k)
         \/ UNCHANGED <<feed, fresh>>
  PROVE  FeedOK' /\ fresh' \in BOOLEAN
<1>1. snap.val \in Vals
  BY OwnedResourcesAssumption DEF Inv, LocalOK, Spec_
<1>2. NewObj \in Obj
  BY <1>1 DEF NewObj, Obj
<1>3. [Api(k) EXCEPT !.val = snap.val] \in Obj
  BY <1>1, ApiIsObj DEF Inv, Obj
<1>4. CASE UNCHANGED <<feed, fresh>>
  BY <1>4 DEF Inv, FeedOK
<1> QED
  BY <1>2, <1>3, <1>4, WriteFeed, DeleteFeed DEF Inv

LEMMA StartInv ==
  ASSUME Inv, Pop \/ Start
  PROVE  Inv'
<1>1. CASE Pop
  BY <1>1 DEF Pop, budget, Inv, LocalOK, FeedOK, PassInv, InTemplates, Pc
<1>2. CASE Start
  <2>1. Head(spec) \in Specs
    BY DEF Inv, LocalOK
  <2>2. Head(spec).mode \in [Keys -> Mode]
    BY <2>1, OwnedResourcesAssumption DEF Spec_
  <2>3. \A k \in Keys : Head(spec).mode[k] = "enabled" => k \in todo'
    BY <1>2 DEF Start
  <2>4. LocalOK'
    BY <1>2, <2>1 DEF Start, budget, Inv, LocalOK, Pc
  <2>5. PassInv'
    BY <1>2, <2>3 DEF Start, Inv, PassInv, InTemplates, Enabled
  <2> QED
    BY <1>2, <2>4, <2>5 DEF Start, Inv, FeedOK
<1> QED
  BY <1>1, <1>2

LEMMA GetLiveInv ==
  ASSUME Inv, NEW k \in Keys, GetLive(k)
  PROVE  Inv'
<1>1. /\ pc' \in {"remove", "modify", "track", "create", "skip"}
      /\ pc' \in {"remove", "skip"} => ~Enabled(k)
  BY DEF GetLive, Decide, Enabled
<1>2. fresh' \in BOOLEAN
  BY DEF GetLive, Quiet, QuietIn
<1>3. LocalOK'
  BY <1>1 DEF GetLive, budget, Inv, LocalOK, Pc
<1>4. PassInv'
  BY <1>1 DEF GetLive, Inv, PassInv, InTemplates, Enabled
<1> QED
  BY <1>2, <1>3, <1>4 DEF GetLive, Inv, FeedOK

\* The template at hand is done without being managed: it is not enabled.
LEMMA NotManagedInv ==
  ASSUME Inv, NotManaged, pc \in {"remove", "skip"},
         UNCHANGED <<spec, seenTypes, budget>>, FeedOK', fresh' \in BOOLEAN
  PROVE  Inv'
<1>1. LocalOK'
  BY DEF NotManaged, budget, Inv, LocalOK, Pc
<1>2. PassInv'
  BY DEF NotManaged, Inv, PassInv, InTemplates, Enabled
<1> QED
  BY <1>1, <1>2 DEF Inv

\* ... or its resource was written: it is still to be tracked.
LEMMA WrittenInv ==
  ASSUME Inv, Written, pc \in {"create", "modify"},
         UNCHANGED <<spec, seenTypes, budget>>, FeedOK', fresh' \in BOOLEAN
  PROVE  Inv'
<1>1. LocalOK'
  BY DEF Written, budget, Inv, LocalOK, Pc
<1>2. PassInv'
  BY DEF Written, Inv, PassInv, InTemplates, Enabled
<1> QED
  BY <1>1, <1>2 DEF Inv

LEMMA TrackInv ==
  ASSUME Inv, Track
  PROVE  Inv'
<1>1. TypeOf[cur] \in Types
  BY OwnedResourcesAssumption DEF Inv, LocalOK
<1>2. LocalOK'
  BY <1>1 DEF Track, TrackNew, budget, Inv, LocalOK, Pc
<1>3. PassInv'
  BY DEF Track, Inv, PassInv, InTemplates, Enabled, LocalOK
<1> QED
  BY <1>2, <1>3 DEF Track, Inv, FeedOK

LEMMA PruneInv ==
  ASSUME Inv,
         \/ StartPrune \/ PruneNext
         \/ \E t \in Types : PruneList(t)
  PROVE  Inv'
<1>1. CASE StartPrune
  BY <1>1 DEF StartPrune, AllTemplatesDone, budget, Inv, LocalOK, FeedOK, PassInv,
              InTemplates, Enabled, Pc
<1>2. CASE PruneNext
  BY <1>2 DEF PruneNext, budget, Inv, LocalOK, FeedOK, PassInv, InTemplates,
              Enabled, Pc
<1>3. ASSUME NEW t \in Types, PruneList(t)
      PROVE  Inv'
  <2>1. toDelete' \subseteq Keys \ managed
    BY <1>3 DEF PruneList, KeysOf, Orphaned
  <2>2. LocalOK'
    BY <1>3, <2>1 DEF PruneList, budget, Inv, LocalOK, Pc
  <2>3. PassInv'
    BY <1>3, <2>1 DEF PruneList, Inv, PassInv, InTemplates, Enabled
  <2> QED
    BY <1>3, <2>2, <2>3 DEF PruneList, Inv, FeedOK
<1> QED
  BY <1>1, <1>2, <1>3

LEMMA PruneDeleteInv ==
  ASSUME Inv, NEW k \in Keys, PruneDelete(k), CanRemove(k)
  PROVE  Inv'
<1>1. FeedOK' /\ fresh' \in BOOLEAN
  BY WorkerWriteFeed DEF PruneDelete
<1>2. LocalOK'
  BY DEF PruneDelete, budget, Inv, LocalOK, Pc
<1>3. PassInv'
  BY DEF PruneDelete, Inv, PassInv, InTemplates, Enabled
<1> QED
  BY <1>1, <1>2, <1>3 DEF Inv

\* A write, or its failure: the pass goes on or ends.
LEMMA WriteStepsInv ==
  ASSUME Inv,
         \/ Skip \/ Create \/ Modify \/ RemoveDisabled
         \/ \E k \in Keys : PruneDelete(k)
  PROVE  Inv'
<1>1. CASE Error /\ UNCHANGED <<spec, feed, fresh, seenTypes, budget>>
  BY <1>1, ReturnInv DEF Error, budget, Inv, LocalOK, FeedOK
<1>2. CASE Skip
  BY <1>2, NotManagedInv DEF Skip, Inv, FeedOK
<1>3. CASE Create /\ CanCreate
  BY <1>3, WorkerWriteFeed, WrittenInv DEF Create, Inv, LocalOK
<1>4. CASE Modify /\ CanModify
  BY <1>4, WorkerWriteFeed, WrittenInv DEF Modify, Inv, LocalOK
<1>5. CASE RemoveDisabled /\ CanRemove(cur)
  BY <1>5, WorkerWriteFeed, NotManagedInv DEF RemoveDisabled, Inv, LocalOK
<1>6. ASSUME NEW k \in Keys, PruneDelete(k), CanRemove(k)
      PROVE  Inv'
  BY <1>6, PruneDeleteInv
<1> QED
  BY <1>1, <1>2, <1>3, <1>4, <1>5, <1>6
     DEF Create, Modify, RemoveDisabled, PruneDelete

LEMMA FaultInv ==
  ASSUME Inv, CallFails \/ ReplyLost \/ Restart
  PROVE  Inv'
<1>1. /\ Return /\ queued' \in BOOLEAN
      /\ edits' \in Nat /\ drifts' \in Nat /\ faults' \in Nat
  <2>1. Fault /\ Error /\ UNCHANGED <<edits, drifts>>
    BY DEF CallFails, ReplyLost, Restart
  <2>2. faults' \in Nat
    BY <2>1 DEF Fault, Inv, LocalOK
  <2> QED
    BY <2>1, <2>2 DEF Error, Inv, LocalOK
<1>2. CASE CallFails
  BY <1>1, <1>2, ReturnInv DEF CallFails, Inv, LocalOK, FeedOK
<1>3. CASE ReplyLost
  <2>1. FeedOK' /\ fresh' \in BOOLEAN
    BY <1>3, WorkerWriteFeed DEF ReplyLost, Inv, LocalOK
  <2> QED
    BY <1>1, <1>3, <2>1, ReturnInv DEF ReplyLost, Inv, LocalOK
<1>4. CASE Restart
  <2>1. Last(spec) \in Specs
    BY FeedEnds DEF Inv, LocalOK
  <2>2. spec' \in Seq(Specs) /\ Len(spec') > 0
    BY <1>4, <2>1 DEF Restart
  <2>3. FeedOK'
    <3>1. ASSUME NEW t \in Types
          PROVE  /\ <<Last(feed[t])>> \in Seq([Keys -> Obj])
                 /\ Len(<<Last(feed[t])>>) > 0
      <4>1. Last(feed[t]) \in [Keys -> Obj]
        BY FeedEnds DEF Inv, FeedOK
      <4> QED
        BY <4>1
    <3> QED
      BY <1>4, <3>1 DEF Restart, FeedOK
  <2> QED
    BY <1>1, <1>4, <2>2, <2>3, ReturnInv DEF Restart, Inv
<1> QED
  BY <1>2, <1>3, <1>4

LEMMA NextInv ==
  ASSUME Inv, [Next]_vars
  PROVE  Inv'
<1>1. CASE EndPass
  BY <1>1, ReturnInv DEF EndPass, Finish, budget, Inv, LocalOK, FeedOK
<1>2. CASE UNCHANGED vars
  BY <1>2 DEF vars, local, budget, Inv, LocalOK, FeedOK, PassInv, InTemplates,
              Enabled
<1>3. CASE Work
  BY <1>1, <1>3, StartInv, GetLiveInv, TrackInv, PruneInv, WriteStepsInv DEF Work
<1> QED
  BY <1>2, <1>3, EnvInv, SyncInv, FaultInv DEF Next

LEMMA NextPassOK ==
  ASSUME PassOK, [Next]_vars
  PROVE  PassOK'
<1>1. CASE Return
  BY <1>1 DEF Return, PassOK
<1>2. CASE UNCHANGED <<local, seenTypes>>
  BY <1>2 DEF local, PassOK
<1>3. CASE Pop \/ Start \/ Skip
  BY <1>3 DEF Pop, Start, Skip, NotManaged, PassOK
<1>4. ASSUME NEW k \in Keys, GetLive(k) PROVE PassOK'
  <2>1. pc' \in {"create", "modify", "track"} => snap.mode[k] = "enabled"
    BY <1>4 DEF GetLive, Decide
  <2> QED
    BY <1>4, <2>1 DEF GetLive, PassOK
<1>5. CASE Track
  BY <1>5 DEF Track, TrackNew, PassOK
<1>6. CASE StartPrune \/ PruneNext \/ \E t \in Types : PruneList(t)
  BY <1>6 DEF StartPrune, PruneNext, PruneList, PassOK
<1>7. CASE Create \/ Modify \/ RemoveDisabled
  <2>1. \/ Return
        \/ /\ UNCHANGED <<snap, cur, managed, seenTypes>>
           /\ \/ pc' = "template"
              \/ pc' = "track" /\ pc \in {"create", "modify"}
    BY <1>7 DEF Create, Modify, RemoveDisabled, Error, Written, NotManaged
  <2> QED
    BY <1>1, <2>1 DEF PassOK
<1>8. ASSUME NEW k \in Keys, PruneDelete(k) PROVE PassOK' \/ Return
  BY <1>8 DEF PruneDelete, Error, PassOK
<1> QED
  BY <1>1, <1>2, <1>3, <1>4, <1>5, <1>6, <1>7, <1>8
     DEF Next, vars, Env, UserEdit, Drift, Reap, Sync, SpecSync, TypeSync, Work,
         EndPass, Finish, CallFails, ReplyLost, Restart, Error

---------------------------------------------------------------------------
(* Theorems *)

THEOREM Invariance == Spec => []Inv
BY InitInv, NextInv, PTL DEF Spec

\* The variables keep their types: in particular no cache and no feed is ever
\* empty, so that every read returns a version that the API server had.  And
\* every reference a pass returns is of an enabled template and a tracked type.
THEOREM TypeCorrect == Spec => []TypeOK
<1>1. Init => PassOK
  BY DEF Init, PassOK
<1>2. Inv /\ PassOK => TypeOK
  BY TypeOKParts DEF Inv
<1> QED
  BY <1>1, <1>2, NextPassOK, Invariance, PTL DEF Spec

\* The pruner never deletes a resource whose template is enabled, whatever
\* was read from stale caches and whichever calls failed before.
THEOREM PrunerKeepsEnabled == Spec => []PruneKeepsEnabled
<1>1. Inv => PruneKeepsEnabled
  <2>1. SUFFICES ASSUME Inv, NEW k \in toDelete
                 PROVE  snap.mode[k] # "enabled"
    BY DEF PruneKeepsEnabled
  <2>2. pc = "delete" /\ k \in Keys \ managed
    BY <2>1 DEF Inv, PassInv
  <2> QED
    BY <2>1, <2>2 DEF Inv, PassInv, Enabled
<1> QED
  BY <1>1, Invariance, PTL

\* Every step of the pass, its faults included, does to the tracker what one
\* of TrackedTypes does, which TypeTracker implements with many workers.
THEOREM Implements == Spec => KeepsPromise
<1>1. Init => Promise!Init
  BY DEF Init, Promise!Init
<1>2. ASSUME Inv, [Next]_vars
      PROVE  [Promise!Next]_<<seenTypes, IF DynamicWatches THEN seenTypes ELSE {}>>
  <2>1. CASE seenTypes' = seenTypes
    BY <2>1
  <2>2. CASE Track
    <3>1. seenTypes' = seenTypes \union {TypeOf[cur]}
      BY <2>2 DEF Track, TrackNew
    <3>2. TypeOf[cur] \in Types
      BY <1>2, OwnedResourcesAssumption DEF Inv, LocalOK
    <3>3. Promise!WatchAndTrack(TypeOf[cur])
      BY <3>1 DEF Promise!WatchAndTrack
    <3> QED
      BY <3>2, <3>3 DEF Promise!Next
  <2>3. CASE Restart
    BY <2>3 DEF Restart, Promise!Next, Promise!Forget
  <2>4. CASE Work /\ ~Track
    BY <2>1, <2>4
       DEF Work, Pop, Start, GetLive, Skip, Create, Modify, RemoveDisabled,
           StartPrune, EndPass, PruneList, PruneDelete, PruneNext
  <2> QED
    BY <1>2, <2>1, <2>2, <2>3, <2>4
       DEF Next, vars, Env, UserEdit, Drift, Reap, Sync, SpecSync, TypeSync,
           CallFails, ReplyLost
<1> QED
  BY <1>1, <1>2, Invariance, PTL DEF Spec, KeepsPromise, Promise!Spec

---------------------------------------------------------------------------
(***************************************************************************)
(* OwnedResources loses no wakeup, for any set of resources, types and     *)
(* requests, and any number of edits, drifts and faults, as long as the    *)
(* types are watched and nobody else creates a resource under the name of  *)
(* a template (EnqueueRequestForOwner sees the CR's resources only).       *)
(*                                                                         *)
(* The argument goes resource by resource.  What a pass decided on a       *)
(* cached version is right, unless another pass is bound to come: the key  *)
(* is queued, or will be when this pass ends, or a version of the CR or of *)
(* a watched type is on its way whose event will queue it.                 *)
(***************************************************************************)
(* The inductive invariant *)

Seen(k) == TypeOf[k] \in seenTypes

\* Another pass is bound to come, as far as k is concerned.
Pending(k) ==
  \/ queued \/ requeue \/ Len(spec) > 1
  \/ Seen(k) /\ ~Quiet(k)

\* The pass has dealt with k.
Dealt(k) ==
  \/ pc = "idle"
  \/ InTemplates /\ k \notin todo /\ snap.mode[k] # "absent"
  \/ /\ pc \in {"prune", "delete"}
     /\ snap.mode[k] = "absent" => TypeOf[k] \notin toPrune /\ k \notin toDelete

Gone(o) == o = NoObj \/ o.deleting

\* What it leaves behind.
Done(k) ==
  /\ snap.mode[k] = "enabled" => Api(k).val = snap.val /\ Seen(k)
  /\ snap.mode[k] = "disabled" /\ Seen(k) => Gone(Api(k))
  /\ snap.mode[k] = "absent" /\ snap.prune /\ Seen(k) => Gone(Api(k))

\* The resources are those of the CR.
OwnedObj == {o \in Obj : o = NoObj \/ o.owned}
OwnedFeed == feed \in [Types -> Seq([Keys -> OwnedObj])]

\* Where the pass is.
AtTemplate ==
  /\ pc \in {"create", "modify", "remove", "skip", "track"} => cur \in todo
  /\ pc \in {"create", "modify", "track"} => snap.mode[cur] = "enabled"
  /\ pc \in {"remove", "skip"} => snap.mode[cur] = "disabled"
  /\ InTemplates => \A k \in todo : snap.mode[k] # "absent"
  /\ pc \notin {"idle", "start"} => \A k \in managed : snap.mode[k] # "absent"
  /\ pc = "idle" => ~requeue

\* What it knows of the resource of the template at hand.
AtHand ==
  \A k \in Keys : k = cur =>
    /\ pc = "track" /\ Seen(k) /\ ~Pending(k) => Api(k).val = snap.val
    /\ pc = "skip" /\ Seen(k) /\ ~Pending(k) => Api(k) = NoObj
    /\ pc = "modify" /\ fresh => Exists(Api(k))

Current == pc # "start" => queued \/ Len(spec) > 1 \/ snap = Last(spec)

DoneInv == \A k \in Keys : Dealt(k) /\ ~Pending(k) => Done(k)

WakeInv == Inv /\ OwnedFeed /\ AtTemplate /\ AtHand /\ Current /\ DoneInv

---------------------------------------------------------------------------
(* Versions *)

LEMMA AppendQuiet ==
  ASSUME NEW O, NEW s \in Seq([Keys -> O]), s # <<>>, NEW n \in [Keys -> O],
         NEW k \in Keys
  PROVE  /\ n[k] # Last(s)[k] => ~QuietIn(Append(s, n), k)
         /\ n[k] = Last(s)[k] => (QuietIn(Append(s, n), k) <=> QuietIn(s, k))
<1> DEFINE a == Append(s, n)
<1>1. Len(s) > 0 /\ Len(s) \in Nat /\ Last(s) = s[Len(s)]
  BY SeqEnds DEF Last
<1>2. /\ DOMAIN s = 1..Len(s) /\ DOMAIN a = 1..(Len(s) + 1)
      /\ \A i \in 1..Len(s) : a[i] = s[i]
      /\ a[Len(s) + 1] = n /\ Last(a) = n
  BY AppendEnds
<1> HIDE DEF a
<1>3. ASSUME n[k] # Last(s)[k] PROVE ~QuietIn(a, k)
  <2>1. Len(s) \in DOMAIN a /\ a[Len(s)] = Last(s)
    BY <1>1, <1>2
  <2> QED
    BY <1>2, <1>3, <2>1 DEF QuietIn
<1>4. ASSUME n[k] = Last(s)[k] PROVE QuietIn(a, k) <=> QuietIn(s, k)
  <2>1. ASSUME QuietIn(a, k), NEW i \in DOMAIN s PROVE s[i][k] = Last(s)[k]
    <3>1. i \in DOMAIN a /\ a[i] = s[i]
      BY <1>1, <1>2
    <3> QED
      BY <1>2, <1>4, <2>1, <3>1 DEF QuietIn
  <2>2. ASSUME QuietIn(s, k), NEW i \in DOMAIN a PROVE a[i][k] = Last(a)[k]
    <3>1. CASE i = Len(s) + 1
      BY <1>2, <3>1
    <3>2. CASE i # Len(s) + 1
      <4>1. i \in DOMAIN s /\ a[i] = s[i]
        BY <1>1, <1>2, <3>2
      <4> QED
        BY <1>2, <1>4, <2>2, <4>1 DEF QuietIn
    <3> QED
      BY <3>1, <3>2
  <2> QED
    BY <2>1, <2>2 DEF QuietIn
<1> QED
  BY <1>3, <1>4 DEF a

\* The cache catches up with a change, or it is still on its way.
LEMMA TailQuiet ==
  ASSUME NEW S, NEW s \in Seq(S), Len(s) > 1, NEW k,
         QuietIn(Tail(s), k), s[1][k] = s[2][k]
  PROVE  QuietIn(s, k)
<1> DEFINE t == Tail(s)
<1>1. /\ Len(s) \in Nat /\ DOMAIN s = 1..Len(s) /\ DOMAIN t = 1..(Len(s) - 1)
      /\ \A i \in 1..(Len(s) - 1) : t[i] = s[i + 1]
      /\ Last(t) = Last(s)
  BY TailEnds
<1> HIDE DEF t
<1>2. QuietIn(t, k)
  BY DEF t
<1>3. ASSUME NEW i \in DOMAIN s, i # 1 PROVE s[i][k] = Last(s)[k]
  <2>1. i - 1 \in DOMAIN t /\ t[i - 1] = s[i]
    BY <1>1, <1>3
  <2> QED
    BY <1>1, <1>2, <2>1 DEF QuietIn
<1>4. s[2][k] = Last(s)[k]
  <2>1. 2 \in DOMAIN s
    BY <1>1
  <2> QED
    BY <1>3, <2>1
<1> QED
  BY <1>3, <1>4 DEF QuietIn

LEMMA QuietEnds ==
  ASSUME FeedOK, NEW k \in Keys
  PROVE  Quiet(k) => Cached(k) = Api(k)
<1> DEFINE s == feed[TypeOf[k]]
<1>1. s \in Seq([Keys -> Obj]) /\ Len(s) > 0
  BY OwnedResourcesAssumption DEF FeedOK
<1>2. Head(s) = s[1] /\ 1 \in DOMAIN s
  BY <1>1
<1>3. Quiet(k) => s[1][k] = Last(s)[k]
  BY <1>2 DEF Quiet, QuietIn
<1> QED
  BY <1>2, <1>3 DEF Cached, Api

\* A write of k is on its way, and leaves the others alone.
LEMMA WriteIs ==
  ASSUME FeedOK, OwnedFeed, fresh \in BOOLEAN,
         NEW k \in Keys, NEW o \in OwnedObj, Write(k, o)
  PROVE  /\ OwnedFeed' /\ Api(k)' = o
         /\ o # Api(k) => ~Quiet(k)' /\ ~(fresh' /\ k = cur)
         /\ o = Api(k) => UNCHANGED <<feed, fresh>>
         /\ fresh' => fresh
         /\ \A j \in Keys \ {k} : Api(j)' = Api(j) /\ (Quiet(j)' <=> Quiet(j))
<1>1. CASE o = Api(k)
  BY <1>1 DEF Write, OwnedFeed, Api, Quiet
<1>2. CASE o # Api(k)
  <2> DEFINE u == TypeOf[k]
             s == feed[u]
             n == [Last(s) EXCEPT ![k] = o]
  <2>1. /\ feed' = [feed EXCEPT ![u] = Append(s, n)]
        /\ fresh' = (fresh /\ k # cur)
    BY <1>2 DEF Write
  <2>2. u \in Types /\ \A j \in Keys : TypeOf[j] \in Types
    BY OwnedResourcesAssumption
  <2>3. s \in Seq([Keys -> OwnedObj]) /\ Len(s) > 0
    BY <2>2 DEF OwnedFeed, FeedOK
  <2>4. s # <<>>
    BY <2>3
  <2>5. Last(s) \in [Keys -> OwnedObj]
    BY <2>3, <2>4, SeqEnds
  <2>6. /\ n \in [Keys -> OwnedObj] /\ n[k] = o
        /\ \A j \in Keys \ {k} : n[j] = Last(s)[j]
    BY <2>5
  <2>7. Api(k) = Last(s)[k]
    BY DEF Api
  <2> HIDE DEF n
  <2>8. /\ Append(s, n) \in Seq([Keys -> OwnedObj])
        /\ Last(Append(s, n)) = n
    BY <2>3, <2>6, AppendEnds
  <2>9. /\ feed'[u] = Append(s, n)
        /\ \A t \in Types \ {u} : feed'[t] = feed[t]
        /\ OwnedFeed'
    BY <2>1, <2>2, <2>8 DEF OwnedFeed
  <2>10. Api(k)' = o
    BY <2>6, <2>8, <2>9 DEF Api
  <2>11. ~Quiet(k)'
    <3>1. ~QuietIn(Append(s, n), k)
      BY <1>2, <2>3, <2>4, <2>6, <2>7, AppendQuiet
    <3> QED
      BY <2>9, <3>1 DEF Quiet
  <2>12. ASSUME NEW j \in Keys \ {k}
         PROVE  Api(j)' = Api(j) /\ (Quiet(j)' <=> Quiet(j))
    <3>1. CASE TypeOf[j] = u
      <4>1. QuietIn(Append(s, n), j) <=> QuietIn(s, j)
        BY <2>3, <2>4, <2>6, AppendQuiet
      <4>2. Quiet(j)' <=> Quiet(j)
        BY <2>9, <3>1, <4>1 DEF Quiet
      <4> QED
        BY <2>6, <2>8, <2>9, <3>1, <4>2 DEF Api
    <3>2. CASE TypeOf[j] # u
      BY <2>2, <2>9, <3>2 DEF Api, Quiet
    <3> QED
      BY <3>1, <3>2
  <2> QED
    BY <1>2, <2>1, <2>9, <2>10, <2>11, <2>12
<1> QED
  BY <1>1, <1>2

\* A delete of a resource of the CR removes it, or marks it.
LEMMA DeleteIs ==
  ASSUME FeedOK, OwnedFeed, NEW k \in Keys, Exists(Api(k)), Delete(k)
  PROVE  \E o \in OwnedObj : Write(k, o) /\ Gone(o)
<1>1. Api(k) \in Obj
  BY ApiIsObj
<1>2. Api(k).owned
  <2>1. TypeOf[k] \in Types
    BY OwnedResourcesAssumption
  <2>2. feed[TypeOf[k]] \in Seq([Keys -> OwnedObj]) /\ feed[TypeOf[k]] # <<>>
    BY <2>1 DEF OwnedFeed, FeedOK
  <2>3. Last(feed[TypeOf[k]]) \in [Keys -> OwnedObj]
    BY <2>2, SeqEnds
  <2> QED
    BY <2>3 DEF Api, OwnedObj, Exists
<1>3. CASE Write(k, NoObj)
  <2>1. NoObj \in OwnedObj
    BY DEF OwnedObj, NoObj, Obj
  <2> QED
    BY <1>3, <2>1 DEF Gone
<1>4. CASE Write(k, [Api(k) EXCEPT !.deleting = TRUE])
  <2> DEFINE o == [Api(k) EXCEPT !.deleting = TRUE]
  <2>1. o \in Obj /\ o.owned = Api(k).owned /\ o.deleting = TRUE
    BY <1>1 DEF Obj
  <2> HIDE DEF o
  <2>2. o \in OwnedObj /\ Gone(o)
    BY <1>2, <2>1 DEF OwnedObj, Gone
  <2>3. Write(k, o)
    BY <1>4 DEF o
  <2> QED
    BY <2>2, <2>3
<1> QED
  BY <1>3, <1>4 DEF Delete

LEMMA ApiIsOwned ==
  ASSUME FeedOK, OwnedFeed, NEW k \in Keys
  PROVE  Api(k) \in OwnedObj
<1>1. TypeOf[k] \in Types
  BY OwnedResourcesAssumption
<1>2. feed[TypeOf[k]] \in Seq([Keys -> OwnedObj]) /\ feed[TypeOf[k]] # <<>>
  BY <1>1 DEF OwnedFeed, FeedOK
<1>3. Last(feed[TypeOf[k]]) \in [Keys -> OwnedObj]
  BY <1>2, SeqEnds
<1> QED
  BY <1>3 DEF Api

\* New contents of a resource of the CR.
LEMMA NewContent ==
  ASSUME FeedOK, OwnedFeed, NEW k \in Keys, NEW v \in Vals, Exists(Api(k))
  PROVE  /\ [Api(k) EXCEPT !.val = v] \in OwnedObj
         /\ [Api(k) EXCEPT !.val = v].val = v
         /\ Exists([Api(k) EXCEPT !.val = v])
<1>1. Api(k) \in Obj /\ Api(k).owned
  BY ApiIsOwned DEF OwnedObj, Exists
<1>2. v # NoVal /\ NoObj.val = NoVal
  BY OwnedResourcesAssumption DEF NoObj
<1> DEFINE o == [Api(k) EXCEPT !.val = v]
<1>3. o \in Obj /\ o.val = v /\ o.owned = Api(k).owned
  BY <1>1 DEF Obj
<1> HIDE DEF o
<1>4. o \in OwnedObj /\ o.val = v /\ Exists(o)
  BY <1>1, <1>2, <1>3 DEF OwnedObj, Exists
<1> QED
  BY <1>4 DEF o

\* A watched change of a resource of the CR queues the key.
LEMMA TypeSyncIs ==
  ASSUME FeedOK, OwnedFeed, DynamicWatches,
         NEW t \in Types, TypeSync(t), NEW k \in Keys
  PROVE  /\ OwnedFeed' /\ Api(k)' = Api(k)
         /\ Seen(k) /\ ~Quiet(k) => queued' \/ ~Quiet(k)'
         /\ queued => queued'
<1> DEFINE s == feed[t]
<1>1. s \in Seq([Keys -> OwnedObj]) /\ Len(s) > 1
  BY DEF OwnedFeed, TypeSync
<1>2. /\ feed' = [feed EXCEPT ![t] = Tail(s)]
      /\ queued' = (queued \/ Raises(t, s[1], s[2]))
  BY DEF TypeSync
<1>3. Tail(s) \in Seq([Keys -> OwnedObj]) /\ Last(Tail(s)) = Last(s)
  BY <1>1, TailEnds
<1>4. /\ feed'[t] = Tail(s) /\ \A u \in Types \ {t} : feed'[u] = feed[u]
      /\ OwnedFeed'
  BY <1>2, <1>3 DEF OwnedFeed
<1>5. TypeOf[k] \in Types
  BY OwnedResourcesAssumption
<1>6. CASE TypeOf[k] # t
  BY <1>2, <1>4, <1>5, <1>6 DEF Api, Quiet
<1>7. CASE TypeOf[k] = t
  <2>1. Api(k)' = Api(k)
    BY <1>3, <1>4, <1>7 DEF Api
  <2>2. ASSUME Seen(k), ~Quiet(k), Quiet(k)' PROVE Raises(t, s[1], s[2])
    <3>1. QuietIn(Tail(s), k)
      BY <1>4, <1>7, <2>2 DEF Quiet
    <3>2. s[1][k] # s[2][k]
      BY <1>1, <1>7, <2>2, <3>1, TailQuiet DEF Quiet
    <3>3. s[1][k] \in OwnedObj /\ s[2][k] \in OwnedObj
      <4>1. s[1] \in [Keys -> OwnedObj] /\ s[2] \in [Keys -> OwnedObj]
        BY <1>1
      <4> QED
        BY <4>1
    <3>4. s[1][k].owned \/ s[2][k].owned
      BY <3>2, <3>3 DEF OwnedObj
    <3> QED
      BY <1>7, <2>2, <3>2, <3>4 DEF Raises, KeysOf, Seen
  <2> QED
    BY <1>2, <1>4, <2>1, <2>2
<1> QED
  BY <1>6, <1>7

---------------------------------------------------------------------------
(* Steps that leave the worker alone *)

LEMMA LocalStays ==
  ASSUME WakeInv, Inv', OwnedFeed', UNCHANGED <<local, seenTypes>>,
         Current',
         \A k \in Keys : /\ Pending(k) => Pending(k)'
                         /\ Api(k)' = Api(k) \/ (Seen(k) => Pending(k)')
                         /\ k = cur /\ pc = "modify" /\ fresh' =>
                              fresh /\ Api(k)' = Api(k)
  PROVE  WakeInv'
<1>1. UNCHANGED <<pc, snap, todo, cur, managed, requeue, toPrune, toDelete,
                  seenTypes>>
  BY DEF local
<1>2. AtTemplate'
  BY <1>1 DEF WakeInv, AtTemplate, InTemplates
<1>4. \A k \in Keys : Seen(k)' = Seen(k)
  BY <1>1 DEF Seen
<1>5. AtHand'
  <2> SUFFICES ASSUME NEW k \in Keys, k = cur
               PROVE  /\ pc = "track" /\ Seen(k) /\ ~Pending(k)' =>
                           Api(k)'.val = snap.val
                      /\ pc = "skip" /\ Seen(k) /\ ~Pending(k)' =>
                           Api(k)' = NoObj
                      /\ pc = "modify" /\ fresh' => Exists(Api(k)')
    BY <1>1, <1>4 DEF AtHand, Exists
  <2>1. /\ pc = "track" /\ Seen(k) /\ ~Pending(k) => Api(k).val = snap.val
        /\ pc = "skip" /\ Seen(k) /\ ~Pending(k) => Api(k) = NoObj
        /\ pc = "modify" /\ fresh => Exists(Api(k))
    BY DEF WakeInv, AtHand
  <2> QED
    BY <2>1
<1>6. DoneInv'
  <2> SUFFICES ASSUME NEW k \in Keys, Dealt(k)', ~Pending(k)'
               PROVE  Done(k)'
    BY DEF DoneInv
  <2>1. Dealt(k)
    BY <1>1 DEF Dealt, InTemplates
  <2>2. Done(k)
    BY <2>1 DEF WakeInv, DoneInv
  <2>3. CASE Api(k)' = Api(k)
    BY <1>1, <1>4, <2>2, <2>3 DEF Done
  <2>4. CASE ~Seen(k)
    BY <1>1, <1>4, <2>2, <2>4 DEF Done
  <2> QED
    BY <2>3, <2>4
<1> QED
  BY <1>2, <1>5, <1>6 DEF WakeInv


LEMMA EnvWriteWake ==
  ASSUME WakeInv, Inv', NEW k \in Keys, NEW o \in OwnedObj, Write(k, o),
         UNCHANGED <<spec, queued, local, seenTypes>>
  PROVE  WakeInv'
<1>1. FeedOK /\ OwnedFeed /\ fresh \in BOOLEAN
  BY DEF WakeInv, Inv
<1>2. UNCHANGED <<pc, snap, cur, requeue, spec, queued, seenTypes>>
  BY DEF local
<1>3. /\ OwnedFeed' /\ Api(k)' = o
      /\ o # Api(k) => ~Quiet(k)' /\ ~(fresh' /\ k = cur)
      /\ o = Api(k) => UNCHANGED <<feed, fresh>>
      /\ fresh' => fresh
      /\ \A j \in Keys \ {k} : Api(j)' = Api(j) /\ (Quiet(j)' <=> Quiet(j))
  BY <1>1, WriteIs
<1>4. Current'
  BY <1>2 DEF WakeInv, Current
<1>5. \A j \in Keys : Seen(j)' = Seen(j)
  BY <1>2 DEF Seen
<1>6. o = Api(k) => (Quiet(k)' <=> Quiet(k))
  BY <1>3 DEF Quiet
<1>7. ASSUME NEW j \in Keys
      PROVE  /\ Pending(j) => Pending(j)'
             /\ Api(j)' = Api(j) \/ (Seen(j) => Pending(j)')
             /\ j = cur /\ pc = "modify" /\ fresh' =>
                  fresh /\ Api(j)' = Api(j)
  BY <1>2, <1>3, <1>5, <1>6 DEF Pending
<1> QED
  BY <1>3, <1>4, <1>7, LocalStays

LEMMA EnvWake ==
  ASSUME WakeInv, Inv', ~Foreign, Env
  PROVE  WakeInv'
<1>1. FeedOK /\ OwnedFeed /\ spec \in Seq(Specs) /\ Len(spec) > 0
  BY DEF WakeInv, Inv, LocalOK
<1>2. CASE UserEdit
  <2>1. Len(spec') > 1
    BY <1>1, <1>2 DEF UserEdit
  <2>2. UNCHANGED <<feed, fresh, local, seenTypes>>
    BY <1>2 DEF UserEdit
  <2>3. /\ OwnedFeed' /\ Current'
        /\ \A k \in Keys : Pending(k)' /\ Api(k)' = Api(k)
    BY <1>1, <2>1, <2>2 DEF OwnedFeed, Current, Pending, Api
  <2> QED
    BY <2>2, <2>3, LocalStays
<1>3. ASSUME NEW k \in Keys, Drift(k) \/ Reap(k)
      PROVE  WakeInv'
  <2>1. UNCHANGED <<spec, queued, local, seenTypes>>
    BY <1>3 DEF Drift, Reap, budget
  <2>2. CASE Exists(Api(k)) /\ Delete(k)
    BY <1>1, <2>1, <2>2, DeleteIs, EnvWriteWake
  <2>3. CASE Exists(Api(k)) /\ \E v \in Vals : Write(k, [Api(k) EXCEPT !.val = v])
    BY <1>1, <2>1, <2>3, NewContent, EnvWriteWake
  <2>4. CASE Write(k, NoObj)
    <3>1. NoObj \in OwnedObj
      BY DEF OwnedObj, NoObj, Obj
    <3> QED
      BY <2>1, <2>4, <3>1, EnvWriteWake
  <2> QED
    BY <1>3, <2>2, <2>3, <2>4 DEF Drift, Reap
<1> QED
  BY <1>2, <1>3 DEF Env

LEMMA SyncWake ==
  ASSUME WakeInv, Inv', DynamicWatches, Sync
  PROVE  WakeInv'
<1>1. FeedOK /\ OwnedFeed
  BY DEF WakeInv, Inv
<1>2. CASE SpecSync
  <2>1. queued' /\ UNCHANGED <<feed, fresh, local, seenTypes>>
    BY <1>2 DEF SpecSync
  <2>2. /\ OwnedFeed' /\ Current'
        /\ \A k \in Keys : Pending(k)' /\ Api(k)' = Api(k)
    BY <1>1, <2>1 DEF OwnedFeed, Current, Pending, Api
  <2> QED
    BY <2>1, <2>2, LocalStays
<1>3. ASSUME NEW t \in Types, TypeSync(t)
      PROVE  WakeInv'
  <2>1. UNCHANGED <<spec, local, fresh, seenTypes>>
    BY <1>3 DEF TypeSync
  <2>2. UNCHANGED <<pc, snap, cur, requeue>>
    BY <2>1 DEF local
  <2>3. /\ OwnedFeed' /\ (queued => queued')
        /\ \A k \in Keys : /\ Api(k)' = Api(k)
                           /\ Seen(k) /\ ~Quiet(k) => queued' \/ ~Quiet(k)'
    <3>1. OwnedFeed' /\ (queued => queued')
      <4>1. cur \in Keys
        BY DEF WakeInv, Inv, LocalOK
      <4> QED
        BY <1>1, <1>3, <4>1, TypeSyncIs
    <3> QED
      BY <1>1, <1>3, <3>1, TypeSyncIs
  <2>4. Current'
    BY <2>1, <2>2, <2>3 DEF WakeInv, Current
  <2>5. \A k \in Keys : Pending(k) => Pending(k)'
    BY <2>1, <2>2, <2>3 DEF Pending, Seen
  <2> QED
    BY <2>1, <2>3, <2>4, <2>5, LocalStays
<1> QED
  BY <1>2, <1>3 DEF Sync

---------------------------------------------------------------------------
(* The end of a pass, and its beginning *)

\* With the key queued, whatever the pass left behind is for the next one.
LEMMA ErrorWake ==
  ASSUME Inv', OwnedFeed', Error
  PROVE  WakeInv'
<1>1. queued' /\ pc' = "idle" /\ requeue' = FALSE
  BY DEF Error, Return
<1>2. \A k \in Keys : Pending(k)'
  BY <1>1 DEF Pending
<1> QED
  BY <1>1, <1>2
     DEF WakeInv, AtTemplate, AtHand, Current, DoneInv, InTemplates

LEMMA BeginWake ==
  ASSUME WakeInv, Inv', Pop \/ Start
  PROVE  WakeInv'
<1>1. OwnedFeed'
  BY DEF WakeInv, OwnedFeed, Pop, Start
<1>2. CASE Pop
  <2>1. pc' = "start"
    BY <1>2 DEF Pop
  <2> QED
    BY <1>1, <2>1 DEF WakeInv, AtTemplate, AtHand, Current, DoneInv, Dealt,
                      InTemplates
<1>3. CASE Start
  <2>1. /\ pc' = "template" /\ snap' = Head(spec) /\ spec' = spec
        /\ todo' = {k \in Keys : snap'.mode[k] # "absent"} /\ managed' = {}
    BY <1>3 DEF Start
  <2>2. spec \in Seq(Specs) /\ Len(spec) > 0
    BY DEF WakeInv, Inv, LocalOK
  <2>3. Len(spec) = 1 => Head(spec) = Last(spec)
    BY <2>2 DEF Last
  <2>4. Current'
    <3>1. Len(spec) = 1 \/ Len(spec) > 1
      <4>1. Len(spec) \in Nat
        BY <2>2
      <4> QED
        BY <2>2, <4>1
    <3>2. Len(spec') > 1 \/ snap' = Last(spec')
      BY <2>1, <2>3, <3>1
    <3> QED
      BY <3>2 DEF Current
  <2>5. \A k \in Keys : ~Dealt(k)'
    BY <2>1 DEF Dealt, InTemplates
  <2>6. AtTemplate' /\ AtHand' /\ DoneInv'
    BY <2>1, <2>5 DEF AtTemplate, AtHand, DoneInv
  <2> QED
    BY <1>1, <2>4, <2>6 DEF WakeInv
<1> QED
  BY <1>2, <1>3

\* All that the pass has not dealt with is nothing of its business.
LEMMA EndWake ==
  ASSUME WakeInv, Inv', EndPass
  PROVE  WakeInv'
<1>1. /\ pc' = "idle" /\ requeue' = FALSE /\ queued' = (queued \/ requeue)
      /\ UNCHANGED <<snap, cur, spec, feed, seenTypes>>
      /\ pc # "start"
  BY DEF EndPass, Finish, Return, AllTemplatesDone
<1>2. OwnedFeed' /\ Current'
  BY <1>1 DEF WakeInv, OwnedFeed, Current
<1>3. ASSUME NEW k \in Keys, ~Pending(k)' PROVE Done(k)'
  <2>1. ~Pending(k)
    BY <1>1, <1>3 DEF Pending, Seen, Quiet
  <2>2. Dealt(k) \/ (snap.mode[k] = "absent" /\ ~snap.prune)
    <3>1. CASE AllTemplatesDone /\ ~snap.prune
      BY <3>1 DEF AllTemplatesDone, Dealt, InTemplates
    <3>2. CASE pc = "prune" /\ toPrune = {}
      <4>1. toDelete = {}
        BY <3>2 DEF WakeInv, Inv, PassInv
      <4> QED
        BY <3>2, <4>1 DEF Dealt
    <3> QED
      BY <3>1, <3>2 DEF EndPass
  <2>3. Done(k)
    BY <2>1, <2>2 DEF WakeInv, DoneInv, Done
  <2> QED
    BY <1>1, <2>3 DEF Done, Seen, Api
<1> QED
  BY <1>1, <1>2, <1>3
     DEF WakeInv, AtTemplate, AtHand, DoneInv, InTemplates

---------------------------------------------------------------------------
(* The steps of a pass *)

\* The worker goes on with the same version of the CR.
Within == UNCHANGED <<snap, spec, queued, seenTypes>>

LEMMA WithinIs ==
  ASSUME WakeInv, Within, requeue' = requeue, pc # "start"
  PROVE  /\ Current'
         /\ \A k \in Keys :
              /\ Seen(k)' = Seen(k)
              /\ Quiet(k)' = Quiet(k) => Pending(k)' = Pending(k)
              /\ Api(k)' = Api(k) => Done(k)' = Done(k)
              /\ feed' = feed => Api(k)' = Api(k) /\ Quiet(k)' = Quiet(k)
<1>1. Current'
  BY DEF WakeInv, Current, Within
<1> QED
  BY <1>1 DEF Within, Seen, Quiet, Pending, Done, Api

\* A write of the worker on k, after which it is as the pass wants it.
LEMMA WithinWrite ==
  ASSUME WakeInv, Within, requeue' = requeue, pc # "start",
         NEW k \in Keys, NEW o \in OwnedObj, Write(k, o)
  PROVE  /\ OwnedFeed' /\ Api(k)' = o
         /\ \A j \in Keys \ {k} :
              Pending(j)' = Pending(j) /\ Done(j)' = Done(j)
<1>1. FeedOK /\ OwnedFeed /\ fresh \in BOOLEAN
  BY DEF WakeInv, Inv
<1>2. /\ OwnedFeed' /\ Api(k)' = o
      /\ \A j \in Keys \ {k} : Api(j)' = Api(j) /\ (Quiet(j)' <=> Quiet(j))
  BY <1>1, WriteIs
<1>3. \A j \in Keys \ {k} : Quiet(j)' = Quiet(j)
  BY <1>2 DEF Quiet, QuietIn
<1> QED
  BY <1>2, <1>3, WithinIs

\* What the cache has of k is what the API server has, or another pass comes.
LEMMA GetLiveWake ==
  ASSUME WakeInv, Inv', NEW k \in Keys, GetLive(k)
  PROVE  WakeInv'
<1>1. /\ Within /\ pc = "template" /\ k \in todo /\ cur' = k
      /\ UNCHANGED <<feed, todo, managed, requeue, toPrune, toDelete>>
      /\ fresh' = Quiet(k) /\ pc' = Decide(k)
  BY DEF GetLive, Within
<1>2. /\ Current'
      /\ \A j \in Keys : /\ Seen(j)' = Seen(j) /\ Pending(j)' = Pending(j)
                         /\ Api(j)' = Api(j) /\ Done(j)' = Done(j)
  BY <1>1, WithinIs
<1>3. snap.mode[k] \in Mode /\ snap.mode[k] # "absent"
  <2>1. snap.mode \in [Keys -> Mode]
    BY OwnedResourcesAssumption DEF WakeInv, Inv, LocalOK, Spec_
  <2>2. snap.mode[k] # "absent"
    BY <1>1 DEF WakeInv, AtTemplate, InTemplates
  <2> QED
    BY <2>1, <2>2
<1>4. /\ pc' \in {"create", "modify", "remove", "skip", "track"}
      /\ pc' \in {"create", "modify", "track"} => snap.mode[k] = "enabled"
      /\ pc' \in {"remove", "skip"} => snap.mode[k] = "disabled"
      /\ pc' = "track" => Cached(k).val = snap.val
      /\ pc' = "skip" => Cached(k) = NoObj
      /\ pc' = "modify" => Exists(Cached(k))
  BY <1>1, <1>3 DEF Decide, Mode, Exists
<1>5. /\ Seen(k) /\ ~Pending(k) => Cached(k) = Api(k)
      /\ fresh' => Cached(k) = Api(k)
  BY <1>1, QuietEnds DEF WakeInv, Inv, Pending
<1>6. AtHand'
  <2> SUFFICES ASSUME NEW j \in Keys, j = k
               PROVE  /\ pc' = "track" /\ Seen(j)' /\ ~Pending(j)' =>
                           Api(j)'.val = snap'.val
                      /\ pc' = "skip" /\ Seen(j)' /\ ~Pending(j)' =>
                           Api(j)' = NoObj
                      /\ pc' = "modify" /\ fresh' => Exists(Api(j)')
    BY <1>1 DEF AtHand, Exists
  <2> QED
    BY <1>1, <1>2, <1>4, <1>5 DEF Within
<1>7. DoneInv'
  <2>1. \A j \in Keys : Dealt(j)' => Dealt(j)
    BY <1>1, <1>4 DEF Dealt, InTemplates, Within
  <2> QED
    BY <1>2, <2>1 DEF WakeInv, DoneInv
<1>8. AtTemplate'
  BY <1>1, <1>4 DEF WakeInv, AtTemplate, InTemplates, Within
<1> QED
  BY <1>1, <1>2, <1>6, <1>7, <1>8 DEF WakeInv, OwnedFeed

\* The resource of a template that is not enabled is gone.
LEMMA NotManagedWake ==
  ASSUME WakeInv, Inv', NotManaged, pc \in {"remove", "skip"}, OwnedFeed',
         UNCHANGED <<spec, seenTypes>>,
         \A j \in Keys \ {cur} : Pending(j)' = Pending(j) /\ Done(j)' = Done(j),
         \A j \in Keys : j = cur => Pending(j)' \/ Done(j)'
  PROVE  WakeInv'
<1>1. /\ Within /\ pc' = "template" /\ todo' = todo \ {cur}
      /\ UNCHANGED <<cur, managed, requeue, toPrune, toDelete>>
  BY DEF NotManaged, Within
<1>2. Current'
  BY <1>1, WithinIs
<1>3. AtTemplate' /\ AtHand'
  BY <1>1 DEF WakeInv, AtTemplate, AtHand, InTemplates, Within
<1>4. \A j \in Keys \ {cur} : Dealt(j)' => Dealt(j)
  BY <1>1 DEF Dealt, InTemplates, Within
<1>5. DoneInv'
  BY <1>4 DEF WakeInv, DoneInv
<1> QED
  BY <1>2, <1>3, <1>5 DEF WakeInv

LEMMA SkipWake ==
  ASSUME WakeInv, Inv', Skip
  PROVE  WakeInv'
<1>1. /\ Within /\ pc = "skip" /\ NotManaged /\ requeue' = requeue
      /\ UNCHANGED <<feed, spec, seenTypes>>
  BY DEF Skip, NotManaged, Within
<1>2. \A j \in Keys : /\ Seen(j)' = Seen(j) /\ Pending(j)' = Pending(j)
                      /\ Done(j)' = Done(j)
  BY <1>1, WithinIs
<1>3. \A j \in Keys : j = cur => Pending(j) \/ Done(j)
  BY <1>1 DEF WakeInv, AtHand, AtTemplate, Done, Gone
<1> QED
  BY <1>1, <1>2, <1>3, NotManagedWake DEF WakeInv, OwnedFeed

LEMMA RemoveWake ==
  ASSUME WakeInv, Inv', RemoveDisabled
  PROVE  WakeInv'
<1>1. CASE CanRemove(cur)
  <2>1. /\ Within /\ pc = "remove" /\ NotManaged /\ requeue' = requeue
        /\ UNCHANGED <<spec, seenTypes>> /\ Delete(cur) /\ Exists(Api(cur))
        /\ cur \in Keys /\ cur' = cur
    BY <1>1 DEF RemoveDisabled, NotManaged, Within, CanRemove, WakeInv, Inv,
                LocalOK
  <2>2. PICK o \in OwnedObj : Write(cur, o) /\ Gone(o)
    BY <2>1, DeleteIs DEF WakeInv, Inv
  <2>3. PICK k \in Keys : k = cur
    BY <2>1
  <2>4. /\ OwnedFeed' /\ Api(k)' = o
        /\ \A j \in Keys \ {k} :
             Pending(j)' = Pending(j) /\ Done(j)' = Done(j)
    BY <2>1, <2>2, <2>3, WithinWrite
  <2>5. Done(k)'
    BY <2>1, <2>2, <2>3, <2>4 DEF Done, Gone, WakeInv, AtTemplate, Within
  <2> QED
    BY <2>1, <2>3, <2>4, <2>5, NotManagedWake
<1>2. CASE ~CanRemove(cur)
  BY <1>2, ErrorWake DEF RemoveDisabled, WakeInv, OwnedFeed
<1> QED
  BY <1>1, <1>2

LEMMA WrittenWake ==
  ASSUME WakeInv, Inv', Written, pc \in {"create", "modify"},
         UNCHANGED <<spec, seenTypes>>,
         NEW o \in OwnedObj, Write(cur, o), o.val = snap.val
  PROVE  WakeInv'
<1>1. /\ Within /\ pc' = "track"
      /\ UNCHANGED <<cur, todo, managed, requeue, toPrune, toDelete>>
  BY DEF Written, Within
<1>2. PICK k \in Keys : k = cur
  BY DEF WakeInv, Inv, LocalOK
<1>3. /\ OwnedFeed' /\ Api(k)' = o
      /\ \A j \in Keys \ {k} :
           Pending(j)' = Pending(j) /\ Done(j)' = Done(j)
  BY <1>1, <1>2, WithinWrite
<1>4. Current'
  BY <1>1, WithinIs
<1>5. AtTemplate'
  BY <1>1 DEF WakeInv, AtTemplate, InTemplates, Within
<1>6. AtHand'
  BY <1>1, <1>2, <1>3 DEF AtHand, Within
<1>7. \A j \in Keys : Dealt(j)' => Dealt(j) /\ j # k
  BY <1>1, <1>2 DEF Dealt, InTemplates, WakeInv, AtTemplate, Within
<1>8. DoneInv'
  BY <1>3, <1>7 DEF WakeInv, DoneInv
<1> QED
  BY <1>3, <1>4, <1>5, <1>6, <1>8 DEF WakeInv

LEMMA WriteWake ==
  ASSUME WakeInv, Inv', Create \/ Modify
  PROVE  WakeInv'
<1>1. /\ UNCHANGED <<spec, seenTypes>> /\ cur \in Keys
      /\ FeedOK /\ OwnedFeed /\ snap.val \in Vals
  BY OwnedResourcesAssumption
     DEF Create, Modify, WakeInv, Inv, LocalOK, Spec_
<1>2. CASE Error /\ feed' = feed
  BY <1>1, <1>2, ErrorWake DEF OwnedFeed
<1>3. CASE Create /\ CanCreate
  <2>1. NewObj \in OwnedObj /\ NewObj.val = snap.val
    BY <1>1 DEF NewObj, OwnedObj, Obj
  <2> QED
    BY <1>1, <1>3, <2>1, WrittenWake DEF Create
<1>4. CASE Modify /\ CanModify
  <2>1. Exists(Api(cur))
    BY <1>1, <1>4 DEF Modify, CanModify, WakeInv, AtHand
  <2> DEFINE o == [Api(cur) EXCEPT !.val = snap.val]
  <2>2. o \in OwnedObj /\ o.val = snap.val
    BY <1>1, <2>1, NewContent
  <2>3. /\ pc = "modify" /\ Written /\ Write(cur, o)
    BY <1>4 DEF Modify
  <2> HIDE DEF o
  <2> QED
    BY <1>1, <2>2, <2>3, WrittenWake
<1> QED
  BY <1>2, <1>3, <1>4 DEF Create, Modify

\* A type that was not watched while its resource was written gets another
\* pass.
LEMMA TrackWake ==
  ASSUME WakeInv, Inv', Track
  PROVE  WakeInv'
<1>1. /\ pc = "track" /\ pc' = "template" /\ todo' = todo \ {cur}
      /\ managed' = managed \union {cur} /\ TrackNew
      /\ UNCHANGED <<spec, feed, queued, snap, cur, toPrune, toDelete>>
  BY DEF Track
<1>2. cur \in todo /\ snap.mode[cur] = "enabled"
  BY <1>1 DEF WakeInv, AtTemplate
<1>3. OwnedFeed' /\ Current'
  BY <1>1 DEF WakeInv, OwnedFeed, Current
<1>4. AtTemplate' /\ AtHand'
  BY <1>1, <1>2 DEF WakeInv, AtTemplate, AtHand, InTemplates
<1>5. CASE TypeOf[cur] \notin seenTypes
  <2>1. requeue'
    BY <1>1, <1>5 DEF TrackNew
  <2>2. \A k \in Keys : Pending(k)'
    BY <2>1 DEF Pending
  <2> QED
    BY <1>3, <1>4, <2>2 DEF WakeInv, DoneInv
<1>6. CASE TypeOf[cur] \in seenTypes
  <2>1. Within /\ requeue' = requeue
    BY <1>1, <1>6 DEF TrackNew, Within, WakeInv, Inv, LocalOK
  <2>2. \A k \in Keys : /\ Seen(k)' = Seen(k) /\ Pending(k)' = Pending(k)
                        /\ Done(k)' = Done(k)
    BY <1>1, <2>1, WithinIs
  <2>3. ASSUME NEW k \in Keys, k = cur, ~Pending(k) PROVE Done(k)
    <3>1. Seen(k) /\ Api(k).val = snap.val
      BY <1>1, <1>6, <2>3 DEF WakeInv, AtHand, Seen
    <3> QED
      BY <1>2, <2>3, <3>1 DEF Done
  <2>4. \A k \in Keys : Dealt(k)' => Dealt(k) \/ k = cur
    BY <1>1 DEF Dealt, InTemplates
  <2>5. DoneInv'
    BY <2>2, <2>3, <2>4 DEF WakeInv, DoneInv
  <2> QED
    BY <1>3, <1>4, <2>5 DEF WakeInv
<1> QED
  BY <1>5, <1>6

---------------------------------------------------------------------------
(* The pruner *)

\* A step of the pruner that leaves the resources alone.
LEMMA PrunerWake ==
  ASSUME WakeInv, Inv', Within, pc \in {"template", "prune", "delete"},
         pc' \in {"prune", "delete"},
         UNCHANGED <<feed, managed, requeue>>,
         \A k \in Keys : Dealt(k)' /\ ~Pending(k) => Dealt(k) \/ Done(k)
  PROVE  WakeInv'
<1>1. /\ Current'
      /\ \A k \in Keys : Pending(k)' = Pending(k) /\ Done(k)' = Done(k)
  BY WithinIs
<1>2. AtTemplate' /\ AtHand'
  BY DEF WakeInv, AtTemplate, AtHand, InTemplates, Within
<1>3. DoneInv'
  BY <1>1 DEF WakeInv, DoneInv
<1> QED
  BY <1>1, <1>2, <1>3 DEF WakeInv, OwnedFeed

LEMMA StartPruneWake ==
  ASSUME WakeInv, Inv', StartPrune
  PROVE  WakeInv'
<1>1. /\ Within /\ pc = "template" /\ todo = {} /\ pc' = "prune"
      /\ toPrune' = seenTypes
      /\ UNCHANGED <<feed, managed, requeue>>
  BY DEF StartPrune, AllTemplatesDone, Within
<1>2. ASSUME NEW k \in Keys, Dealt(k)' PROVE Dealt(k) \/ Done(k)
  <2>1. CASE snap.mode[k] = "absent"
    BY <1>1, <1>2, <2>1 DEF Dealt, Done, Seen, Within, InTemplates
  <2>2. CASE snap.mode[k] # "absent"
    BY <1>1, <2>2 DEF Dealt, InTemplates
  <2> QED
    BY <2>1, <2>2
<1> QED
  BY <1>1, <1>2, PrunerWake

\* What is not deleted was not there, or is being deleted, or another pass
\* comes.
LEMMA PruneListWake ==
  ASSUME WakeInv, Inv', NEW t \in Types, PruneList(t)
  PROVE  WakeInv'
<1>1. /\ Within /\ pc = "prune" /\ pc' = "delete"
      /\ toPrune' = toPrune \ {t}
      /\ toDelete' = {k \in KeysOf(t) : Orphaned(k)}
      /\ UNCHANGED <<feed, managed, requeue>>
  BY DEF PruneList, Within
<1>2. toDelete = {} /\ \A k \in managed : snap.mode[k] # "absent"
  BY <1>1 DEF WakeInv, Inv, PassInv, AtTemplate
<1>3. ASSUME NEW k \in Keys, Dealt(k)', ~Pending(k) PROVE Dealt(k) \/ Done(k)
  <2>1. CASE snap.mode[k] # "absent"
    BY <1>1, <2>1 DEF Dealt
  <2>2. CASE snap.mode[k] = "absent" /\ TypeOf[k] # t
    BY <1>1, <1>2, <1>3, <2>2 DEF Dealt, Within, InTemplates
  <2>3. CASE snap.mode[k] = "absent" /\ TypeOf[k] = t
    <3>1. k \notin toDelete'
      BY <1>1, <1>3, <2>3 DEF Dealt, Within, InTemplates
    <3>2. ~Cached(k).owned \/ Cached(k).deleting
      BY <1>1, <1>2, <2>3, <3>1 DEF Orphaned, KeysOf
    <3>3. ASSUME Seen(k) PROVE Gone(Api(k))
      <4>1. Cached(k) = Api(k)
        BY <1>3, <3>3, QuietEnds DEF WakeInv, Inv, Pending
      <4>2. Api(k) \in OwnedObj
        BY ApiIsOwned DEF WakeInv, Inv
      <4> QED
        BY <3>2, <4>1, <4>2 DEF OwnedObj, Gone
    <3> QED
      BY <2>3, <3>3 DEF Done
  <2> QED
    BY <2>1, <2>2, <2>3
<1> QED
  BY <1>1, <1>3, PrunerWake

LEMMA PruneNextWake ==
  ASSUME WakeInv, Inv', PruneNext
  PROVE  WakeInv'
<1>1. /\ Within /\ pc = "delete" /\ pc' = "prune"
      /\ UNCHANGED <<feed, managed, requeue, toPrune, toDelete>>
  BY DEF PruneNext, Within
<1>2. \A k \in Keys : Dealt(k)' => Dealt(k)
  BY <1>1 DEF Dealt, Within, InTemplates
<1> QED
  BY <1>1, <1>2, PrunerWake

LEMMA PruneDeleteWake ==
  ASSUME WakeInv, Inv', NEW k \in Keys, PruneDelete(k)
  PROVE  WakeInv'
<1>1. CASE CanRemove(k)
  <2>1. /\ Within /\ pc = "delete" /\ pc' = pc /\ k \in toDelete
        /\ toDelete' = toDelete \ {k} /\ Delete(k) /\ Exists(Api(k))
        /\ UNCHANGED <<cur, todo, managed, requeue, toPrune>>
    BY <1>1 DEF PruneDelete, Within, CanRemove
  <2>2. PICK o \in OwnedObj : Write(k, o) /\ Gone(o)
    BY <2>1, DeleteIs DEF WakeInv, Inv
  <2>3. /\ OwnedFeed' /\ Api(k)' = o
        /\ \A j \in Keys \ {k} :
             Pending(j)' = Pending(j) /\ Done(j)' = Done(j)
    BY <2>1, <2>2, WithinWrite
  <2>4. snap.mode[k] # "enabled"
    BY <2>1 DEF WakeInv, Inv, PassInv, Enabled
  <2>5. Done(k)'
    BY <2>1, <2>2, <2>3, <2>4 DEF Done, Gone, Within
  <2>6. \A j \in Keys \ {k} : Dealt(j)' => Dealt(j)
    BY <2>1 DEF Dealt, Within, InTemplates
  <2>7. DoneInv'
    BY <2>3, <2>5, <2>6 DEF WakeInv, DoneInv
  <2>8. Current'
    BY <2>1, WithinIs
  <2>9. AtTemplate' /\ AtHand'
    BY <2>1 DEF WakeInv, AtTemplate, AtHand, InTemplates, Within
  <2> QED
    BY <2>3, <2>7, <2>8, <2>9 DEF WakeInv
<1>2. CASE ~CanRemove(k)
  BY <1>2, ErrorWake DEF PruneDelete, WakeInv, OwnedFeed
<1> QED
  BY <1>1, <1>2

---------------------------------------------------------------------------
(* Faults *)

LEMMA FaultWake ==
  ASSUME WakeInv, Inv', CallFails \/ ReplyLost \/ Restart
  PROVE  WakeInv'
<1>1. /\ Error /\ FeedOK /\ OwnedFeed /\ fresh \in BOOLEAN
      /\ cur \in Keys /\ snap.val \in Vals
  BY OwnedResourcesAssumption
     DEF CallFails, ReplyLost, Restart, WakeInv, Inv, LocalOK, Spec_
<1>2. CASE CallFails
  BY <1>1, <1>2, ErrorWake DEF CallFails, OwnedFeed
<1>3. ASSUME NEW k \in Keys, NEW o \in OwnedObj, Write(k, o)
      PROVE  OwnedFeed'
  BY <1>1, <1>3, WriteIs
<1>4. CASE ReplyLost
  <2> SUFFICES OwnedFeed'
    BY <1>1, ErrorWake
  <2>1. ASSUME NEW k \in Keys, CanRemove(k), Delete(k) PROVE OwnedFeed'
    BY <1>1, <1>3, <2>1, DeleteIs DEF CanRemove
  <2>2. CASE pc = "create" /\ Write(cur, NewObj)
    <3>1. NewObj \in OwnedObj
      BY <1>1 DEF NewObj, OwnedObj, Obj
    <3> QED
      BY <1>1, <1>3, <2>2, <3>1
  <2>3. CASE /\ pc = "modify" /\ CanModify
             /\ Write(cur, [Api(cur) EXCEPT !.val = snap.val])
    <3>1. Exists(Api(cur))
      BY <1>1, <2>3 DEF CanModify, WakeInv, AtHand
    <3> QED
      BY <1>1, <1>3, <2>3, <3>1, NewContent
  <2>4. toDelete \subseteq Keys
    BY DEF WakeInv, Inv, LocalOK
  <2> QED
    BY <1>1, <1>4, <2>1, <2>2, <2>3, <2>4 DEF ReplyLost
<1>5. CASE Restart
  <2>1. feed' = [t \in Types |-> <<Last(feed[t])>>]
    BY <1>5 DEF Restart
  <2>2. ASSUME NEW t \in Types
        PROVE  <<Last(feed[t])>> \in Seq([Keys -> OwnedObj])
    <3>1. feed[t] \in Seq([Keys -> OwnedObj]) /\ feed[t] # <<>>
      BY <1>1 DEF OwnedFeed, FeedOK
    <3> QED
      BY <3>1, LastEnds
  <2>3. OwnedFeed'
    BY <2>1, <2>2 DEF OwnedFeed
  <2> QED
    BY <1>1, <2>3, ErrorWake
<1> QED
  BY <1>2, <1>4, <1>5

---------------------------------------------------------------------------
(* The theorem *)

LEMMA InitWake == Init => WakeInv
<1> SUFFICES ASSUME Init PROVE WakeInv
  OBVIOUS
<1>1. Inv /\ queued /\ pc = "idle" /\ requeue = FALSE
  BY InitInv DEF Init
<1>2. OwnedFeed
  <2>1. [k \in Keys |-> NoObj] \in [Keys -> OwnedObj]
    BY DEF OwnedObj, NoObj, Obj
  <2> DEFINE c == [k \in Keys |-> NoObj]
  <2> HIDE DEF c
  <2>2. <<c>> \in Seq([Keys -> OwnedObj])
    BY <2>1 DEF c
  <2>3. feed = [t \in Types |-> <<c>>]
    BY DEF Init, c
  <2> QED
    BY <2>2, <2>3 DEF OwnedFeed
<1>3. \A k \in Keys : Pending(k)
  BY <1>1 DEF Pending
<1> QED
  BY <1>1, <1>2, <1>3
     DEF WakeInv, AtTemplate, AtHand, Current, DoneInv, InTemplates

LEMMA NextWake ==
  ASSUME WakeInv, Inv', DynamicWatches, ~Foreign, [Next]_vars
  PROVE  WakeInv'
<1>1. CASE Work
  BY <1>1, BeginWake, GetLiveWake, SkipWake, WriteWake, RemoveWake, TrackWake,
     StartPruneWake, EndWake, PruneListWake, PruneDeleteWake, PruneNextWake
     DEF Work
<1>2. CASE UNCHANGED vars
  <2>1. UNCHANGED <<spec, feed, queued, local, fresh, seenTypes>>
    BY <1>2 DEF vars
  <2>2. OwnedFeed' /\ \A k \in Keys : Api(k)' = Api(k)
    BY <2>1 DEF WakeInv, OwnedFeed, Api
  <2>3. Current' /\ \A k \in Keys : Pending(k)' = Pending(k)
    BY <2>1 DEF WakeInv, Current, Pending, Seen, Quiet, local
  <2> QED
    BY <2>1, <2>2, <2>3, LocalStays
<1> QED
  BY <1>1, <1>2, EnvWake, SyncWake, FaultWake DEF Next

\* As long as nothing failed, the type of a resource that is there is tracked,
\* or about to be.
NotYet(k) == \/ Seen(k) \/ Api(k) = NoObj
             \/ pc = "track" /\ TypeOf[cur] = TypeOf[k]

TrackedInv == faults = 0 => \A k \in Keys : NotYet(k)

\* A resource that is there is written.
LEMMA WriteTracked ==
  ASSUME WakeInv, TrackedInv, NEW k \in Keys, NEW o \in OwnedObj, Write(k, o),
         Exists(Api(k)), UNCHANGED <<seenTypes, faults>>,
         pc = "track" => UNCHANGED <<pc, cur>>
  PROVE  TrackedInv'
<1>1. \A j \in Keys \ {k} : Api(j)' = Api(j)
  BY WriteIs DEF WakeInv, Inv
<1>2. \A j \in Keys : Seen(j)' = Seen(j)
  BY DEF Seen
<1>3. ASSUME faults = 0, NEW j \in Keys PROVE NotYet(j)'
  BY <1>1, <1>2, <1>3 DEF TrackedInv, NotYet, Exists
<1> QED
  BY <1>3 DEF TrackedInv

LEMMA DeleteTracked ==
  ASSUME WakeInv, TrackedInv, NEW k \in Keys, Exists(Api(k)), Delete(k),
         UNCHANGED <<seenTypes, faults>>, pc = "track" => UNCHANGED <<pc, cur>>
  PROVE  TrackedInv'
BY DeleteIs, WriteTracked DEF WakeInv, Inv

\* No resource and no type is touched.
LEMMA SameTracked ==
  ASSUME TrackedInv, UNCHANGED <<seenTypes, faults>>,
         \A k \in Keys : Api(k)' = Api(k),
         pc = "track" => UNCHANGED <<pc, cur>>
  PROVE  TrackedInv'
BY DEF TrackedInv, NotYet, Seen

LEMMA EnvTracked ==
  ASSUME WakeInv, TrackedInv, ~Foreign, Env
  PROVE  TrackedInv'
<1>1. FeedOK /\ OwnedFeed
  BY DEF WakeInv, Inv
<1>2. CASE UserEdit
  BY <1>2, SameTracked DEF UserEdit, local, Api
<1>3. ASSUME NEW k \in Keys, Drift(k) \/ Reap(k)
      PROVE  TrackedInv'
  <2>1. UNCHANGED <<pc, cur, seenTypes, faults>> /\ Exists(Api(k))
    BY <1>3 DEF Drift, Reap, local, budget, Exists, NoObj
  <2>2. CASE Delete(k)
    BY <2>1, <2>2, DeleteTracked
  <2>3. CASE \E v \in Vals : Write(k, [Api(k) EXCEPT !.val = v])
    BY <1>1, <2>1, <2>3, NewContent, WriteTracked
  <2>4. CASE Write(k, NoObj)
    <3>1. NoObj \in OwnedObj
      BY DEF OwnedObj, NoObj, Obj
    <3> QED
      BY <2>1, <2>4, <3>1, WriteTracked
  <2> QED
    BY <1>3, <2>2, <2>3, <2>4 DEF Drift, Reap
<1> QED
  BY <1>2, <1>3 DEF Env

\* A resource is there from its Create on, and the pass goes on to track it.
LEMMA WorkTracked ==
  ASSUME WakeInv, TrackedInv, Work
  PROVE  TrackedInv'
<1>1. /\ FeedOK /\ OwnedFeed /\ fresh \in BOOLEAN /\ cur \in Keys
      /\ snap.val \in Vals /\ toDelete \subseteq Keys
  BY OwnedResourcesAssumption DEF WakeInv, Inv, LocalOK, Spec_
<1>2. CASE UNCHANGED <<feed, seenTypes, budget>> /\ pc # "track"
  BY <1>2, SameTracked DEF Api, budget
<1>3. CASE Track
  <2>1. /\ pc = "track" /\ seenTypes' = seenTypes \union {TypeOf[cur]}
        /\ UNCHANGED <<feed, faults>>
    BY <1>3 DEF Track, TrackNew, budget
  <2>2. ASSUME faults = 0, NEW k \in Keys PROVE NotYet(k)'
    BY <2>1, <2>2 DEF TrackedInv, NotYet, Seen, Api
  <2> QED
    BY <2>1, <2>2 DEF TrackedInv
<1>4. CASE Create /\ CanCreate
  <2>1. /\ Write(cur, NewObj) /\ pc' = "track" /\ cur' = cur
        /\ pc = "create" /\ UNCHANGED <<seenTypes, faults>>
    BY <1>4 DEF Create, Written, budget
  <2>2. NewObj \in OwnedObj
    BY <1>1 DEF NewObj, OwnedObj, Obj
  <2>3. \A k \in Keys \ {cur} : Api(k)' = Api(k)
    BY <1>1, <2>1, <2>2, WriteIs
  <2>4. ASSUME faults = 0, NEW k \in Keys PROVE NotYet(k)'
    BY <2>1, <2>3, <2>4 DEF TrackedInv, NotYet, Seen
  <2> QED
    BY <2>1, <2>4 DEF TrackedInv
<1>5. CASE Modify /\ CanModify
  <2>1. /\ pc = "modify" /\ UNCHANGED <<seenTypes, faults>>
        /\ Write(cur, [Api(cur) EXCEPT !.val = snap.val])
    BY <1>5 DEF Modify, budget
  <2>2. Exists(Api(cur))
    BY <1>1, <1>5, <2>1 DEF CanModify, WakeInv, AtHand
  <2> QED
    BY <1>1, <2>1, <2>2, NewContent, WriteTracked
<1>6. CASE RemoveDisabled /\ CanRemove(cur)
  BY <1>1, <1>6, DeleteTracked DEF RemoveDisabled, CanRemove, budget
<1>7. ASSUME NEW k \in Keys, PruneDelete(k), CanRemove(k) PROVE TrackedInv'
  BY <1>7, DeleteTracked DEF PruneDelete, CanRemove, budget
<1>8. CASE \/ Pop \/ Start \/ Skip \/ StartPrune \/ EndPass \/ PruneNext
           \/ \E k \in Keys : GetLive(k) \/ (PruneDelete(k) /\ ~CanRemove(k))
           \/ \E t \in Types : PruneList(t)
           \/ Create /\ ~CanCreate
           \/ Modify /\ ~CanModify
           \/ RemoveDisabled /\ ~CanRemove(cur)
  BY <1>2, <1>8
     DEF Pop, Start, Skip, StartPrune, AllTemplatesDone, EndPass, PruneNext,
         GetLive, PruneDelete, PruneList, Create, Modify, RemoveDisabled
<1> QED
  BY <1>3, <1>4, <1>5, <1>6, <1>7, <1>8 DEF Work

LEMMA NextTracked ==
  ASSUME WakeInv, TrackedInv, ~Foreign, [Next]_vars
  PROVE  TrackedInv'
<1>1. CASE UNCHANGED vars
  BY <1>1, SameTracked DEF vars, local, budget, Api
<1>2. CASE CallFails \/ ReplyLost \/ Restart
  <2>1. faults' = faults + 1 /\ faults \in Nat
    BY <1>2 DEF CallFails, ReplyLost, Restart, Fault, WakeInv, Inv, LocalOK
  <2> QED
    BY <2>1 DEF TrackedInv
<1>3. CASE SpecSync
  BY <1>3, SameTracked DEF SpecSync, local, budget, Api
<1>4. ASSUME NEW t \in Types, TypeSync(t) PROVE TrackedInv'
  <2>1. /\ feed[t] \in Seq([Keys -> Obj]) /\ Len(feed[t]) > 1
        /\ feed' = [feed EXCEPT ![t] = Tail(@)]
        /\ feed \in [Types -> Seq([Keys -> Obj])]
    BY <1>4 DEF TypeSync, WakeInv, Inv, FeedOK
  <2>2. Last(Tail(feed[t])) = Last(feed[t])
    BY <2>1, TailEnds
  <2>3. \A k \in Keys : Api(k)' = Api(k)
    BY <2>1, <2>2, OwnedResourcesAssumption DEF Api
  <2> QED
    BY <1>4, <2>3, SameTracked DEF TypeSync, local, budget
<1> QED
  BY <1>1, <1>2, <1>3, <1>4, EnvTracked, WorkTracked DEF Next, Sync

\* At rest, every resource is as a pass leaves it, or was never there.
LEMMA WakeSettles ==
  ASSUME WakeInv, TrackedInv, Idle, Synced, NEW k \in Keys
  PROVE  Settled(k)
<1>1. /\ pc = "idle" /\ ~queued /\ ~requeue /\ Len(spec) = 1
      /\ snap = Last(spec)
  BY DEF Idle, Synced, WakeInv, AtTemplate, Current
<1>2. Quiet(k)
  <2>1. TypeOf[k] \in Types
    BY OwnedResourcesAssumption
  <2>2. Len(feed[TypeOf[k]]) = 1 /\ feed[TypeOf[k]] \in Seq([Keys -> Obj])
    BY <2>1 DEF Synced, WakeInv, Inv, FeedOK
  <2> QED
    BY <2>2 DEF Quiet, QuietIn, Last
<1>3. Done(k)
  BY <1>1, <1>2 DEF WakeInv, DoneInv, Dealt, Pending
<1>4. snap.val \in Vals /\ NoVal \notin Vals
  BY OwnedResourcesAssumption DEF WakeInv, Inv, LocalOK, Spec_
<1>5. want = snap
  BY <1>1 DEF want
<1>6. Api(k).val = snap.val => Exists(Api(k))
  BY <1>4 DEF Exists, NoObj
<1>7. Gone(Api(k)) => /\ ~Exists(Api(k)) \/ Api(k).deleting
                      /\ ~Api(k).owned \/ Api(k).deleting
  BY DEF Gone, Exists, NoObj
<1>8. CASE Seen(k)
  BY <1>3, <1>5, <1>6, <1>7, <1>8 DEF Done, Settled, Seen
<1>9. CASE ~Seen(k)
  <2>1. faults = 0 => Gone(Api(k))
    BY <1>1, <1>9 DEF TrackedInv, NotYet, Gone
  <2> QED
    BY <1>3, <1>5, <1>6, <1>7, <1>9, <2>1 DEF Done, Settled, Seen, Accounted
<1> QED
  BY <1>8, <1>9

\* With the controller idle and nothing on its way to its caches, every
\* resource is what the newest version of the CR asks for, however stale the
\* versions were on which each step was decided.  Without faults this is all of
\* them; after one it leaves out a resource that should be gone, of a type that
\* is not tracked.
THEOREM NoWakeupLost ==
  ASSUME DynamicWatches, ~Foreign
  PROVE  Spec => []NoLostWakeup
<1>1. Init => WakeInv /\ TrackedInv
  <2>1. ASSUME Init, NEW k \in Keys PROVE Api(k) = NoObj
    BY <2>1, OwnedResourcesAssumption DEF Init, Api, Last
  <2> QED
    BY <2>1, InitWake DEF TrackedInv, NotYet
<1>2. WakeInv /\ TrackedInv /\ Inv' /\ [Next]_vars => (WakeInv /\ TrackedInv)'
  BY NextWake, NextTracked
<1>3. WakeInv /\ TrackedInv => NoLostWakeup
  BY WakeSettles DEF NoLostWakeup
<1> QED
  BY <1>1, <1>2, <1>3, Invariance, PTL DEF Spec

---------------------------------------------------------------------------
(***************************************************************************)
(* OwnedResources implements Converge, under the same conditions.  Beside  *)
(* WakeInv, which gives what is true at rest, it takes PruneSeen: the      *)
(* pruner works on types that are tracked, for a version of the CR that    *)
(* asks for it.                                                            *)
(***************************************************************************)
PruneSeen ==
  /\ toPrune \subseteq seenTypes
  /\ \A k \in toDelete : Seen(k)
  /\ pc \in {"prune", "delete"} => snap.prune

ConvergeInv == WakeInv /\ PruneSeen

LEMMA NextPruneSeen ==
  ASSUME PruneSeen, [Next]_vars
  PROVE  PruneSeen'
<1>1. CASE Return
  BY <1>1 DEF Return, PruneSeen
<1>2. CASE UNCHANGED <<local, seenTypes>>
  BY <1>2 DEF local, PruneSeen, Seen
<1>3. CASE Pop \/ Start \/ Skip \/ \E k \in Keys : GetLive(k)
  <2>1. /\ pc' \notin {"prune", "delete"}
        /\ UNCHANGED <<toPrune, toDelete, seenTypes>>
    BY <1>3 DEF Pop, Start, Skip, NotManaged, GetLive, Decide
  <2> QED
    BY <2>1 DEF PruneSeen, Seen
<1>4. CASE Track
  BY <1>4 DEF Track, TrackNew, PruneSeen, Seen
<1>5. CASE StartPrune \/ PruneNext
  BY <1>5 DEF StartPrune, AllTemplatesDone, PruneNext, PruneSeen, Seen
<1>6. ASSUME NEW t \in Types, PruneList(t) PROVE PruneSeen'
  BY <1>6 DEF PruneList, KeysOf, PruneSeen, Seen
<1>7. ASSUME NEW k \in Keys, PruneDelete(k) PROVE PruneSeen' \/ Return
  BY <1>7 DEF PruneDelete, Error, PruneSeen, Seen
<1>8. CASE Create \/ Modify \/ RemoveDisabled
  <2>1. \/ Return
        \/ /\ pc' \notin {"prune", "delete"}
           /\ UNCHANGED <<toPrune, toDelete, seenTypes>>
    BY <1>8 DEF Create, Modify, RemoveDisabled, Error, Written, NotManaged
  <2> QED
    BY <1>1, <2>1 DEF PruneSeen, Seen
<1> QED
  BY <1>1, <1>2, <1>3, <1>4, <1>5, <1>6, <1>7, <1>8
     DEF Next, vars, Env, UserEdit, Drift, Reap, Sync, SpecSync, TypeSync, Work,
         EndPass, Finish, CallFails, ReplyLost, Restart, Error

LEMMA ConvergeInvariance ==
  ASSUME DynamicWatches, ~Foreign
  PROVE  Spec => [](Inv /\ ConvergeInv)
<1>1. Init => ConvergeInv
  BY InitWake DEF Init, ConvergeInv, PruneSeen
<1>2. Inv' /\ ConvergeInv /\ [Next]_vars => ConvergeInv'
  BY NextWake, NextPruneSeen DEF ConvergeInv
<1> QED
  BY <1>1, <1>2, Invariance, PTL DEF Spec

---------------------------------------------------------------------------
(* What a step is for Converge *)

\* The pass goes by the version that it read, or reads one of the queue.
LEMMA Narrows ==
  ASSUME Inv, Inv', want' = want, Range(spec') \subseteq Range(spec),
         InPass' => snap' \in Range(spec) \/ (InPass /\ snap' = snap)
  PROVE  Convergence!Narrow
<1>1. Last(spec') \in Range(spec')
  BY NonEmpty, RangeEnds DEF Inv, LocalOK
<1>2. want' \in Range(spec')
  BY <1>1 DEF want
<1> QED
  BY <1>2 DEF Convergence!Narrow

LEMMA GoesOn ==
  ASSUME Inv, Inv', Convergence!Narrow, seenTypes' \in {seenTypes, {}},
         \A k \in Keys : Api(k)' = Api(k)
  PROVE  Convergence!GoOn
BY DEF Convergence!GoOn

\* A step that reads no version of the CR.
LEMMA SameVersions ==
  ASSUME Inv, Inv', spec' = spec, InPass' => InPass /\ snap' = snap
  PROVE  Convergence!Narrow
<1>1. want' = want
  BY DEF want
<1> QED
  BY <1>1, Narrows

LEMMA WritePuts ==
  ASSUME WakeInv, NEW k \in Keys, NEW o \in OwnedObj, Write(k, o)
  PROVE  Convergence!Put(k, o)
<1>1. /\ Api(k)' = o
      /\ \A j \in Keys \ {k} : Api(j)' = Api(j)
  BY WriteIs DEF WakeInv, Inv
<1> QED
  BY <1>1 DEF Convergence!Put

LEMMA DeletePuts ==
  ASSUME WakeInv, NEW k \in Keys, Exists(Api(k)), Delete(k)
  PROVE  \E o \in Convergence!Deleted(Api(k)) : Convergence!Put(k, o)
<1>1. Api(k) \in OwnedObj /\ Api(k).owned
  BY ApiIsOwned DEF WakeInv, Inv, OwnedObj, Exists
<1>2. CASE Write(k, NoObj)
  <2>1. NoObj \in OwnedObj
    BY DEF OwnedObj, NoObj, Obj
  <2> QED
    BY <1>2, <2>1, WritePuts DEF Convergence!Deleted, Convergence!NoObj, NoObj
<1>3. CASE Write(k, [Api(k) EXCEPT !.deleting = TRUE])
  <2>1. [Api(k) EXCEPT !.deleting = TRUE] \in OwnedObj
    BY <1>1 DEF OwnedObj, Obj
  <2> QED
    BY <1>3, <2>1, WritePuts DEF Convergence!Deleted
<1> QED
  BY <1>2, <1>3 DEF Delete

\* A pass brings the resource of a template that is enabled in the version
\* that it goes by, ...
LEMMA WriteBrings ==
  ASSUME WakeInv, Convergence!Narrow, seenTypes' = seenTypes,
         \/ pc = "create" /\ CanCreate /\ Write(cur, NewObj)
         \/ /\ pc = "modify" /\ CanModify
            /\ Write(cur, [Api(cur) EXCEPT !.val = snap.val])
  PROVE  cur \in Keys /\ Convergence!Bring(cur)
<1>1. /\ cur \in Keys /\ snap.val \in Vals /\ FeedOK /\ OwnedFeed
      /\ snap.mode[cur] = "enabled"
  BY OwnedResourcesAssumption
     DEF WakeInv, Inv, LocalOK, Spec_, AtTemplate
<1>2. snap \in Range(spec) \union (IF InPass THEN {snap} ELSE {})
  BY DEF InPass
<1>3. CASE pc = "create" /\ CanCreate /\ Write(cur, NewObj)
  <2>1. NewObj \in OwnedObj
    BY <1>1 DEF NewObj, OwnedObj, Obj
  <2>2. Convergence!Put(cur, NewObj) /\ ~Convergence!Exists(Api(cur))
    BY <1>1, <1>3, <2>1, WritePuts
       DEF CanCreate, Exists, NoObj, Convergence!Exists, Convergence!NoObj
  <2> QED
    BY <1>1, <1>2, <2>2 DEF Convergence!Bring, NewObj
<1>4. CASE /\ pc = "modify" /\ CanModify
           /\ Write(cur, [Api(cur) EXCEPT !.val = snap.val])
  <2>1. Exists(Api(cur))
    BY <1>1, <1>4 DEF CanModify, WakeInv, AtHand
  <2>2. /\ Convergence!Put(cur, [Api(cur) EXCEPT !.val = snap.val])
        /\ Convergence!Exists(Api(cur))
    BY <1>1, <1>4, <2>1, NewContent, WritePuts
       DEF Exists, NoObj, Convergence!Exists, Convergence!NoObj
  <2> QED
    BY <1>1, <1>2, <2>2 DEF Convergence!Bring
<1> QED
  BY <1>3, <1>4

\* ... and takes away that of one that is disabled, or not listed.
LEMMA DeleteTakesAway ==
  ASSUME ConvergeInv, Convergence!Narrow, seenTypes' = seenTypes,
         NEW k \in Keys, CanRemove(k), Delete(k),
         \/ pc = "remove" /\ k = cur
         \/ pc = "delete" /\ k \in toDelete
  PROVE  Convergence!TakeAway(k)
<1>1. Exists(Api(k))
  BY DEF CanRemove
<1>2. /\ Convergence!Exists(Api(k))
      /\ \E o \in Convergence!Deleted(Api(k)) : Convergence!Put(k, o)
  BY <1>1, DeletePuts
     DEF ConvergeInv, Exists, NoObj, Convergence!Exists, Convergence!NoObj
<1>3. snap \in Range(spec) \union (IF InPass THEN {snap} ELSE {})
  BY DEF InPass
<1>4. \/ snap.mode[k] = "disabled"
      \/ snap.mode[k] = "absent" /\ snap.prune /\ TypeOf[k] \in seenTypes
  <2>1. CASE pc = "remove" /\ k = cur
    BY <2>1 DEF ConvergeInv, WakeInv, AtTemplate
  <2>2. CASE pc = "delete" /\ k \in toDelete
    <3>1. snap.mode[k] # "enabled" /\ snap.prune /\ TypeOf[k] \in seenTypes
      BY <2>2 DEF ConvergeInv, PruneSeen, Seen, WakeInv, Inv, PassInv, Enabled
    <3>2. snap.mode[k] \in Mode
      BY OwnedResourcesAssumption
         DEF ConvergeInv, WakeInv, Inv, LocalOK, Spec_
    <3> QED
      BY <3>1, <3>2 DEF Mode
  <2> QED
    BY <2>1, <2>2
<1> QED
  BY <1>2, <1>3, <1>4 DEF Convergence!TakeAway

\* What may happen, but for what it must lead to.
Happens ==
  \/ \E s \in Specs : Convergence!Ask(s)
  \/ \E k \in Keys :
       \/ Convergence!Disturb(k) \/ Convergence!Bring(k)
       \/ Convergence!TakeAway(k) \/ Convergence!Track(k)
  \/ Convergence!GoOn

LEMMA EnvHappens ==
  ASSUME Inv, Inv', ConvergeInv, ~Foreign, Env
  PROVE  Happens
<1>1. FeedOK /\ OwnedFeed /\ spec \in Seq(Specs)
  BY DEF ConvergeInv, WakeInv, Inv, LocalOK
<1>2. CASE UserEdit
  <2>1. PICK s \in Specs : spec' = Append(spec, s)
    BY <1>2 DEF UserEdit
  <2>2. want' = s /\ Range(spec') = Range(spec) \union {s}
    BY <1>1, <2>1, AppendEnds, RangeAppend DEF want
  <2>3. /\ UNCHANGED <<pc, snap, seenTypes>>
        /\ \A k \in Keys : Api(k)' = Api(k)
    BY <1>2 DEF UserEdit, local, Api
  <2>4. Convergence!Ask(s)
    BY <2>2, <2>3 DEF Convergence!Ask, InPass
  <2> QED
    BY <2>4 DEF Happens
<1>3. ASSUME NEW k \in Keys, Drift(k) \/ Reap(k)
      PROVE  Happens
  <2>1. UNCHANGED <<spec, pc, snap, seenTypes>>
    BY <1>3 DEF Drift, Reap, local
  <2>2. UNCHANGED <<want, Range(spec), InPass>>
    BY <2>1 DEF want, InPass
  <2> SUFFICES ASSUME Exists(Api(k))
               PROVE  \E o \in Convergence!Deleted(Api(k)) \union
                               {[Api(k) EXCEPT !.val = v] : v \in Vals} :
                        Convergence!Put(k, o)
    <3>1. Exists(Api(k))
      BY <1>3 DEF Drift, Reap, Exists, NoObj
    <3>2. Convergence!Exists(Api(k))
      BY <3>1 DEF Exists, NoObj, Convergence!Exists, Convergence!NoObj
    <3>3. \E o \in Convergence!Deleted(Api(k)) \union
                   {[Api(k) EXCEPT !.val = v] : v \in Vals} :
            Convergence!Put(k, o)
      BY <3>1
    <3>4. Convergence!Disturb(k)
      BY <2>1, <2>2, <3>2, <3>3 DEF Convergence!Disturb
    <3> QED
      BY <3>4 DEF Happens
  <2>3. CASE Delete(k)
    BY <2>3, DeletePuts DEF ConvergeInv
  <2>4. CASE \E v \in Vals : Write(k, [Api(k) EXCEPT !.val = v])
    <3>1. PICK v \in Vals : Write(k, [Api(k) EXCEPT !.val = v])
      BY <2>4
    <3>2. Convergence!Put(k, [Api(k) EXCEPT !.val = v])
      BY <1>1, <3>1, NewContent, WritePuts DEF ConvergeInv
    <3> QED
      BY <3>2
  <2>5. CASE Write(k, NoObj)
    <3>1. NoObj \in OwnedObj
      BY DEF OwnedObj, NoObj, Obj
    <3> QED
      BY <2>5, <3>1, WritePuts
         DEF ConvergeInv, Convergence!Deleted, Convergence!NoObj, NoObj
  <2> QED
    BY <1>3, <2>3, <2>4, <2>5 DEF Drift, Reap
<1> QED
  BY <1>2, <1>3 DEF Env

LEMMA SyncHappens ==
  ASSUME Inv, Inv', ConvergeInv, DynamicWatches, Sync
  PROVE  Happens
<1>1. CASE SpecSync
  <2>1. spec \in Seq(Specs) /\ Len(spec) > 1 /\ spec # <<>>
    BY <1>1, NonEmpty DEF SpecSync, Inv, LocalOK
  <2>2. want' = want /\ Range(spec') \subseteq Range(spec)
    BY <1>1, <2>1, TailEnds, RangeEnds DEF SpecSync, want
  <2>3. /\ UNCHANGED <<pc, snap, seenTypes>>
        /\ \A k \in Keys : Api(k)' = Api(k)
    BY <1>1 DEF SpecSync, local, Api
  <2> QED
    BY <2>2, <2>3, Narrows, GoesOn DEF InPass, Happens
<1>2. ASSUME NEW t \in Types, TypeSync(t)
      PROVE  Happens
  <2>1. UNCHANGED <<spec, pc, snap, seenTypes>>
    BY <1>2 DEF TypeSync, local
  <2>2. \A k \in Keys : Api(k)' = Api(k)
    BY <1>2, TypeSyncIs DEF ConvergeInv, WakeInv, Inv
  <2> QED
    BY <2>1, <2>2, SameVersions, GoesOn DEF InPass, Happens
<1> QED
  BY <1>1, <1>2 DEF Sync

\* A step of the worker that writes nothing.
LEMMA StillHappens ==
  ASSUME Inv, Inv', UNCHANGED <<spec, feed, seenTypes>>,
         InPass' => InPass /\ snap' = snap
  PROVE  Happens
<1>1. \A k \in Keys : Api(k)' = Api(k)
  BY DEF Api
<1> QED
  BY <1>1, SameVersions, GoesOn DEF Happens

LEMMA WorkHappens ==
  ASSUME Inv, Inv', ConvergeInv, Work
  PROVE  Happens
<1>1. /\ spec \in Seq(Specs) /\ spec # <<>> /\ cur \in Keys
      /\ toDelete \subseteq Keys
  BY NonEmpty DEF Inv, LocalOK
<1>2. CASE Start
  <2>1. UNCHANGED <<spec, feed, seenTypes>> /\ snap' = Head(spec)
    BY <1>2 DEF Start
  <2>2. want' = want /\ snap' \in Range(spec)
    BY <1>1, <2>1, RangeEnds DEF want
  <2>3. \A k \in Keys : Api(k)' = Api(k)
    BY <2>1 DEF Api
  <2> QED
    BY <2>1, <2>2, <2>3, Narrows, GoesOn DEF Happens
<1>3. CASE \/ Create /\ CanCreate
           \/ Modify /\ CanModify
  <2>1. UNCHANGED <<spec, snap, seenTypes>> /\ InPass
    BY <1>3 DEF Create, Modify, Written, InPass
  <2>2. cur \in Keys /\ Convergence!Bring(cur)
    BY <1>3, <2>1, SameVersions, WriteBrings DEF Create, Modify, ConvergeInv
  <2> QED
    BY <2>2 DEF Happens
<1>4. CASE RemoveDisabled /\ CanRemove(cur)
  <2>1. /\ UNCHANGED <<spec, snap, seenTypes>> /\ InPass
        /\ pc = "remove" /\ Delete(cur)
    BY <1>4 DEF RemoveDisabled, NotManaged, InPass
  <2>2. Convergence!Narrow
    BY <2>1, SameVersions
  <2>3. PICK k \in Keys : k = cur
    BY <1>1
  <2>4. CanRemove(k) /\ Delete(k)
    BY <1>4, <2>1, <2>3
  <2>5. Convergence!TakeAway(k)
    BY <2>1, <2>2, <2>3, <2>4, DeleteTakesAway
  <2> QED
    BY <2>5 DEF Happens
<1>5. ASSUME NEW k \in Keys, CanRemove(k), PruneDelete(k)
      PROVE  Happens
  <2>1. /\ UNCHANGED <<spec, snap, seenTypes>> /\ InPass
        /\ pc = "delete" /\ k \in toDelete /\ Delete(k)
    BY <1>5 DEF PruneDelete, InPass
  <2>2. Convergence!Narrow
    BY <2>1, SameVersions
  <2>3. Convergence!TakeAway(k)
    BY <1>5, <2>1, <2>2, DeleteTakesAway
  <2> QED
    BY <2>3 DEF Happens
<1>6. CASE Track
  <2>1. /\ seenTypes' = seenTypes \union {TypeOf[cur]}
        /\ UNCHANGED <<spec, feed, snap>> /\ InPass /\ InPass'
    BY <1>6 DEF Track, TrackNew, InPass
  <2>2. snap.mode[cur] = "enabled"
    BY <1>6 DEF Track, ConvergeInv, WakeInv, AtTemplate
  <2>3. \A k \in Keys : Api(k)' = Api(k)
    BY <2>1 DEF Api
  <2>4. want' = want
    BY <2>1 DEF want
  <2>5. Convergence!Track(cur)
    BY <2>1, <2>2, <2>3, <2>4 DEF Convergence!Track
  <2> QED
    BY <1>1, <2>5 DEF Happens
<1>7. CASE Error /\ UNCHANGED <<spec, feed, seenTypes>>
  BY <1>7, StillHappens DEF Error, Return, InPass
<1>8. CASE \/ Pop \/ Skip \/ StartPrune \/ EndPass \/ PruneNext
           \/ \E k \in Keys : GetLive(k)
           \/ \E t \in Types : PruneList(t)
  <2>1. /\ UNCHANGED <<spec, feed, seenTypes>>
        /\ InPass' => InPass /\ snap' = snap
    BY <1>8
       DEF Pop, Skip, NotManaged, StartPrune, AllTemplatesDone, EndPass, Finish,
           Return, PruneNext, GetLive, PruneList, InPass
  <2> QED
    BY <2>1, StillHappens
<1>9. Create \/ Modify \/ RemoveDisabled => Happens
  BY <1>3, <1>4, <1>7 DEF Create, Modify, RemoveDisabled
<1>10. ASSUME NEW k \in Keys, PruneDelete(k) PROVE Happens
  BY <1>7, <1>5, <1>10 DEF PruneDelete
<1> QED
  BY <1>2, <1>6, <1>8, <1>9, <1>10 DEF Work

LEMMA FaultHappens ==
  ASSUME Inv, Inv', ConvergeInv, CallFails \/ ReplyLost \/ Restart
  PROVE  Happens
<1>1. ~InPass' /\ cur \in Keys /\ toDelete \subseteq Keys
  BY DEF CallFails, ReplyLost, Restart, Error, Return, InPass, Inv, LocalOK
<1>2. CASE CallFails
  BY <1>1, <1>2, StillHappens DEF CallFails
<1>3. CASE ReplyLost
  <2>1. Convergence!Narrow /\ UNCHANGED seenTypes
    BY <1>1, <1>3, SameVersions DEF ReplyLost
  <2>2. CASE \/ pc = "create" /\ CanCreate /\ Write(cur, NewObj)
             \/ /\ pc = "modify" /\ CanModify
                /\ Write(cur, [Api(cur) EXCEPT !.val = snap.val])
    BY <2>1, <2>2, WriteBrings DEF ConvergeInv, Happens
  <2>3. ASSUME NEW k \in Keys, CanRemove(k), Delete(k),
               \/ pc = "remove" /\ k = cur
               \/ pc = "delete" /\ k \in toDelete
        PROVE  Happens
    BY <2>1, <2>3, DeleteTakesAway DEF Happens
  <2>4. CASE pc = "remove" /\ CanRemove(cur) /\ Delete(cur)
    <3>1. PICK k \in Keys : k = cur
      BY <1>1
    <3>2. CanRemove(k) /\ Delete(k) /\ pc = "remove"
      BY <2>4, <3>1
    <3> QED
      BY <2>3, <3>1, <3>2
  <2>5. CASE pc = "delete" /\ \E k \in toDelete : CanRemove(k) /\ Delete(k)
    BY <1>1, <2>3, <2>5
  <2> QED
    BY <1>3, <2>2, <2>4, <2>5 DEF ReplyLost
<1>4. CASE Restart
  <2>1. /\ spec' = <<Last(spec)>> /\ seenTypes' = {}
        /\ feed' = [t \in Types |-> <<Last(feed[t])>>]
    BY <1>4 DEF Restart
  <2>2. want' = want /\ Range(spec') \subseteq Range(spec)
    BY <2>1, NonEmpty, LastEnds, RangeEnds DEF Inv, LocalOK, want
  <2>3. ASSUME NEW k \in Keys PROVE Api(k)' = Api(k)
    <3>1. TypeOf[k] \in Types
      BY OwnedResourcesAssumption
    <3>2. feed[TypeOf[k]] \in Seq([Keys -> Obj]) /\ feed[TypeOf[k]] # <<>>
      BY <3>1, NonEmpty DEF Inv, FeedOK
    <3> QED
      BY <2>1, <3>1, <3>2, LastEnds DEF Api
  <2> QED
    BY <1>1, <2>1, <2>2, <2>3, Narrows, GoesOn DEF Happens
<1> QED
  BY <1>2, <1>3, <1>4

LEMMA ConvergeInit ==
  ASSUME Init
  PROVE  Convergence!Init
<1>1. PICK s \in Specs : spec = <<s>>
  BY DEF Init
<1>2. want = s /\ Range(spec) = {s}
  BY <1>1 DEF want, Last, Range
<1>3. \A k \in Keys : Api(k) = NoObj
  <2>1. \A k \in Keys : TypeOf[k] \in Types
    BY OwnedResourcesAssumption
  <2>2. feed = [t \in Types |-> <<[k \in Keys |-> NoObj]>>]
    BY DEF Init
  <2> DEFINE c == [k \in Keys |-> NoObj]
  <2>3. Last(<<c>>) = c
    BY DEF Last
  <2> QED
    BY <2>1, <2>2, <2>3 DEF Api
<1>4. seenTypes = {} /\ ~InPass /\ ~Idle
  BY DEF Init, InPass, Idle
<1> QED
  BY <1>2, <1>3, <1>4 DEF Convergence!Init, Convergence!NoObj, NoObj

\* Whatever the caches hide and whichever calls fail, the resources of the CR
\* change only towards a version of it that the controller has not left
\* behind, and it rests only when they are what the newest one asks for.
THEOREM ConvergesAlways ==
  ASSUME DynamicWatches, ~Foreign
  PROVE  Spec => Converges
<1>1. Init => Convergence!Init
  BY ConvergeInit
<1>2. ASSUME Inv, Inv', ConvergeInv, NoLostWakeup', [Next]_vars
      PROVE  [Convergence!Next]_Convergence!vars
  <2>1. CASE UNCHANGED vars
    <3>1. UNCHANGED <<spec, feed, pc, snap, queued, seenTypes>>
      BY <2>1 DEF vars, local
    <3> QED
      BY <3>1 DEF Convergence!vars, want, InPass, Idle, Synced, Api
  <2>2. CASE Next
    <3>1. Happens
      BY <1>2, <2>2, EnvHappens, SyncHappens, WorkHappens, FaultHappens DEF Next
    <3>2. (Idle /\ Synced)' => \A k \in Keys : Settled(k)'
      BY <1>2 DEF NoLostWakeup
    <3>3. \A k \in Keys : Settled(k)' => Convergence!Settled(k)'
      BY DEF Settled, Accounted, Convergence!Settled, Exists, NoObj,
             Convergence!Exists, Convergence!NoObj
    <3> QED
      BY <3>1, <3>2, <3>3 DEF Happens, Convergence!Next
  <2> QED
    BY <1>2, <2>1, <2>2
<1> QED
  BY <1>1, <1>2, ConvergeInvariance, NoWakeupLost, PTL
     DEF Spec, Converges, Convergence!Spec

===========================================================================
