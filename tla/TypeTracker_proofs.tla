----------------------- MODULE TypeTracker_proofs ------------------------
(***************************************************************************)
(* What TypeTracker guarantees for any number of workers and types: its    *)
(* TypeOK with the discipline of the mutex, that a tracked type is watched *)
(* and a managed type tracked, that no type has more entries than there    *)
(* are workers, and that the slice behaves as the set of TrackedTypes.     *)
(* The inductive invariant adds what                                       *)
(* a worker between its watch and its append knows: the type it is about   *)
(* to track is watched already.                                            *)
(***************************************************************************)
EXTENDS TypeTracker, FiniteSetTheorems, TLAPS

\* Between the watch and the append, the type at hand is watched.
AboutToTrack ==
  \A w \in Workers :
    DynamicWatches /\ pc[w] \in {"recheck", "lockTrack", "append"}
      => watches[gvk[w]] > 0

IInv == TypeOK /\ TrackedIsWatched /\ ManagedIsTracked /\ AboutToTrack

-----------------------------------------------------------------------------
(* What the steps of a worker have in common *)

\* An entry appended to the slice is found, and none of the others is lost.
LEMMA AppendTracks ==
  ASSUME TypeOK, NEW g \in Types, seenTypes' = Append(seenTypes, g)
  PROVE  /\ seenTypes' \in Seq(Types)
         /\ \A t \in Types : Tracked(t)' <=> (Tracked(t) \/ t = g)
<1>1. seenTypes \in Seq(Types)
  BY DEF TypeOK
<1>2. /\ seenTypes' \in Seq(Types)
      /\ Len(seenTypes') = Len(seenTypes) + 1
      /\ \A i \in 1..Len(seenTypes) : seenTypes'[i] = seenTypes[i]
      /\ seenTypes'[Len(seenTypes) + 1] = g
  BY <1>1
<1>3. /\ Len(seenTypes) \in Nat
      /\ DOMAIN seenTypes = 1..Len(seenTypes)
      /\ DOMAIN seenTypes' = 1..(Len(seenTypes) + 1)
  BY <1>1, <1>2
<1>4. \A i \in 1..(Len(seenTypes) + 1) :
        i \in 1..Len(seenTypes) \/ i = Len(seenTypes) + 1
  BY <1>3
<1>5. /\ 1..Len(seenTypes) \subseteq 1..(Len(seenTypes) + 1)
      /\ Len(seenTypes) + 1 \in 1..(Len(seenTypes) + 1)
  BY <1>3
<1>6. ASSUME NEW t \in Types
      PROVE  Tracked(t)' <=> (Tracked(t) \/ t = g)
  BY <1>2, <1>3, <1>4, <1>5 DEF Tracked
<1> QED
  BY <1>2, <1>6

\* A step that goes from outside the critical sections to outside of them,
\* and leaves the slice, the watches and the mutex, preserves the invariant
\* as soon as what it manages and what it is about to track are in order.
LEMMA UnlockedStep ==
  ASSUME IInv, NEW w \in Workers, NEW q \in Pc,
         pc[w] \notin Critical, q \notin Critical,
         Goto(w, q),
         UNCHANGED <<seenTypes, watches, mu>>,
         gvk' \in [Workers -> Types],
         \A v \in Workers \ {w} : gvk'[v] = gvk[v],
         managed' \in [Workers -> SUBSET Types],
         \A v \in Workers : \A t \in managed'[v] : Tracked(t),
         faults' \in Nat,
         DynamicWatches /\ q \in {"recheck", "lockTrack", "append"}
           => watches[gvk'[w]] > 0
  PROVE  IInv'
<1> USE DEF IInv
<1>1. pc' \in [Workers -> Pc] /\ pc' = [pc EXCEPT ![w] = q]
  BY DEF TypeOK, Goto
<1>2. \A v \in Workers : pc'[v] = IF v = w THEN q ELSE pc[v]
  BY <1>1 DEF TypeOK
<1>3. mu # w
  BY DEF TypeOK
<1>4. \A v \in Workers : pc'[v] \in Critical <=> mu' = v
  BY <1>2, <1>3 DEF TypeOK
<1>5. TypeOK'
  BY <1>1, <1>4 DEF TypeOK
<1>6. \A t \in Types : Tracked(t)' <=> Tracked(t)
  BY DEF Tracked
<1>7. TrackedIsWatched' /\ ManagedIsTracked'
  BY <1>5, <1>6 DEF TrackedIsWatched, ManagedIsTracked, TypeOK
<1>8. AboutToTrack'
  BY <1>2 DEF AboutToTrack
<1> QED
  BY <1>5, <1>7, <1>8

\* What a worker manages when it goes on to the next template.
LEMMA NextTemplateManages ==
  ASSUME TypeOK, NEW w \in Workers, NextTemplate(w)
  PROVE  /\ managed' \in [Workers -> SUBSET Types]
         /\ \A v \in Workers :
              managed'[v] \subseteq managed[v] \union {gvk[w]}
         /\ \A v \in Workers \ {w} : managed'[v] = managed[v]
BY DEF TypeOK, NextTemplate

-----------------------------------------------------------------------------
(* The steps *)

LEMMA InitIInv == Init => IInv
<1> SUFFICES ASSUME Init PROVE IInv
  OBVIOUS
<1> USE DEF Init
<1>1. TypeOK
  BY TypeTrackerAssumption DEF TypeOK, Pc, Critical
<1>2. TrackedIsWatched
  BY DEF TrackedIsWatched, Tracked
<1>3. ManagedIsTracked /\ AboutToTrack
  BY DEF ManagedIsTracked, AboutToTrack
<1> QED
  BY <1>1, <1>2, <1>3 DEF IInv

LEMMA StartPassIInv ==
  ASSUME IInv, NEW w \in Workers, StartPass(w) PROVE IInv'
<1>1. managed' = [managed EXCEPT ![w] = {}]
  BY DEF StartPass
<1>2. /\ managed' \in [Workers -> SUBSET Types]
      /\ \A v \in Workers : managed'[v] \subseteq managed[v]
  BY <1>1 DEF IInv, TypeOK
<1>3. \A v \in Workers : \A t \in managed'[v] : Tracked(t)
  BY <1>2 DEF IInv, ManagedIsTracked
<1>4. "template" \in Pc /\ {"idle", "template"} \cap Critical = {}
  BY DEF Pc, Critical
<1> QED
  BY <1>2, <1>3, <1>4, UnlockedStep
     DEF StartPass, Step, IInv, TypeOK

LEMMA ReferenceIInv ==
  ASSUME IInv, NEW w \in Workers, NEW t \in Types, Reference(w, t)
  PROVE  IInv'
<1>1. gvk' = [gvk EXCEPT ![w] = t]
  BY DEF Reference
<1>2. /\ gvk' \in [Workers -> Types]
      /\ \A v \in Workers \ {w} : gvk'[v] = gvk[v]
  BY <1>1 DEF IInv, TypeOK
<1>3. "check" \in Pc /\ {"template", "check"} \cap Critical = {}
  BY DEF Pc, Critical
<1> QED
  BY <1>2, <1>3, UnlockedStep
     DEF Reference, Step, IInv, TypeOK, ManagedIsTracked

\* Both lookups that find the type: the worker is done with it.
LEMMA FoundIInv ==
  ASSUME IInv, NEW w \in Workers, IsTracked(w) \/ AlreadyTracked(w)
  PROVE  IInv'
<1>1. /\ pc[w] \in {"check", "recheck"} /\ Tracked(gvk[w])
      /\ NextTemplate(w) /\ UNCHANGED <<seenTypes, watches, mu, gvk, faults>>
  BY DEF IsTracked, AlreadyTracked
<1>2. TypeOK
  BY DEF IInv
<1>3. /\ managed' \in [Workers -> SUBSET Types]
      /\ \A v \in Workers : \A t \in managed'[v] : Tracked(t)
  BY <1>1, <1>2, NextTemplateManages DEF IInv, ManagedIsTracked
<1>4. "template" \in Pc /\ {"check", "recheck", "template"} \cap Critical = {}
  BY DEF Pc, Critical
<1> QED
  BY <1>1, <1>2, <1>3, <1>4, UnlockedStep DEF NextTemplate, TypeOK

LEMMA IsNotTrackedIInv ==
  ASSUME IInv, NEW w \in Workers, IsNotTracked(w) PROVE IInv'
<1>1. /\ AfterCheck \in Pc \ Critical /\ pc[w] \notin Critical
      /\ ~(DynamicWatches /\ AfterCheck \in {"recheck", "lockTrack", "append"})
  BY DEF AfterCheck, Pc, Critical, IsNotTracked, Step
<1> QED
  BY <1>1, UnlockedStep
     DEF IsNotTracked, Step, IInv, TypeOK, ManagedIsTracked

LEMMA StillNotTrackedIInv ==
  ASSUME IInv, NEW w \in Workers, StillNotTracked(w) PROVE IInv'
<1>1. "lockTrack" \in Pc \ Critical /\ "recheck" \notin Critical
  BY DEF Pc, Critical
<1>2. DynamicWatches => watches[gvk[w]] > 0
  BY DEF StillNotTracked, Step, IInv, AboutToTrack
<1> QED
  BY <1>1, <1>2, UnlockedStep
     DEF StillNotTracked, Step, IInv, TypeOK, ManagedIsTracked

\* EndPass, and the error that returns before the mutex is taken.
LEMMA LeaveIInv ==
  ASSUME IInv, NEW w \in Workers, EndPass(w) \/ NewObjectFails(w)
  PROVE  IInv'
<1>1. /\ pc[w] \in {"template", "lockWatch"} /\ Goto(w, "idle")
      /\ UNCHANGED <<seenTypes, watches, mu, gvk, managed>>
      /\ faults' \in Nat
  BY DEF EndPass, NewObjectFails, Step, Fault, IInv, TypeOK
<1>2. "idle" \in Pc /\ {"template", "lockWatch", "idle"} \cap Critical = {}
  BY DEF Pc, Critical
<1> QED
  BY <1>1, <1>2, UnlockedStep DEF IInv, TypeOK, ManagedIsTracked

LEMMA LockIInv ==
  ASSUME IInv, NEW w \in Workers, Lock(w) PROVE IInv'
<1> USE DEF IInv
<1>1. PICK q \in Critical :
        /\ Goto(w, q) /\ pc[w] \notin Critical
        /\ DynamicWatches /\ q = "append" => watches[gvk[w]] > 0
  BY DEF Lock, Step, Critical, AboutToTrack
<1>2. mu = NoWorker /\ mu' = w
      /\ UNCHANGED <<seenTypes, watches, gvk, managed, faults>>
  BY DEF Lock
<1>3. /\ pc' \in [Workers -> Pc]
      /\ \A v \in Workers : pc'[v] = IF v = w THEN q ELSE pc[v]
  BY <1>1 DEF Goto, TypeOK, Pc, Critical
<1>4. \A v \in Workers : pc'[v] \in Critical <=> mu' = v
  BY <1>1, <1>2, <1>3, TypeTrackerAssumption DEF TypeOK
<1>5. TypeOK'
  BY <1>2, <1>3, <1>4 DEF TypeOK
<1>6. TrackedIsWatched' /\ ManagedIsTracked'
  BY <1>2 DEF TrackedIsWatched, ManagedIsTracked, Tracked
<1>7. AboutToTrack'
  BY <1>1, <1>2, <1>3 DEF AboutToTrack, Critical
<1> QED
  BY <1>5, <1>6, <1>7

\* The watch, whether it fails or not, ends with the mutex free.
LEMMA WatchIInv ==
  ASSUME IInv, NEW w \in Workers, WatchOwned(w) \/ WatchFails(w)
  PROVE  IInv'
<1> USE DEF IInv
<1>1. PICK q \in Pc \ Critical :
        /\ Goto(w, q) /\ q \in {"recheck", "idle"}
        /\ q = "recheck" => WatchOwned(w)
  BY DEF WatchOwned, WatchFails, Step, Pc, Critical
<1>2. /\ pc[w] \in Critical /\ mu' = NoWorker
      /\ UNCHANGED <<seenTypes, gvk, managed>> /\ faults' \in Nat
  BY DEF WatchOwned, WatchFails, Step, Unlock, Critical, Fault, TypeOK
<1>3. /\ pc' \in [Workers -> Pc]
      /\ \A v \in Workers : pc'[v] = IF v = w THEN q ELSE pc[v]
  BY <1>1 DEF Goto, TypeOK
<1>4. \A v \in Workers : pc'[v] \in Critical <=> mu' = v
  BY <1>1, <1>2, <1>3, TypeTrackerAssumption DEF TypeOK
<1>5. gvk[w] \in Types
  BY DEF TypeOK
<1>6. /\ watches' \in [Types -> Nat]
      /\ \A t \in Types : watches[t] > 0 => watches'[t] > 0
      /\ WatchOwned(w) => watches'[gvk[w]] > 0
  <2>1. CASE WatchOwned(w)
    <3>1. watches' = [watches EXCEPT ![gvk[w]] = @ + 1]
      BY <2>1 DEF WatchOwned
    <3> QED
      BY <1>5, <3>1 DEF TypeOK
  <2>2. CASE ~WatchOwned(w)
    BY <2>2 DEF WatchFails, TypeOK
  <2> QED
    BY <2>1, <2>2
<1>7. TypeOK'
  BY <1>2, <1>3, <1>4, <1>6 DEF TypeOK
<1>8. TrackedIsWatched' /\ ManagedIsTracked'
  BY <1>2, <1>6 DEF TrackedIsWatched, ManagedIsTracked, Tracked
<1>9. AboutToTrack'
  BY <1>1, <1>2, <1>3, <1>6 DEF AboutToTrack, TypeOK
<1> QED
  BY <1>7, <1>8, <1>9

LEMMA AppendTypeIInv ==
  ASSUME IInv, NEW w \in Workers, AppendType(w) PROVE IInv'
<1> USE DEF IInv
<1>1. /\ pc[w] = "append" /\ gvk[w] \in Types
      /\ seenTypes' = Append(seenTypes, gvk[w])
      /\ NextTemplate(w) /\ mu' = NoWorker
      /\ UNCHANGED <<watches, gvk, faults>>
  BY DEF AppendType, Unlock, TypeOK
<1>2. /\ seenTypes' \in Seq(Types)
      /\ \A t \in Types : Tracked(t)' <=> (Tracked(t) \/ t = gvk[w])
  BY <1>1, AppendTracks
<1>3. /\ pc' \in [Workers -> Pc]
      /\ \A v \in Workers : pc'[v] = IF v = w THEN "template" ELSE pc[v]
  BY <1>1 DEF NextTemplate, Goto, TypeOK, Pc
<1>4. /\ managed' \in [Workers -> SUBSET Types]
      /\ \A v \in Workers : managed'[v] \subseteq managed[v] \union {gvk[w]}
  BY <1>1, NextTemplateManages
<1>5. \A v \in Workers : pc'[v] \in Critical <=> mu' = v
  BY <1>1, <1>3, TypeTrackerAssumption DEF TypeOK, Critical
<1>6. TypeOK'
  BY <1>1, <1>2, <1>3, <1>4, <1>5 DEF TypeOK
<1>7. DynamicWatches => watches[gvk[w]] > 0
  BY <1>1 DEF AboutToTrack
<1>8. TrackedIsWatched'
  BY <1>1, <1>2, <1>7 DEF TrackedIsWatched
<1>9. ManagedIsTracked'
  BY <1>2, <1>4, <1>6 DEF ManagedIsTracked, TypeOK
<1>10. AboutToTrack'
  BY <1>1, <1>3 DEF AboutToTrack
<1> QED
  BY <1>6, <1>8, <1>9, <1>10

LEMMA RestartIInv ==
  ASSUME IInv, Restart PROVE IInv'
<1> USE DEF IInv
<1>1. /\ seenTypes' = <<>> /\ watches' = [t \in Types |-> 0]
      /\ mu' = NoWorker /\ pc' = [w \in Workers |-> "idle"]
      /\ managed' = [w \in Workers |-> {}] /\ UNCHANGED gvk
      /\ faults' \in Nat
  BY DEF Restart, Fault, TypeOK
<1>2. TypeOK'
  BY <1>1, TypeTrackerAssumption DEF TypeOK, Pc, Critical
<1>3. TrackedIsWatched'
  BY <1>1 DEF TrackedIsWatched, Tracked
<1>4. ManagedIsTracked' /\ AboutToTrack'
  BY <1>1 DEF ManagedIsTracked, AboutToTrack
<1> QED
  BY <1>2, <1>3, <1>4

LEMMA StutterIInv == ASSUME IInv, UNCHANGED vars PROVE IInv'
BY DEF IInv, vars, TypeOK, TrackedIsWatched, ManagedIsTracked,
       AboutToTrack, Tracked

\* IInv is an invariant.
THEOREM Invariance == Spec => []IInv
<1>1. ASSUME IInv, [Next]_vars PROVE IInv'
  <2>1. ASSUME NEW w \in Workers, Track(w) PROVE IInv'
    BY <1>1, <2>1, FoundIInv, IsNotTrackedIInv, LockIInv, WatchIInv,
       StillNotTrackedIInv, AppendTypeIInv DEF Track
  <2>2. ASSUME NEW w \in Workers,
               StartPass(w) \/ (\E t \in Types : Reference(w, t))
                 \/ EndPass(w) \/ NewObjectFails(w) \/ WatchFails(w)
        PROVE  IInv'
    BY <1>1, <2>2, StartPassIInv, ReferenceIInv, LeaveIInv, WatchIInv
  <2> QED
    BY <1>1, <2>1, <2>2, RestartIInv, StutterIInv DEF Next
<1> QED
  BY <1>1, InitIInv, PTL DEF Spec

\* Types, and a worker is in a critical section of the tracker (watchOwned,
\* trackType) exactly while it holds the mutex, whatever fails.
THEOREM TypeCorrect == Spec => []TypeOK
BY Invariance, PTL DEF IInv

\* No interleaving of the unlocked lookups, the watches, their failures and
\* the appends leaves a type in the tracker that no event source watches.
THEOREM TrackedWatched == Spec => []TrackedIsWatched
BY Invariance, PTL DEF IInv

\* What a worker managed is in the tracker by the time it prunes.
THEOREM ManagedTracked == Spec => []ManagedIsTracked
BY Invariance, PTL DEF IInv

-----------------------------------------------------------------------------
(* How often a type is added *)

\* The workers on their way to a watch on t, or from there to an entry.
Before(t) == {w \in Workers : gvk[w] = t /\ pc[w] \in {"lockWatch", "watch"}}
After(t) ==
  {w \in Workers : gvk[w] = t /\ pc[w] \in {"recheck", "lockTrack", "append"}}

N == Cardinality(Workers)

\* Each worker adds an entry and a watch at most, and none sets out to once the
\* type is tracked.
Leak(t, e, x, b, a) ==
  /\ e + b + a <= N /\ x + b <= N
  /\ ~Tracked(t) => x <= a

LeakInv ==
  \A t \in Types :
    Leak(t, Cardinality(Entries(t)), watches[t], Cardinality(Before(t)),
         Cardinality(After(t)))

LEMMA EntriesFinite ==
  ASSUME TypeOK, NEW t \in Types
  PROVE  /\ IsFiniteSet(Entries(t)) /\ Cardinality(Entries(t)) \in Nat
         /\ ~Tracked(t) => Cardinality(Entries(t)) = 0
<1>1. Len(seenTypes) \in Nat /\ DOMAIN seenTypes = 1..Len(seenTypes)
  BY DEF TypeOK
<1>2. IsFiniteSet(1..Len(seenTypes)) /\ Entries(t) \in SUBSET (1..Len(seenTypes))
  BY <1>1, FS_Interval DEF Entries
<1>3. IsFiniteSet(Entries(t))
  BY <1>2, FS_Subset
<1>4. ~Tracked(t) => Entries(t) = {}
  BY <1>1 DEF Tracked, Entries
<1> QED
  BY <1>3, <1>4, FS_CardinalityType, FS_EmptySet

LEMMA AppendCounts ==
  ASSUME TypeOK, NEW g \in Types, seenTypes' = Append(seenTypes, g),
         NEW t \in Types
  PROVE  Cardinality(Entries(t)') =
           IF t = g THEN Cardinality(Entries(t)) + 1 ELSE Cardinality(Entries(t))
<1> DEFINE n == Len(seenTypes)
<1>1. /\ n \in Nat /\ Len(seenTypes') = n + 1
      /\ \A i \in 1..n : seenTypes'[i] = seenTypes[i]
      /\ seenTypes'[n + 1] = g
  BY DEF TypeOK
<1>2. 1..(n + 1) = (1..n) \union {n + 1} /\ n + 1 \notin 1..n
  BY <1>1
<1>3. CASE t = g
  <2>1. Entries(t)' = Entries(t) \union {n + 1} /\ n + 1 \notin Entries(t)
    BY <1>1, <1>2, <1>3 DEF Entries
  <2> QED
    BY <1>3, <2>1, EntriesFinite, FS_AddElement
<1>4. CASE t # g
  <2>1. Entries(t)' = Entries(t)
    BY <1>1, <1>2, <1>4 DEF Entries
  <2> QED
    BY <1>4, <2>1
<1> QED
  BY <1>3, <1>4

LEMMA DisjointCount ==
  ASSUME NEW B \in SUBSET Workers, NEW A \in SUBSET Workers, B \cap A = {}
  PROVE  /\ IsFiniteSet(B) /\ IsFiniteSet(A)
         /\ Cardinality(B) \in Nat /\ Cardinality(A) \in Nat /\ N \in Nat
         /\ Cardinality(B) + Cardinality(A) <= N
<1>1. IsFiniteSet(Workers)
  BY TypeTrackerAssumption
<1>2. IsFiniteSet(B) /\ IsFiniteSet(A)
  BY <1>1, FS_Subset
<1>3. Cardinality(B) \in Nat /\ Cardinality(A) \in Nat /\ N \in Nat
  BY <1>1, <1>2, FS_CardinalityType DEF N
<1>4. Cardinality(B \cap A) = 0
  BY FS_EmptySet
<1>5. Cardinality(B \union A) = Cardinality(B) + Cardinality(A)
  <2>1. Cardinality(B \union A)
          = Cardinality(B) + Cardinality(A) - Cardinality(B \cap A)
    BY <1>2, FS_Union, ZenonT(30)
  <2> QED
    BY <1>3, <1>4, <2>1
<1>6. B \union A \in SUBSET Workers
  OBVIOUS
<1>7. Cardinality(B \union A) <= N
  BY <1>1, <1>6, FS_Subset DEF N
<1> QED
  BY <1>2, <1>3, <1>5, <1>7

LEMMA WorkersCount ==
  ASSUME NEW t
  PROVE  /\ IsFiniteSet(Before(t)) /\ IsFiniteSet(After(t))
         /\ Cardinality(Before(t)) \in Nat /\ Cardinality(After(t)) \in Nat
         /\ N \in Nat /\ Cardinality(Before(t)) + Cardinality(After(t)) <= N
<1>1. Before(t) \in SUBSET Workers /\ After(t) \in SUBSET Workers
      /\ Before(t) \cap After(t) = {}
  BY DEF Before, After
<1> QED
  BY <1>1, DisjointCount

\* A worker that moves on with type g leaves the other types alone, and is
\* itself among those on their way, or not.
LEMMA Moves ==
  ASSUME TypeOK, NEW w \in Workers, NEW q, Goto(w, q), UNCHANGED gvk,
         NEW t \in Types
  PROVE  /\ t # gvk[w] => Before(t)' = Before(t) /\ After(t)' = After(t)
         /\ t = gvk[w] =>
              /\ Before(t)' = IF q \in {"lockWatch", "watch"}
                              THEN Before(t) \union {w} ELSE Before(t) \ {w}
              /\ After(t)' = IF q \in {"recheck", "lockTrack", "append"}
                             THEN After(t) \union {w} ELSE After(t) \ {w}
<1>1. \A v \in Workers : pc'[v] = IF v = w THEN q ELSE pc[v]
  BY DEF TypeOK, Goto
<1> QED
  BY <1>1 DEF Before, After

LEMMA InitLeak == Init => LeakInv
<1> SUFFICES ASSUME Init, NEW t \in Types
             PROVE  Leak(t, Cardinality(Entries(t)), watches[t],
                         Cardinality(Before(t)), Cardinality(After(t)))
  BY DEF LeakInv
<1>1. Before(t) = {} /\ After(t) = {} /\ Entries(t) = {} /\ watches[t] = 0
  BY DEF Init, Before, After, Entries
<1> QED
  BY <1>1, WorkersCount, FS_EmptySet DEF Leak

\* The steps that change neither the tracker nor who is on the way.
LEMMA SameLeak ==
  ASSUME LeakInv, UNCHANGED <<seenTypes, watches>>,
         \A t \in Types : Before(t)' = Before(t) /\ After(t)' = After(t)
  PROVE  LeakInv'
BY DEF LeakInv, Leak, Entries, Tracked

\* A worker gives up, or finds the type tracked.
LEMMA LeaveLeak ==
  ASSUME IInv, LeakInv, NEW w \in Workers, NEW q \in {"idle", "template"},
         Goto(w, q), UNCHANGED <<seenTypes, watches, gvk>>,
         w \in After(gvk[w]) => Tracked(gvk[w])
  PROVE  LeakInv'
<1> SUFFICES ASSUME NEW t \in Types
             PROVE  Leak(t, Cardinality(Entries(t)), watches[t],
                         Cardinality(Before(t)), Cardinality(After(t)))'
  BY DEF LeakInv
<1>1. Entries(t)' = Entries(t) /\ watches'[t] = watches[t]
      /\ (Tracked(t)' <=> Tracked(t))
  BY DEF Entries, Tracked
<1>2. CASE t # gvk[w]
  BY <1>1, <1>2, Moves DEF IInv, LeakInv, Leak
<1>3. CASE t = gvk[w]
  <2>1. Before(t)' = Before(t) \ {w} /\ After(t)' = After(t) \ {w}
    BY <1>3, Moves DEF IInv
  <2>2. Before(t)' \in SUBSET Before(t) /\ After(t)' \in SUBSET After(t)
        /\ (~Tracked(t) => After(t)' = After(t))
    BY <1>3, <2>1
  <2>3. /\ IsFiniteSet(Before(t)') /\ IsFiniteSet(After(t)')
        /\ Cardinality(Before(t)') <= Cardinality(Before(t))
        /\ Cardinality(After(t)') <= Cardinality(After(t))
    BY <2>2, WorkersCount, FS_Subset
  <2>5. Cardinality(Before(t)') \in Nat /\ Cardinality(After(t)') \in Nat
    BY <2>3, FS_CardinalityType
  <2>4. watches[t] \in Nat /\ Cardinality(Entries(t)) \in Nat
    BY EntriesFinite DEF IInv, TypeOK
  <2> QED
    BY <1>1, <2>2, <2>3, <2>4, <2>5, WorkersCount DEF LeakInv, Leak
<1> QED
  BY <1>2, <1>3

\* A worker that finds the type untracked sets out.
LEMMA SetOutLeak ==
  ASSUME IInv, LeakInv, NEW w \in Workers, IsNotTracked(w) PROVE LeakInv'
<1> SUFFICES ASSUME NEW t \in Types
             PROVE  Leak(t, Cardinality(Entries(t)), watches[t],
                         Cardinality(Before(t)), Cardinality(After(t)))'
  BY DEF LeakInv
<1>1. /\ UNCHANGED <<seenTypes, watches, gvk>> /\ ~Tracked(gvk[w])
      /\ pc[w] = "check" /\ Goto(w, AfterCheck)
  BY DEF IsNotTracked, Step
<1>2. Entries(t)' = Entries(t) /\ watches'[t] = watches[t]
      /\ (Tracked(t)' <=> Tracked(t))
  BY <1>1 DEF Entries, Tracked
<1>3. CASE t # gvk[w]
  BY <1>1, <1>2, <1>3, Moves DEF IInv, LeakInv, Leak
<1>4. CASE t = gvk[w]
  <2>1. w \notin Before(t) /\ w \notin After(t)
    BY <1>1 DEF Before, After
  <2>2. \/ Before(t)' = Before(t) \union {w} /\ After(t)' = After(t)
        \/ Before(t)' = Before(t) /\ After(t)' = After(t) \union {w}
    BY <1>1, <1>4, <2>1, Moves DEF IInv, AfterCheck
  <2>3. \/ /\ Cardinality(Before(t)') = Cardinality(Before(t)) + 1
           /\ Cardinality(After(t)') = Cardinality(After(t))
        \/ /\ Cardinality(Before(t)') = Cardinality(Before(t))
           /\ Cardinality(After(t)') = Cardinality(After(t)) + 1
    BY <2>1, <2>2, WorkersCount, FS_AddElement
  <2>4. Cardinality(Before(t)') + Cardinality(After(t)') <= N
    <3>1. Before(t)' \in SUBSET Workers /\ After(t)' \in SUBSET Workers
          /\ Before(t)' \cap After(t)' = {}
      BY DEF Before, After
    <3> QED
      BY <3>1, DisjointCount
  <2>5. watches[t] \in Nat /\ Cardinality(Entries(t)) = 0
    BY <1>1, <1>4, EntriesFinite DEF IInv, TypeOK
  <2>6. watches[t] <= Cardinality(After(t))
    BY <1>1, <1>4 DEF LeakInv, Leak
  <2> QED
    BY <1>2, <2>3, <2>4, <2>5, <2>6, WorkersCount DEF Leak
<1> QED
  BY <1>3, <1>4

LEMMA WatchLeak ==
  ASSUME IInv, LeakInv, NEW w \in Workers, WatchOwned(w) PROVE LeakInv'
<1> SUFFICES ASSUME NEW t \in Types
             PROVE  Leak(t, Cardinality(Entries(t)), watches[t],
                         Cardinality(Before(t)), Cardinality(After(t)))'
  BY DEF LeakInv
<1>1. /\ UNCHANGED <<seenTypes, gvk>> /\ pc[w] = "watch" /\ Goto(w, "recheck")
      /\ watches' = [watches EXCEPT ![gvk[w]] = @ + 1]
  BY DEF WatchOwned, Step
<1>2. watches \in [Types -> Nat]
  BY DEF IInv, TypeOK
<1>3. Entries(t)' = Entries(t) /\ (Tracked(t)' <=> Tracked(t))
  BY <1>1 DEF Entries, Tracked
<1>4. CASE t # gvk[w]
  <2>1. watches'[t] = watches[t]
    BY <1>1, <1>2, <1>4
  <2> QED
    BY <1>1, <1>3, <1>4, <2>1, Moves DEF IInv, LeakInv, Leak
<1>5. CASE t = gvk[w]
  <2>1. watches'[t] = watches[t] + 1
    BY <1>1, <1>2, <1>5
  <2>2. w \in Before(t) /\ w \notin After(t)
    BY <1>1, <1>5 DEF Before, After
  <2>3. Before(t)' = Before(t) \ {w} /\ After(t)' = After(t) \union {w}
    BY <1>1, <1>5, Moves DEF IInv
  <2>4. /\ Cardinality(Before(t)') = Cardinality(Before(t)) - 1
        /\ Cardinality(After(t)') = Cardinality(After(t)) + 1
    <3>1. Cardinality(Before(t) \ {w}) = Cardinality(Before(t)) - 1
      BY <2>2, WorkersCount, FS_RemoveElement
    <3>2. Cardinality(After(t) \union {w}) = Cardinality(After(t)) + 1
      BY <2>2, WorkersCount, FS_AddElement
    <3> QED
      BY <2>3, <3>1, <3>2
  <2>5. watches[t] \in Nat /\ Cardinality(Entries(t)) \in Nat
    BY <1>2, EntriesFinite DEF IInv
  <2> QED
    BY <1>3, <2>1, <2>4, <2>5, WorkersCount DEF LeakInv, Leak
<1> QED
  BY <1>4, <1>5

LEMMA AppendLeak ==
  ASSUME IInv, LeakInv, NEW w \in Workers, AppendType(w) PROVE LeakInv'
<1> SUFFICES ASSUME NEW t \in Types
             PROVE  Leak(t, Cardinality(Entries(t)), watches[t],
                         Cardinality(Before(t)), Cardinality(After(t)))'
  BY DEF LeakInv
<1>1. /\ UNCHANGED <<watches, gvk>> /\ pc[w] = "append" /\ Goto(w, "template")
      /\ seenTypes' = Append(seenTypes, gvk[w]) /\ gvk[w] \in Types
  BY DEF AppendType, NextTemplate, IInv, TypeOK
<1>2. /\ Tracked(t)' <=> (Tracked(t) \/ t = gvk[w])
      /\ Cardinality(Entries(t)') =
           IF t = gvk[w] THEN Cardinality(Entries(t)) + 1
                         ELSE Cardinality(Entries(t))
  BY <1>1, AppendTracks, AppendCounts DEF IInv
<1>3. CASE t # gvk[w]
  BY <1>1, <1>2, <1>3, Moves DEF IInv, LeakInv, Leak
<1>4. CASE t = gvk[w]
  <2>1. w \notin Before(t) /\ w \in After(t)
    BY <1>1, <1>4 DEF Before, After
  <2>2. Before(t)' = Before(t) /\ After(t)' = After(t) \ {w}
    <3>1. Before(t)' = Before(t) \ {w} /\ After(t)' = After(t) \ {w}
      BY <1>1, <1>4, Moves DEF IInv
    <3> QED
      BY <2>1, <3>1
  <2>3. Cardinality(After(t)') = Cardinality(After(t)) - 1
    BY <2>1, <2>2, WorkersCount, FS_RemoveElement
  <2>4. watches[t] \in Nat /\ Cardinality(Entries(t)) \in Nat
    BY EntriesFinite DEF IInv, TypeOK
  <2> QED
    BY <1>1, <1>2, <1>4, <2>2, <2>3, <2>4, WorkersCount DEF LeakInv, Leak
<1> QED
  BY <1>3, <1>4

LEMMA StepLeak == ASSUME IInv, LeakInv, [Next]_vars PROVE LeakInv'
<1>1. ASSUME NEW w \in Workers, NEW t \in Types, Reference(w, t) PROVE LeakInv'
  <2>1. /\ UNCHANGED <<seenTypes, watches>> /\ pc[w] = "template"
        /\ \A v \in Workers : pc'[v] = IF v = w THEN "check" ELSE pc[v]
        /\ \A v \in Workers : v # w => gvk'[v] = gvk[v]
    BY <1>1 DEF Reference, Step, Goto, IInv, TypeOK
  <2>2. \A u \in Types : Before(u)' = Before(u) /\ After(u)' = After(u)
    BY <2>1 DEF Before, After
  <2> QED
    BY <2>1, <2>2, SameLeak
<1>2. ASSUME NEW w \in Workers,
             StartPass(w) \/ EndPass(w) \/ Lock(w) \/ StillNotTracked(w)
      PROVE  LeakInv'
  <2>1. /\ UNCHANGED <<seenTypes, watches, gvk>>
        /\ \/ {pc[w], pc'[w]} \subseteq {"idle", "template"}
           \/ {pc[w], pc'[w]} \subseteq {"lockWatch", "watch"}
           \/ {pc[w], pc'[w]} \subseteq {"recheck", "lockTrack", "append"}
        /\ \A v \in Workers : v # w => pc'[v] = pc[v]
    BY <1>2 DEF StartPass, EndPass, Lock, StillNotTracked, Step, Goto, IInv, TypeOK
  <2>2. \A u \in Types : Before(u)' = Before(u) /\ After(u)' = After(u)
    BY <2>1 DEF Before, After
  <2> QED
    BY <2>1, <2>2, SameLeak
<1>3. ASSUME NEW w \in Workers, IsTracked(w) \/ AlreadyTracked(w)
      PROVE  LeakInv'
  BY <1>3, LeaveLeak DEF IsTracked, AlreadyTracked, NextTemplate
<1>4. ASSUME NEW w \in Workers, NewObjectFails(w) \/ WatchFails(w)
      PROVE  LeakInv'
  <2>1. /\ pc[w] \in {"lockWatch", "watch"} /\ Goto(w, "idle")
        /\ UNCHANGED <<seenTypes, watches, gvk>>
    BY <1>4 DEF NewObjectFails, WatchFails, Step
  <2> QED
    BY <2>1, LeaveLeak DEF After
<1>5. CASE Restart
  <2>1. seenTypes' = <<>> /\ watches' = [t \in Types |-> 0]
        /\ pc' = [w \in Workers |-> "idle"]
    BY <1>5 DEF Restart
  <2>2. ASSUME NEW t \in Types
        PROVE  Leak(t, Cardinality(Entries(t)), watches[t],
                    Cardinality(Before(t)), Cardinality(After(t)))'
    <3>1. /\ Before(t)' = {} /\ After(t)' = {} /\ Entries(t)' = {}
          /\ watches'[t] = 0
      BY <2>1 DEF Before, After, Entries
    <3>2. N \in Nat
      BY WorkersCount
    <3>3. /\ Cardinality(Before(t)') = 0 /\ Cardinality(After(t)') = 0
          /\ Cardinality(Entries(t)') = 0
      BY <3>1, FS_EmptySet
    <3> QED
      BY <3>1, <3>2, <3>3 DEF Leak
  <2> QED
    BY <2>2 DEF LeakInv
<1>6. CASE UNCHANGED vars
  BY <1>6, SameLeak DEF vars, Before, After
<1> QED
  BY <1>1, <1>2, <1>3, <1>4, <1>5, <1>6, SetOutLeak, WatchLeak, AppendLeak
     DEF Next, Track

\* Each worker adds a type once at most: the unlocked lookups cost as many
\* watches and entries as there are workers, however long the process lives.
THEOREM LeakBounded == Spec => []LeakIsBounded
<1>1. IInv /\ LeakInv => LeakIsBounded
  BY EntriesFinite, WorkersCount DEF LeakInv, Leak, LeakIsBounded, IInv, TypeOK, N
<1> QED
  BY <1>1, InitLeak, StepLeak, Invariance, PTL DEF Spec

-----------------------------------------------------------------------------
(* The abstract tracker *)

TrackedSet == {t \in Types : Tracked(t)}
WatchedSet == {t \in Types : watches[t] > 0}

LEMMA WatchImplements ==
  ASSUME IInv, NEW w \in Workers, WatchOwned(w)
  PROVE  \E t \in Types : Promise!Watch(t)
<1>1. gvk[w] \in Types /\ watches \in [Types -> Nat]
  BY DEF IInv, TypeOK
<1>2. watches' = [watches EXCEPT ![gvk[w]] = @ + 1] /\ seenTypes' = seenTypes
  BY DEF WatchOwned
<1>3. WatchedSet' = WatchedSet \union {gvk[w]}
  BY <1>1, <1>2 DEF WatchedSet
<1>4. TrackedSet' = TrackedSet
  BY <1>2 DEF TrackedSet, Tracked
<1> QED
  BY <1>1, <1>3, <1>4 DEF Promise!Watch, TrackedSet, WatchedSet

LEMMA AppendImplements ==
  ASSUME IInv, NEW w \in Workers, AppendType(w)
  PROVE  \E t \in Types : Promise!Track(t)
<1>1. /\ gvk[w] \in Types /\ pc[w] = "append"
      /\ seenTypes' = Append(seenTypes, gvk[w]) /\ watches' = watches
  BY DEF AppendType, IInv, TypeOK
<1>2. TrackedSet' = TrackedSet \union {gvk[w]}
  BY <1>1, AppendTracks DEF TrackedSet, IInv
<1>3. DynamicWatches => gvk[w] \in WatchedSet
  BY <1>1 DEF IInv, AboutToTrack, WatchedSet
<1> QED
  BY <1>1, <1>2, <1>3 DEF Promise!Track, TrackedSet, WatchedSet

LEMMA StepImplements ==
  ASSUME IInv, [Next]_vars
  PROVE  Promise!Next \/ UNCHANGED <<TrackedSet, WatchedSet>>
<1>1. CASE UNCHANGED <<seenTypes, watches>>
  BY <1>1 DEF TrackedSet, WatchedSet, Tracked
<1>2. CASE Restart
  <2>1. seenTypes' = <<>> /\ watches' = [t \in Types |-> 0]
    BY <1>2 DEF Restart
  <2>2. TrackedSet' = {} /\ WatchedSet' = {}
    BY <2>1 DEF TrackedSet, WatchedSet, Tracked
  <2>3. Promise!Forget
    BY <2>2 DEF Promise!Forget, TrackedSet, WatchedSet
  <2> QED
    BY <2>3 DEF Promise!Next
<1>3. CASE \E w \in Workers : WatchOwned(w) \/ AppendType(w)
  BY <1>3, WatchImplements, AppendImplements DEF Promise!Next
<1> QED
  BY <1>1, <1>2, <1>3
     DEF Next, vars, StartPass, Reference, Track, IsTracked, IsNotTracked, Lock,
         AlreadyTracked, StillNotTracked, EndPass, NewObjectFails, WatchFails

\* Whatever the interleaving of the workers' lookups, critical sections and
\* failures, they add up to a tracker that watches a type before it tracks it
\* and keeps it until the process ends.
THEOREM Implements == Spec => KeepsPromise
<1>1. Init => Promise!Init
  BY DEF Init, Promise!Init, Tracked
<1>2. ASSUME IInv, [Next]_vars
      PROVE  [Promise!Next]_<<{t \in Types : Tracked(t)},
                              {t \in Types : watches[t] > 0}>>
  BY <1>2, StepImplements DEF TrackedSet, WatchedSet
<1> QED
  BY <1>1, <1>2, Invariance, PTL DEF Spec, KeepsPromise, Promise!Spec

===========================================================================
