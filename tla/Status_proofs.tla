--------------------------- MODULE Status_proofs ---------------------------
(***************************************************************************)
(* Theorems about module Status, for any workloads of both kinds in any    *)
(* forms, any lists of them, the three tiers, with functions of the caller *)
(* or without, and any number of edits, changes and faults.                *)
(*                                                                         *)
(* AggregateIsWorst and HealthyIsRolledOut are about the one step that     *)
(* writes.  StatusInv follows the pass there: at each of its steps the     *)
(* aggregate is the worst of the workloads that it has looked at, and no   *)
(* workload is left to look at when it writes.                             *)
(*                                                                         *)
(* RestsReported is about the states between the passes.  Unless another   *)
(* pass is due, the one under way works on the newest version of the CR    *)
(* and of the workloads it has looked at, and ends without a write only    *)
(* when it found in the status what it would write, or when the CR lists   *)
(* no workloads and there are no functions.                                *)
(***************************************************************************)
EXTENDS Status, Versions_proofs, TLAPS

---------------------------------------------------------------------------
(* The order of the health codes *)

\* The place of each code in healthOrder.
LEMMA Ranks ==
  /\ HealthStatusCode =
       {"Healthy", "Suspended", "Progressing", "Missing", "Degraded", "Unknown"}
  /\ Rank("Healthy") = 1 /\ Rank("Suspended") = 2 /\ Rank("Progressing") = 3
  /\ Rank("Missing") = 4 /\ Rank("Degraded") = 5 /\ Rank("Unknown") = 6
<1>1. /\ DOMAIN healthOrder = 1..6
      /\ healthOrder[1] = "Healthy" /\ healthOrder[2] = "Suspended"
      /\ healthOrder[3] = "Progressing" /\ healthOrder[4] = "Missing"
      /\ healthOrder[5] = "Degraded" /\ healthOrder[6] = "Unknown"
  BY DEF healthOrder
<1>2. \A i \in 1..6 : i = 1 \/ i = 2 \/ i = 3 \/ i = 4 \/ i = 5 \/ i = 6
  OBVIOUS
<1>3. HealthStatusCode =
        {"Healthy", "Suspended", "Progressing", "Missing", "Degraded", "Unknown"}
  BY <1>1, <1>2 DEF HealthStatusCode
<1>4. ASSUME NEW i \in 1..6 PROVE Rank(healthOrder[i]) = i
  <2>1. healthOrder[i] \in HealthStatusCode
    BY <1>1 DEF HealthStatusCode
  <2>2. \A j \in 1..6 : healthOrder[j] = healthOrder[i] => j = i
    BY <1>1, <1>2
  <2>3. Rank(healthOrder[i]) =
          CHOOSE j \in 1..6 : healthOrder[j] = healthOrder[i]
    BY <1>1, <2>1 DEF Rank
  <2> QED
    BY <2>2, <2>3
<1>5. /\ Rank(healthOrder[1]) = 1 /\ Rank(healthOrder[2]) = 2
      /\ Rank(healthOrder[3]) = 3 /\ Rank(healthOrder[4]) = 4
      /\ Rank(healthOrder[5]) = 5 /\ Rank(healthOrder[6]) = 6
  BY <1>4
<1> QED
  BY <1>1, <1>3, <1>5

LEMMA RankOrders ==
  /\ \A c \in HealthStatusCode : Rank(c) \in Nat /\ Rank(c) >= 1
  /\ \A c, d \in HealthStatusCode : Rank(c) = Rank(d) => c = d
BY Ranks

IsWorst(c, codes) ==
  /\ c \in codes
  /\ \A d \in codes : Rank(d) <= Rank(c)

LEMMA WorstIs ==
  ASSUME NEW S \in SUBSET HealthStatusCode, NEW c, IsWorst(c, S)
  PROVE  Worst(S) = c
<1>1. IsWorst(Worst(S), S)
  BY DEF IsWorst, Worst
<1>2. /\ c \in HealthStatusCode /\ Worst(S) \in HealthStatusCode
      /\ Rank(c) <= Rank(Worst(S)) /\ Rank(Worst(S)) <= Rank(c)
  BY <1>1 DEF IsWorst
<1>3. Rank(c) = Rank(Worst(S))
  BY <1>2, RankOrders
<1> QED
  BY <1>2, <1>3, RankOrders

\* The worst so far and one more code.
LEMMA WorseIsWorst ==
  ASSUME NEW S \in SUBSET HealthStatusCode, NEW c, IsWorst(c, S),
         NEW h \in HealthStatusCode
  PROVE  IsWorst(IF healthIsWorse(c, h) THEN h ELSE c, S \union {h})
<1>1. \A d \in S \union {c, h} : Rank(d) \in Nat
  BY RankOrders DEF IsWorst
<1>2. CASE healthIsWorse(c, h)
  BY <1>1, <1>2 DEF IsWorst, healthIsWorse
<1>3. CASE ~healthIsWorse(c, h)
  BY <1>1, <1>3 DEF IsWorst, healthIsWorse
<1> QED
  BY <1>2, <1>3

---------------------------------------------------------------------------
(* The health of a workload *)

LEMMA FormIs == Form \subseteq Deployment \union StatefulSet
BY StatusAssumption DEF Form

LEMMA HealthIsCode == \A w : HealthOf(w) \in HealthStatusCode
BY Ranks DEF HealthOf, GetDeploymentHealth, GetStatefulSetHealth

\* A workload whose health is Healthy was rolled out.
LEMMA HealthyRolledOut ==
  ASSUME NEW w \in Form, HealthOf(w) = "Healthy" PROVE RolledOut(w)
<1>1. CASE w \in Deployment
  <2>1. /\ w.kind = "Deployment" /\ GetDeploymentHealth(w) = "Healthy"
        /\ w.generation \in Nat /\ w.observed \in Nat /\ w.want \in Nat
        /\ w.updated \in Nat /\ w.replicas \in Nat /\ w.available \in Nat
    BY <1>1 DEF HealthOf, Deployment
  <2>2. /\ ~w.paused /\ ~w.deadlineExceeded /\ ~(w.generation > w.observed)
        /\ ~(w.updated < w.want) /\ ~(w.replicas > w.updated)
        /\ ~(w.available < w.updated)
    BY <2>1 DEF GetDeploymentHealth
  <2>3. /\ w.observed >= w.generation /\ w.available >= w.want
        /\ w.replicas <= w.updated
    BY <2>1, <2>2
  <2> QED
    BY <2>1, <2>2, <2>3 DEF RolledOut
<1>2. CASE w \in StatefulSet
  <2>1. /\ w.kind = "StatefulSet" /\ GetStatefulSetHealth(w) = "Healthy"
        /\ w.generation \in Nat /\ w.observed \in Nat /\ w.want \in Nat
        /\ w.ready \in Nat /\ w.updated \in Nat /\ w.partition \in Nat
    BY <1>2 DEF HealthOf, StatefulSet
  <2>2. /\ ~(w.generation > w.observed) /\ ~(w.ready < w.want)
        /\ w.strategy = "partitioned" => ~(w.updated < w.want - w.partition)
        /\ w.strategy = "rolling" => w.revisions
    BY <2>1 DEF GetStatefulSetHealth
  <2>3. /\ w.observed >= w.generation /\ w.ready >= w.want
        /\ w.strategy = "partitioned" => w.updated + w.partition >= w.want
    BY <2>1, <2>2
  <2> QED
    BY <2>1, <2>2, <2>3 DEF RolledOut
<1> QED
  BY <1>1, <1>2, FormIs

---------------------------------------------------------------------------
(* The invariant *)

\* The codes that the aggregate of o is the worst of, with the workloads L.
Healths(o, L) == {"Healthy"} \union {o.health[k] : k \in L}

StatusInv ==
  pc # "idle" =>
    /\ todo \subseteq inst.list
    /\ pc = "write" => todo = {}
    /\ tier = 3 => IsWorst(inst.aggregate, Healths(inst, inst.list \ todo))

---------------------------------------------------------------------------
(* Writes and reads *)

LEMMA NewIsCR ==
  ASSUME NEW n \in Nat, NEW l \in SUBSET Keys PROVE NewCR(n, l) \in CR
BY DEF NewCR, CR, Code

\* A write makes o the newest version.
LEMMA WriteWrites ==
  ASSUME TypeOK, NEW o \in CR, Write(o)
  PROVE  /\ cr' \in Seq(CR) /\ cr' # <<>> /\ Last(cr') = o
         /\ fresh' \in BOOLEAN
<1>1. cr \in Seq(CR) /\ cr # <<>> /\ fresh \in BOOLEAN
  BY DEF TypeOK
<1>2. CASE o = Last(cr)
  BY <1>1, <1>2 DEF Write
<1>3. CASE o # Last(cr)
  BY <1>1, <1>3, AppendEnds DEF Write
<1> QED
  BY <1>2, <1>3

Snapshot == [Keys -> Form \union {Missing}]

FeedOK == feed \in [Kinds -> Seq(Snapshot)] /\ \A t \in Kinds : feed[t] # <<>>

LEMMA CachedIs ==
  ASSUME TypeOK, NEW k \in Keys
  PROVE  Cached(k) \in Form \union {Missing}
<1>1. KindOf[k] \in Kinds
  BY StatusAssumption
<1>2. feed[KindOf[k]] \in Seq(Snapshot) /\ feed[KindOf[k]] # <<>>
  BY <1>1 DEF TypeOK, Snapshot
<1>3. Head(feed[KindOf[k]]) \in Snapshot
  BY <1>2, SeqEnds
<1> QED
  BY <1>3 DEF Cached, Snapshot

---------------------------------------------------------------------------
(* The invariant is preserved, action by action *)

\* setWorkloadHealth, on a CR q that holds the workload w.
LEMMA SetHealthIs ==
  ASSUME NEW q \in CR, NEW k \in Keys, NEW w, q.work[k] = w, tier \in 1..3,
         NEW p, p = WithHealth(q, k)
  PROVE  /\ p \in CR /\ p.list = q.list /\ p.work = q.work
         /\ p.generation = q.generation /\ p.custom = q.custom
         /\ tier >= 2 => p.health = [q.health EXCEPT ![k] = HealthOf(w)]
         /\ tier = 3 => p.aggregate =
              IF healthIsWorse(q.aggregate, HealthOf(w))
                THEN HealthOf(w) ELSE q.aggregate
<1> DEFINE h == HealthOf(w)
           H == [q.health EXCEPT ![k] = IF tier >= 2 THEN h ELSE @]
           A == IF tier = 3 /\ healthIsWorse(q.aggregate, h)
                  THEN h ELSE q.aggregate
<1>1. h \in Code
  BY HealthIsCode DEF Code
<1>2. p = [q EXCEPT !.health = H, !.aggregate = A]
  BY DEF WithHealth, CR
<1>3. q.health \in [Keys -> Code] /\ q.aggregate \in Code
  BY DEF CR
<1>4. H \in [Keys -> Code] /\ A \in Code
  BY <1>1, <1>3
<1>5. tier >= 2 => H = [q.health EXCEPT ![k] = h]
  BY <1>3
<1>6. tier = 3 => A = IF healthIsWorse(q.aggregate, h)
                        THEN h ELSE q.aggregate
  OBVIOUS
<1> HIDE DEF H, A, h
<1>7. /\ p.list = q.list /\ p.work = q.work
      /\ p.generation = q.generation /\ p.custom = q.custom
      /\ p.health = H /\ p.aggregate = A
  BY <1>2 DEF CR
<1>8. p \in CR
  BY <1>2, <1>4 DEF CR
<1>9. tier >= 2 => p.health = [q.health EXCEPT ![k] = HealthOf(w)]
  BY <1>5, <1>7 DEF h
<1>10. tier = 3 => p.aggregate =
         IF healthIsWorse(q.aggregate, HealthOf(w))
           THEN HealthOf(w) ELSE q.aggregate
  BY <1>6, <1>7 DEF h
<1> QED
  BY <1>7, <1>8, <1>9, <1>10

Inv == TypeOK /\ StatusInv

LEMMA AggregateKeeps ==
  ASSUME Inv, NEW k \in Keys, Aggregate(k)
  PROVE  Inv'
<1> DEFINE w == Cached(k)
           q == [inst EXCEPT !.work[k] = w]
<1> USE DEF Inv
<1>1. /\ pc = "workloads" /\ pc' = pc /\ UNCHANGED <<tier, mutators>>
      /\ k \in todo /\ todo' = todo \ {k} /\ w # Missing
      /\ inst' = WithHealth(q, k)
  BY DEF Aggregate, NextWorkload, setup
<1>2. tier \in 1..3 /\ inst \in CR /\ todo \subseteq Keys
  BY DEF TypeOK
<1>3. w \in Form
  BY <1>1, CachedIs
<1>4. /\ q \in CR /\ q.list = inst.list /\ q.health = inst.health
      /\ q.aggregate = inst.aggregate /\ q.work = [inst.work EXCEPT ![k] = w]
  BY <1>2, <1>3 DEF CR
<1>5. /\ q.work[k] = w
      /\ inst.work \in [Keys -> Form \union {Missing}]
      /\ inst.health \in [Keys -> Code]
      /\ inst.list \subseteq Keys
  BY <1>2, <1>3, <1>4 DEF CR
<1> HIDE DEF q, w
<1>6. /\ inst' \in CR /\ inst'.list = inst.list
      /\ inst'.work = [inst.work EXCEPT ![k] = w]
      /\ tier >= 2 => inst'.health = [inst.health EXCEPT ![k] = HealthOf(w)]
      /\ tier = 3 => inst'.aggregate =
           IF healthIsWorse(inst.aggregate, HealthOf(w))
             THEN HealthOf(w) ELSE inst.aggregate
  BY <1>1, <1>2, <1>4, <1>5, SetHealthIs
<1>7. PassOK'
  <2> SUFFICES ASSUME NEW j \in inst'.list \ todo'
               PROVE  /\ inst'.work[j] # Missing
                      /\ tier >= 2 => inst'.health[j] = HealthOf(inst'.work[j])
    BY <1>1 DEF PassOK
  <2>1. CASE j = k
    <3>1. inst'.work[j] = w /\ (tier >= 2 => inst'.health[j] = HealthOf(w))
      BY <1>5, <1>6, <2>1
    <3> QED
      BY <1>1, <3>1
  <2>2. CASE j # k
    <3>1. j \in inst.list \ todo
      BY <1>1, <1>6, <2>2
    <3>2. /\ inst.work[j] # Missing
          /\ tier >= 2 => inst.health[j] = HealthOf(inst.work[j])
      BY <1>1, <3>1 DEF TypeOK, PassOK
    <3>3. /\ inst'.work[j] = inst.work[j]
          /\ tier >= 2 => inst'.health[j] = inst.health[j]
      BY <1>5, <1>6, <2>2, <3>1
    <3> QED
      BY <3>2, <3>3
  <2> QED
    BY <2>1, <2>2
<1>8. StatusInv'
  <2>1. todo \subseteq inst.list
    BY <1>1 DEF StatusInv
  <2>2. todo' \subseteq inst'.list /\ pc' # "write"
    BY <1>1, <1>6, <2>1
  <2>3. ASSUME tier = 3
        PROVE  IsWorst(inst'.aggregate, Healths(inst', inst'.list \ todo'))
    <3> DEFINE S == Healths(inst, inst.list \ todo)
    <3>1. IsWorst(inst.aggregate, S)
      BY <1>1, <2>3 DEF StatusInv
    <3>2. S \subseteq HealthStatusCode
      <4>1. \A j \in inst.list \ todo : inst.health[j] = HealthOf(inst.work[j])
        BY <1>1, <2>3 DEF TypeOK, PassOK
      <4> QED
        BY <4>1, HealthIsCode, Ranks DEF Healths
    <3>3. HealthOf(w) \in HealthStatusCode
      BY HealthIsCode
    <3>4. inst'.health = [inst.health EXCEPT ![k] = HealthOf(w)]
      BY <1>6, <2>3
    <3>5. inst'.list \ todo' = (inst.list \ todo) \union {k}
      BY <1>1, <1>6, <2>1
    <3>6. /\ \A j \in inst.list \ todo : inst'.health[j] = inst.health[j]
          /\ inst'.health[k] = HealthOf(w)
      BY <1>1, <1>5, <3>4
    <3>7. Healths(inst', inst'.list \ todo') = S \union {HealthOf(w)}
      BY <3>5, <3>6 DEF Healths
    <3>8. inst'.aggregate = IF healthIsWorse(inst.aggregate, HealthOf(w))
                              THEN HealthOf(w) ELSE inst.aggregate
      BY <1>6, <2>3
    <3> HIDE DEF S
    <3>9. IsWorst(IF healthIsWorse(inst.aggregate, HealthOf(w))
                    THEN HealthOf(w) ELSE inst.aggregate, S \union {HealthOf(w)})
      BY <3>1, <3>2, <3>3, WorseIsWorst
    <3> QED
      BY <3>7, <3>8, <3>9
  <2> QED
    BY <1>1, <2>2, <2>3 DEF StatusInv
<1>9. TypeOK'
  <2>1. /\ UNCHANGED <<cr, feed, queued, fresh, budget>>
        /\ update' \in BOOLEAN
    BY DEF Aggregate, Differs
  <2>2. todo' \subseteq Keys
    BY <1>1, <1>2
  <2> QED
    BY <1>1, <1>6, <1>7, <2>1, <2>2 DEF TypeOK, budget
<1> QED
  BY <1>8, <1>9

\* The pass begins with no workload looked at, and the best aggregate.
LEMMA StartKeeps ==
  ASSUME Inv, Start
  PROVE  Inv'
<1> USE DEF Inv
<1>1. /\ pc' = "workloads" /\ inst' = ResetAggregate(Head(cr))
      /\ todo' = Head(cr).list /\ update' = FALSE /\ queued' = FALSE
      /\ fresh' = (Len(cr) = 1) /\ UNCHANGED <<tier, mutators, cr, feed, budget>>
  BY DEF Start, setup
<1>2. Head(cr) \in CR
  BY SeqEnds DEF TypeOK
<1>3. /\ inst' \in CR /\ inst'.list = Head(cr).list
      /\ tier = 3 => inst'.aggregate = "Healthy"
  BY <1>1, <1>2, Ranks DEF ResetAggregate, CR, Code
<1>4. todo' \subseteq Keys /\ inst'.list \ todo' = {}
  BY <1>1, <1>2, <1>3 DEF CR
<1>5. Healths(inst', inst'.list \ todo') = {"Healthy"}
  BY <1>4 DEF Healths
<1>6. Rank("Healthy") <= Rank("Healthy")
  BY Ranks
<1>7. StatusInv'
  <2>1. tier = 3 => IsWorst(inst'.aggregate, {"Healthy"})
    BY <1>3, <1>6 DEF IsWorst
  <2> QED
    BY <1>1, <1>3, <1>5, <2>1 DEF StatusInv
<1>8. PassOK'
  BY <1>4 DEF PassOK
<1>9. fresh' \in BOOLEAN
  BY <1>1
<1>10. TypeOK'
  BY <1>1, <1>3, <1>4, <1>8, <1>9 DEF TypeOK, budget
<1> QED
  BY <1>7, <1>10

LEMMA MutateKeeps ==
  ASSUME Inv, Mutate
  PROVE  Inv'
<1> USE DEF Inv
<1>1. /\ pc = "workloads" /\ todo = {} /\ pc' = "write" /\ todo' = todo
      /\ inst' = [inst EXCEPT !.custom = inst.generation] \/ inst' = inst
      /\ UNCHANGED <<tier, mutators, cr, feed, queued, fresh, budget>>
  BY DEF Mutate, CallMutators, setup
<1>2. inst \in CR
  BY DEF TypeOK
<1>3. /\ inst' \in CR /\ inst'.list = inst.list /\ inst'.work = inst.work
      /\ inst'.health = inst.health /\ inst'.aggregate = inst.aggregate
  BY <1>1, <1>2 DEF CR
<1>4. update' \in BOOLEAN
  BY DEF Mutate, CallMutators, TypeOK
<1>5. PassOK'
  <2>1. \A k \in inst.list \ todo :
          /\ inst.work[k] # Missing
          /\ tier >= 2 => inst.health[k] = HealthOf(inst.work[k])
    BY <1>1 DEF TypeOK, PassOK
  <2> QED
    BY <1>1, <1>3, <2>1 DEF PassOK
<1>6. StatusInv'
  <2>1. tier = 3 => IsWorst(inst.aggregate, Healths(inst, inst.list \ todo))
    BY <1>1 DEF StatusInv
  <2>2. Healths(inst', inst'.list \ todo') = Healths(inst, inst.list \ todo)
    BY <1>1, <1>3 DEF Healths
  <2> QED
    BY <1>1, <1>3, <2>1, <2>2 DEF StatusInv
<1>7. TypeOK'
  BY <1>1, <1>3, <1>4, <1>5 DEF TypeOK, budget
<1> QED
  BY <1>6, <1>7

\* A step that ends the pass, whatever it writes.
LEMMA ReturnKeeps ==
  ASSUME Inv, Return, UNCHANGED setup, FeedOK', queued' \in BOOLEAN,
         cr' \in Seq(CR), cr' # <<>>, fresh' \in BOOLEAN,
         edits' \in Nat, changes' \in Nat, faults' \in Nat
  PROVE  Inv'
<1> USE DEF Inv
<1>1. /\ pc' = "idle" /\ inst' = NoCR /\ todo' = {} /\ update' = FALSE
  BY DEF Return
<1>2. inst' \in CR
  BY <1>1, NewIsCR DEF NoCR
<1>3. PassOK' /\ StatusInv'
  BY <1>1 DEF PassOK, StatusInv
<1> QED
  BY <1>1, <1>2, <1>3 DEF TypeOK, FeedOK, Snapshot, setup

\* A step outside the pass keeps what it holds.
LEMMA LocalKeeps ==
  ASSUME Inv, UNCHANGED <<setup, local>>, FeedOK', queued' \in BOOLEAN,
         cr' \in Seq(CR), cr' # <<>>, fresh' \in BOOLEAN,
         edits' \in Nat, changes' \in Nat, faults' \in Nat
  PROVE  Inv'
<1>1. UNCHANGED <<tier, mutators, pc, inst, todo, update>>
  BY DEF setup, local
<1>2. PassOK'
  BY <1>1 DEF Inv, TypeOK, PassOK
<1>3. StatusInv'
  BY <1>1 DEF Inv, StatusInv
<1>4. TypeOK'
  BY <1>1, <1>2 DEF Inv, TypeOK, FeedOK, Snapshot
<1> QED
  BY <1>3, <1>4 DEF Inv

\* The edit of a user leaves the status alone.
LEMMA EditIs ==
  ASSUME TypeOK, UserEdit
  PROVE  /\ cr' \in Seq(CR) /\ cr' # <<>> /\ fresh' \in BOOLEAN
         /\ StatusOf(Last(cr')) = StatusOf(Last(cr))
<1>1. PICK l \in Lists :
        Write([Last(cr) EXCEPT !.generation = @ + 1, !.list = l])
  BY DEF UserEdit
<1> DEFINE c == Last(cr)
           n == c.generation + 1
           o == [c EXCEPT !.generation = n, !.list = l]
<1>2. c \in CR
  BY SeqEnds DEF TypeOK
<1>3. n \in Nat /\ l \in SUBSET Keys
  BY <1>2, StatusAssumption DEF CR
<1> HIDE DEF n, c
<1>4. o \in CR /\ StatusOf(o) = StatusOf(c)
  BY <1>2, <1>3 DEF CR, StatusOf
<1> HIDE DEF o
<1>5. Write(o)
  BY <1>1 DEF o, n, c
<1> QED
  BY <1>4, <1>5, WriteWrites DEF c

LEMMA ChangeKeepsFeed ==
  ASSUME TypeOK, NEW k \in Keys, Change(k)
  PROVE  FeedOK'
<1>1. PICK w \in (Workloads[k] \union {Missing}) \ {Api(k)} :
        feed' = [feed EXCEPT ![KindOf[k]] =
                   Append(@, [Last(@) EXCEPT ![k] = w])]
  BY DEF Change
<1>2. KindOf[k] \in Kinds /\ w \in Form \union {Missing}
  BY StatusAssumption DEF Form
<1>3. /\ feed \in [Kinds -> Seq(Snapshot)]
      /\ \A t \in Kinds : feed[t] # <<>>
  BY DEF TypeOK, Snapshot
<1> DEFINE s == feed[KindOf[k]]
           e == [Last(s) EXCEPT ![k] = w]
<1>4. s \in Seq(Snapshot) /\ s # <<>>
  BY <1>2, <1>3
<1>5. Last(s) \in Snapshot
  BY <1>4, SeqEnds
<1>6. e \in Snapshot
  BY <1>2, <1>5 DEF Snapshot
<1>7. feed' = [feed EXCEPT ![KindOf[k]] = Append(s, e)]
  BY <1>1, <1>2, <1>3
<1> HIDE DEF s, e
<1>8. Append(s, e) \in Seq(Snapshot) /\ Append(s, e) # <<>>
  BY <1>4, <1>6, AppendEnds
<1> QED
  BY <1>2, <1>3, <1>7, <1>8 DEF FeedOK

LEMMA KindSyncKeepsFeed ==
  ASSUME TypeOK, NEW t \in Kinds, KindSync(t)
  PROVE  FeedOK'
<1>1. /\ feed \in [Kinds -> Seq(Snapshot)]
      /\ \A u \in Kinds : feed[u] # <<>>
  BY DEF TypeOK, Snapshot
<1>2. Len(feed[t]) > 1 /\ feed' = [feed EXCEPT ![t] = Tail(@)]
  BY DEF KindSync
<1>3. Tail(feed[t]) \in Seq(Snapshot) /\ Tail(feed[t]) # <<>>
  BY <1>1, <1>2, TailEnds
<1> QED
  BY <1>1, <1>2, <1>3 DEF FeedOK

LEMMA RestartKeepsFeed ==
  ASSUME TypeOK, Restart
  PROVE  FeedOK'
<1>1. /\ feed \in [Kinds -> Seq(Snapshot)]
      /\ \A t \in Kinds : feed[t] # <<>>
  BY DEF TypeOK, Snapshot
<1>2. \A t \in Kinds : <<Last(feed[t])>> \in Seq(Snapshot)
                       /\ <<Last(feed[t])>> # <<>>
  BY <1>1, LastEnds
<1>3. feed' = [t \in Kinds |-> <<Last(feed[t])>>]
  BY DEF Restart
<1> QED
  BY <1>2, <1>3 DEF FeedOK

\* The status of the newest version changes only when a pass that has looked
\* at all its workloads writes its instance.
LEMMA WriteStep ==
  ASSUME Inv, [Next]_vars
  PROVE  \/ StatusOf(Last(cr')) = StatusOf(Last(cr))
         \/ CanWrite /\ Last(cr') = inst
<1>1. TypeOK /\ inst \in CR /\ cr \in Seq(CR) /\ cr # <<>>
  BY DEF Inv, TypeOK
<1>2. CASE cr' = cr
  BY <1>2
<1>3. CASE UserEdit
  BY <1>1, <1>3, EditIs
<1>4. CASE CRSync
  BY <1>1, <1>4, TailEnds DEF CRSync
<1>5. CASE CanWrite /\ Write(inst)
  BY <1>1, <1>5, WriteWrites
<1>6. CASE Restart
  BY <1>1, <1>6, LastEnds DEF Restart
<1>7. \/ cr' = cr \/ UserEdit \/ CRSync \/ (CanWrite /\ Write(inst)) \/ Restart
  BY DEF Next, vars, Change, Sync, KindSync, Work, Start, WorkloadMissing,
         Aggregate, Mutate, UpdateStatus, Conflict, NoUpdate, Fail
<1> QED
  BY <1>2, <1>3, <1>4, <1>5, <1>6, <1>7

LEMMA InitHolds == Init => Inv
<1> SUFFICES ASSUME Init PROVE Inv
  OBVIOUS
<1>1. pc = "idle" /\ inst \in CR
  BY NewIsCR DEF Init, NoCR
<1>2. cr \in Seq(CR) /\ cr # <<>>
  <2>1. PICK l \in Lists : cr = <<NewCR(1, l)>>
    BY DEF Init
  <2>2. NewCR(1, l) \in CR
    BY NewIsCR, StatusAssumption
  <2> QED
    BY <2>1, <2>2
<1>3. FeedOK
  <2>1. PICK f \in [Keys -> Form \union {Missing}] :
          feed = [t \in Kinds |-> <<[k \in Keys |->
                    IF KindOf[k] = t THEN f[k] ELSE Missing]>>]
    BY DEF Init
  <2>2. \A t \in Kinds : [k \in Keys |->
           IF KindOf[k] = t THEN f[k] ELSE Missing] \in Snapshot
    BY DEF Snapshot
  <2> QED
    BY <2>1, <2>2 DEF FeedOK
<1>4. StatusInv /\ PassOK
  BY <1>1 DEF StatusInv, PassOK
<1>5. /\ tier \in 1..3 /\ mutators \in BOOLEAN /\ queued \in BOOLEAN
      /\ todo \subseteq Keys
      /\ update \in BOOLEAN /\ fresh \in BOOLEAN
  BY DEF Init
<1>6. edits \in Nat /\ changes \in Nat /\ faults \in Nat
  BY DEF Init
<1> QED
  BY <1>1, <1>2, <1>3, <1>4, <1>5, <1>6 DEF Inv, TypeOK, FeedOK, Snapshot

LEMMA NextKeeps ==
  ASSUME Inv, [Next]_vars
  PROVE  Inv'
<1>1. /\ TypeOK /\ tier \in 1..3 /\ inst \in CR
      /\ cr \in Seq(CR) /\ cr # <<>>
      /\ FeedOK
  BY DEF Inv, TypeOK, FeedOK, Snapshot
<1>2. queued \in BOOLEAN /\ fresh \in BOOLEAN
  BY <1>1 DEF TypeOK
<1>3. edits \in Nat /\ changes \in Nat /\ faults \in Nat
  BY <1>1 DEF TypeOK
<1>4. CASE UserEdit
  <2>1. cr' \in Seq(CR) /\ cr' # <<>> /\ fresh' \in BOOLEAN
    BY <1>1, <1>4, EditIs
  <2>2. /\ UNCHANGED <<setup, local, feed, queued>>
        /\ edits' = edits + 1 /\ UNCHANGED <<changes, faults>>
    BY <1>4 DEF UserEdit
  <2>3. FeedOK'
    BY <1>1, <2>2 DEF FeedOK
  <2>4. edits' \in Nat /\ changes' \in Nat /\ faults' \in Nat
    BY <1>3, <2>2
  <2>5. queued' \in BOOLEAN
    BY <1>2, <2>2
  <2> QED
    BY <2>1, <2>2, <2>3, <2>4, <2>5, LocalKeeps
<1>5. CASE \E k \in Keys : Change(k)
  <2>1. PICK k \in Keys : Change(k)
    BY <1>5
  <2>2. /\ UNCHANGED <<setup, local, cr, queued, fresh>>
        /\ changes' = changes + 1 /\ UNCHANGED <<edits, faults>>
    BY <2>1 DEF Change
  <2>3. FeedOK'
    BY <1>1, <2>1, ChangeKeepsFeed
  <2>4. edits' \in Nat /\ changes' \in Nat /\ faults' \in Nat
    BY <1>3, <2>2
  <2>5. queued' \in BOOLEAN /\ fresh' \in BOOLEAN
    BY <1>2, <2>2
  <2> QED
    BY <1>1, <2>2, <2>3, <2>4, <2>5, LocalKeeps
<1>6. CASE CRSync
  <2>1. /\ UNCHANGED <<setup, local, feed, fresh, edits, changes, faults>>
        /\ queued' = TRUE /\ Len(cr) > 1 /\ cr' = Tail(cr)
    BY <1>6 DEF CRSync, budget
  <2>2. cr' \in Seq(CR) /\ cr' # <<>>
    BY <1>1, <2>1, TailEnds
  <2>3. FeedOK'
    BY <1>1, <2>1 DEF FeedOK
  <2>4. edits' \in Nat /\ changes' \in Nat /\ faults' \in Nat
    BY <1>3, <2>1
  <2>5. queued' \in BOOLEAN /\ fresh' \in BOOLEAN
    BY <1>2, <2>1
  <2> QED
    BY <2>1, <2>2, <2>3, <2>4, <2>5, LocalKeeps
<1>7. CASE \E t \in Kinds : KindSync(t)
  <2>1. PICK t \in Kinds : KindSync(t)
    BY <1>7
  <2>2. /\ UNCHANGED <<setup, local, cr, fresh, edits, changes, faults>>
        /\ queued' = TRUE
    BY <2>1 DEF KindSync, budget
  <2>3. FeedOK'
    BY <1>1, <2>1, KindSyncKeepsFeed
  <2>4. edits' \in Nat /\ changes' \in Nat /\ faults' \in Nat
    BY <1>3, <2>2
  <2>5. queued' \in BOOLEAN /\ fresh' \in BOOLEAN
    BY <1>2, <2>2
  <2> QED
    BY <1>1, <2>2, <2>3, <2>4, <2>5, LocalKeeps
<1>8. CASE Start
  BY <1>8, StartKeeps
<1>9. CASE \E k \in Keys : Aggregate(k)
  BY <1>9, AggregateKeeps
<1>10. CASE Mutate
  BY <1>10, MutateKeeps
<1>11. CASE (\E k \in Keys : WorkloadMissing(k)) \/ Conflict \/ NoUpdate
  <2>1. /\ Return /\ UNCHANGED <<setup, cr, feed, fresh, edits, changes, faults>>
        /\ queued' = TRUE \/ queued' = queued
    BY <1>11 DEF WorkloadMissing, Conflict, NoUpdate, Error, budget
  <2>2. FeedOK'
    BY <1>1, <2>1 DEF FeedOK
  <2>3. queued' \in BOOLEAN /\ fresh' \in BOOLEAN
    BY <1>2, <2>1
  <2>4. edits' \in Nat /\ changes' \in Nat /\ faults' \in Nat
    BY <1>3, <2>1
  <2> QED
    BY <1>1, <2>1, <2>2, <2>3, <2>4, ReturnKeeps
<1>12. CASE UpdateStatus
  <2>1. /\ Return /\ UNCHANGED <<setup, feed, queued, edits, changes, faults>>
        /\ Write(inst)
    BY <1>12 DEF UpdateStatus, budget
  <2>2. cr' \in Seq(CR) /\ cr' # <<>> /\ fresh' \in BOOLEAN
    BY <1>1, <2>1, WriteWrites
  <2>3. FeedOK'
    BY <1>1, <2>1 DEF FeedOK
  <2>4. queued' \in BOOLEAN
    BY <1>2, <2>1
  <2>5. edits' \in Nat /\ changes' \in Nat /\ faults' \in Nat
    BY <1>3, <2>1
  <2> QED
    BY <2>1, <2>2, <2>3, <2>4, <2>5, ReturnKeeps
<1>13. CASE Fail
  <2>1. /\ Return /\ queued' = TRUE /\ UNCHANGED <<setup, feed, edits, changes>>
        /\ faults' = faults + 1
        /\ Write(inst) \/ UNCHANGED <<cr, fresh>>
    BY <1>13 DEF Fail, Fault, Error
  <2>2. cr' \in Seq(CR) /\ cr' # <<>> /\ fresh' \in BOOLEAN
    BY <1>1, <1>2, <2>1, WriteWrites
  <2>3. FeedOK'
    BY <1>1, <2>1 DEF FeedOK
  <2>4. queued' \in BOOLEAN
    BY <2>1
  <2>5. edits' \in Nat /\ changes' \in Nat /\ faults' \in Nat
    BY <1>3, <2>1
  <2> QED
    BY <2>1, <2>2, <2>3, <2>4, <2>5, ReturnKeeps
<1>14. CASE Restart
  <2>1. /\ Return /\ queued' = TRUE /\ UNCHANGED <<setup, fresh, edits, changes>>
        /\ faults' = faults + 1 /\ cr' = <<Last(cr)>>
    BY <1>14 DEF Restart, Fault, Error
  <2>2. cr' \in Seq(CR) /\ cr' # <<>>
    BY <1>1, <2>1, LastEnds
  <2>3. FeedOK'
    BY <1>1, <1>14, RestartKeepsFeed
  <2>4. queued' \in BOOLEAN /\ fresh' \in BOOLEAN
    BY <1>2, <2>1
  <2>5. edits' \in Nat /\ changes' \in Nat /\ faults' \in Nat
    BY <1>3, <2>1
  <2> QED
    BY <2>1, <2>2, <2>3, <2>4, <2>5, ReturnKeeps
<1>15. CASE UNCHANGED vars
  <2>1. UNCHANGED <<setup, local, cr, feed, queued, fresh, edits, changes, faults>>
    BY <1>15 DEF vars, budget
  <2>2. FeedOK'
    BY <1>1, <2>1 DEF FeedOK
  <2>3. queued' \in BOOLEAN /\ fresh' \in BOOLEAN
    BY <1>2, <2>1
  <2>4. edits' \in Nat /\ changes' \in Nat /\ faults' \in Nat
    BY <1>3, <2>1
  <2> QED
    BY <1>1, <2>1, <2>2, <2>3, <2>4, LocalKeeps
<1> QED
  BY <1>4, <1>5, <1>6, <1>7, <1>8, <1>9, <1>10, <1>11, <1>12, <1>13, <1>14,
     <1>15 DEF Next, Sync, Work

LEMMA Invariance == Spec => []Inv
<1>1. Init => Inv
  BY InitHolds
<1>2. Inv /\ [Next]_vars => Inv'
  BY NextKeeps
<1> QED
  BY <1>1, <1>2, PTL DEF Spec

---------------------------------------------------------------------------
(* The theorems *)

\* At a write, the aggregate is the worst of the health of every workload
\* listed, each of them that of the workload as it was read.
LEMMA WrittenIs ==
  ASSUME Inv, CanWrite, tier = 3
  PROVE  /\ Healths(inst, inst.list) \subseteq HealthStatusCode
         /\ IsWorst(inst.aggregate, Healths(inst, inst.list))
         /\ \A k \in inst.list : /\ inst.work[k] \in Form
                                 /\ inst.health[k] = HealthOf(inst.work[k])
<1>1. pc # "idle" /\ todo = {} /\ inst \in CR
  BY DEF CanWrite, Inv, StatusInv, TypeOK
<1>2. inst.list \ todo = inst.list
  BY <1>1
<1>3. \A k \in inst.list : /\ inst.work[k] # Missing
                           /\ inst.health[k] = HealthOf(inst.work[k])
  BY <1>1, <1>2 DEF Inv, TypeOK, PassOK
<1>4. \A k \in inst.list : inst.work[k] \in Form
  BY <1>1, <1>3 DEF CR
<1>5. Healths(inst, inst.list) \subseteq HealthStatusCode
  BY <1>3, HealthIsCode, Ranks DEF Healths
<1>6. IsWorst(inst.aggregate, Healths(inst, inst.list))
  BY <1>1, <1>2 DEF Inv, StatusInv
<1> QED
  BY <1>3, <1>4, <1>5, <1>6

\* Every variable keeps its type, and a pass holds of each workload it has
\* looked at a version that was there, with the health of that version.
THEOREM TypeCorrect == Spec => []TypeOK
BY Invariance, PTL DEF Inv

\* Whatever is written as the aggregated health is the worst of the healths
\* written with it, whatever the order of the workloads, and whatever the
\* users, the workloads and the faults do during the pass.
THEOREM AggregateHolds == Spec => AggregateIsWorst
<1>1. ASSUME Inv, [Next]_vars, StatusWritten, tier = 3
      PROVE  Last(cr').aggregate = WorstOf(Last(cr'))
  <2>1. CanWrite /\ Last(cr') = inst
    BY <1>1, WriteStep DEF StatusWritten
  <2>2. Worst(Healths(inst, inst.list)) = inst.aggregate
    BY <1>1, <2>1, WrittenIs, WorstIs
  <2> QED
    BY <2>1, <2>2 DEF WorstOf, Healths
<1>2. Inv /\ [Next]_vars =>
        [StatusWritten /\ tier = 3 =>
           Last(cr').aggregate = WorstOf(Last(cr'))]_vars
  BY <1>1
<1> QED
  BY <1>2, Invariance, PTL DEF Spec, AggregateIsWorst

\* A CR is reported healthy only when every workload it lists was rolled out.
THEOREM HealthyHolds == Spec => HealthyIsRolledOut
<1>1. ASSUME Inv, [Next]_vars, StatusWritten, tier = 3,
             Last(cr').aggregate = "Healthy", NEW k \in Last(cr').list
      PROVE  RolledOut(Last(cr').work[k])
  <2>1. CanWrite /\ Last(cr') = inst
    BY <1>1, WriteStep DEF StatusWritten
  <2>2. /\ IsWorst("Healthy", Healths(inst, inst.list))
        /\ inst.work[k] \in Form /\ inst.health[k] = HealthOf(inst.work[k])
    BY <1>1, <2>1, WrittenIs
  <2>3. Rank(inst.health[k]) <= 1
    BY <1>1, <2>1, <2>2, Ranks DEF IsWorst, Healths
  <2>4. HealthOf(inst.work[k]) = "Healthy"
    BY <2>2, <2>3, HealthIsCode, Ranks
  <2> QED
    BY <2>1, <2>2, <2>4, HealthyRolledOut
<1>2. Inv /\ [Next]_vars =>
        [StatusWritten /\ tier = 3 /\ Last(cr').aggregate = "Healthy" =>
           \A k \in Last(cr').list : RolledOut(Last(cr').work[k])]_vars
  BY <1>1
<1> QED
  BY <1>2, Invariance, PTL DEF Spec, HealthyIsRolledOut

---------------------------------------------------------------------------
(* At rest *)

\* Another pass is due, or will be once a version on its way arrives.
Due == queued \/ Len(cr) # 1 \/ \E t \in Kinds : Len(feed[t]) # 1

\* The newest version: once its generation was recorded, a list without
\* workloads has the best aggregate.
LastOK ==
  mutators =>
    /\ Last(cr).custom <= Last(cr).generation
    /\ Last(cr).custom = Last(cr).generation /\ Last(cr).list = {}
         /\ tier = 3 => Last(cr).aggregate = "Healthy"

\* A pass that has functions records the generation before it writes.
Recorded == pc = "write" /\ mutators => inst.custom = inst.generation

\* Unless another pass is due, this one works on the newest versions, and does
\* without an update only as long as it has found nothing to write.
OnNewest ==
  pc # "idle" /\ ~Due =>
    /\ fresh
    /\ inst.generation = Last(cr).generation /\ inst.list = Last(cr).list
    /\ \A k \in inst.list \ todo : inst.work[k] = Api(k)
    /\ ~update => inst.list \ todo = {} /\ inst.custom = Last(cr).custom

RestInv == Inv /\ LastOK /\ Recorded /\ OnNewest /\ RestsReported

\* Nothing is said of a state in which a pass is due.
LEMMA DueRest ==
  ASSUME Inv', LastOK', Recorded', Due' PROVE RestInv'
BY DEF RestInv, OnNewest, RestsReported, AtRest, Idle, Due

\* A write makes a version, or says nothing new.
LEMMA WriteIsDue ==
  ASSUME TypeOK, NEW o \in CR, Write(o)
  PROVE  Len(cr') # 1 \/ (cr' = cr /\ o = Last(cr))
<1>1. CASE o = Last(cr)
  BY <1>1 DEF Write
<1>2. CASE o # Last(cr)
  <2>1. cr' = Append(cr, o) /\ cr \in Seq(CR) /\ Len(cr) > 0
    BY <1>2, SeqEnds DEF Write, TypeOK
  <2> QED
    BY <2>1
<1> QED
  BY <1>1, <1>2

LEMMA InitRest == Init => RestInv
<1> SUFFICES ASSUME Init PROVE RestInv
  OBVIOUS
<1>1. PICK l \in Lists : cr = <<NewCR(1, l)>>
  BY DEF Init
<1>2. Last(cr).custom = 0 /\ Last(cr).generation = 1
  BY <1>1 DEF Last, NewCR
<1> QED
  BY <1>2, InitHolds
     DEF Init, RestInv, LastOK, Recorded, OnNewest, RestsReported, AtRest, Idle

\* The environment: what it changes is on its way, or delivered with an event.
LEMMA EnvRest ==
  ASSUME RestInv, UserEdit \/ (\E k \in Keys : Change(k)) \/ Sync
  PROVE  RestInv'
<1>1. Inv' /\ TypeOK /\ cr \in Seq(CR) /\ cr # <<>>
  BY NextKeeps DEF RestInv, Inv, TypeOK, Next
<1>2. Recorded'
  BY DEF RestInv, Recorded, UserEdit, Change, Sync, CRSync, KindSync, local,
         setup
<1>3. CASE UserEdit
  <2> DEFINE c == Last(cr)
  <2>1. PICK l \in Lists : Write([c EXCEPT !.generation = @ + 1, !.list = l])
    BY <1>3 DEF UserEdit
  <2>2. c \in CR /\ l \subseteq Keys
    BY <1>1, SeqEnds, StatusAssumption
  <2> DEFINE n == c.generation + 1
             o == [c EXCEPT !.generation = n, !.list = l]
  <2>3. /\ n \in Nat /\ n # c.generation
        /\ mutators => c.custom <= n /\ c.custom # n
    <3>1. c.generation \in Nat /\ c.custom \in Nat
      BY <2>2 DEF CR
    <3>2. mutators => c.custom <= c.generation
      BY DEF RestInv, LastOK
    <3> QED
      BY <3>1, <3>2
  <2>4. Write(o)
    BY <2>1
  <2> HIDE DEF n, c
  <2>5. /\ o \in CR /\ o.generation = n /\ o.custom = c.custom
        /\ o.generation # c.generation
    BY <2>2, <2>3 DEF CR
  <2>6. Last(cr') = o /\ Len(cr') # 1
    <3>1. o # Last(cr)
      BY <2>5 DEF c
    <3>2. Last(cr') = o
      BY <1>1, <2>4, <2>5, WriteWrites
    <3> HIDE DEF o
    <3> QED
      BY <1>1, <2>4, <2>5, <3>1, <3>2, WriteIsDue
  <2>7. LastOK'
    BY <1>3, <2>3, <2>5, <2>6 DEF LastOK, UserEdit, setup
  <2> QED
    BY <1>1, <1>2, <2>6, <2>7, DueRest DEF Due
<1>4. CASE \E k \in Keys : Change(k)
  <2>1. PICK k \in Keys : Change(k)
    BY <1>4
  <2>2. PICK w \in (Workloads[k] \union {Missing}) \ {Api(k)} :
          feed' = [feed EXCEPT ![KindOf[k]] =
                     Append(@, [Last(@) EXCEPT ![k] = w])]
    BY <2>1 DEF Change
  <2>3. KindOf[k] \in Kinds /\ w \in Form \union {Missing}
    BY StatusAssumption DEF Form
  <2> DEFINE s == feed[KindOf[k]]
             e == [Last(s) EXCEPT ![k] = w]
  <2>4. s \in Seq(Snapshot) /\ s # <<>>
    BY <1>1, <2>3 DEF TypeOK, Snapshot
  <2>5. Last(s) \in Snapshot /\ Len(s) > 0
    BY <2>4, SeqEnds
  <2>6. e \in Snapshot
    BY <2>3, <2>5 DEF Snapshot
  <2>7. feed'[KindOf[k]] = Append(s, e)
    BY <1>1, <2>2, <2>3 DEF TypeOK
  <2> HIDE DEF s, e
  <2>8. Len(feed'[KindOf[k]]) # 1
    BY <2>4, <2>5, <2>6, <2>7
  <2>9. LastOK'
    BY <2>1 DEF Change, RestInv, LastOK, setup
  <2> QED
    BY <1>1, <1>2, <2>3, <2>8, <2>9, DueRest DEF Due
<1>5. CASE Sync
  <2>1. queued' = TRUE /\ UNCHANGED <<tier, mutators>>
    BY <1>5 DEF Sync, CRSync, KindSync, setup
  <2>2. Last(cr') = Last(cr)
    BY <1>1, <1>5, TailEnds DEF Sync, CRSync, KindSync
  <2>3. LastOK'
    BY <2>1, <2>2 DEF RestInv, LastOK
  <2> QED
    BY <1>1, <1>2, <2>1, <2>3, DueRest DEF Due
<1> QED
  BY <1>3, <1>4, <1>5

LEMMA StartRest == ASSUME RestInv, Start PROVE RestInv'
<1>1. Inv' /\ TypeOK /\ cr \in Seq(CR) /\ cr # <<>>
  BY StartKeeps DEF RestInv, Inv, TypeOK
<1>2. /\ pc' = "workloads" /\ inst' = ResetAggregate(Head(cr))
      /\ todo' = Head(cr).list /\ fresh' = (Len(cr) = 1)
      /\ UNCHANGED <<tier, mutators, cr, feed>>
  BY DEF Start, setup
<1>3. Head(cr) \in CR /\ (Len(cr) = 1 => Head(cr) = Last(cr))
  BY <1>1, SeqEnds
<1>4. /\ inst'.generation = Head(cr).generation /\ inst'.list = Head(cr).list
      /\ inst'.custom = Head(cr).custom
  BY <1>2, <1>3 DEF ResetAggregate, CR
<1>5. inst'.list \ todo' = {}
  BY <1>2, <1>4
<1>6. OnNewest'
  BY <1>2, <1>3, <1>4, <1>5 DEF OnNewest, Due
<1>7. LastOK' /\ Recorded' /\ RestsReported'
  BY <1>2 DEF RestInv, LastOK, Recorded, RestsReported, AtRest, Idle
<1> QED
  BY <1>1, <1>6, <1>7 DEF RestInv

\* With no version on its way the cache has the workload as it is.
LEMMA AggregateRest ==
  ASSUME RestInv, NEW k \in Keys, Aggregate(k) PROVE RestInv'
<1> DEFINE w == Cached(k)
           q == [inst EXCEPT !.work[k] = w]
<1>1. Inv' /\ TypeOK /\ inst \in CR /\ tier \in 1..3
  BY AggregateKeeps DEF RestInv, Inv, TypeOK
<1>2. /\ pc = "workloads" /\ pc' = "workloads" /\ k \in todo
      /\ todo' = todo \ {k} /\ inst' = WithHealth(q, k) /\ update' = TRUE
      /\ UNCHANGED <<tier, mutators, cr, feed, queued, fresh>>
  BY DEF Aggregate, NextWorkload, Differs, setup
<1>3. w \in Form \union {Missing}
  BY <1>1, CachedIs
<1> HIDE DEF w
<1>4. /\ q \in CR /\ q.work[k] = w /\ q.list = inst.list
      /\ q.generation = inst.generation
      /\ \A j \in Keys \ {k} : q.work[j] = inst.work[j]
  BY <1>1, <1>3 DEF CR
<1> HIDE DEF q
<1>5. /\ inst'.list = inst.list /\ inst'.generation = inst.generation
      /\ inst'.work = q.work
  <2>1. /\ WithHealth(q, k).list = q.list /\ WithHealth(q, k).work = q.work
        /\ WithHealth(q, k).generation = q.generation
    BY <1>4 DEF WithHealth, CR
  <2> QED
    BY <1>2, <1>4, <2>1
<1>6. OnNewest'
  <2> SUFFICES ASSUME ~Due'
               PROVE  /\ fresh'
                      /\ inst'.generation = Last(cr').generation
                      /\ inst'.list = Last(cr').list
                      /\ \A j \in inst'.list \ todo' : inst'.work[j] = Api(j)'
    BY <1>2 DEF OnNewest
  <2>1. ~Due
    BY <1>2 DEF Due
  <2>2. /\ fresh /\ inst.generation = Last(cr).generation
        /\ inst.list = Last(cr).list
        /\ \A j \in inst.list \ todo : inst.work[j] = Api(j)
    BY <1>2, <2>1 DEF RestInv, OnNewest
  <2>3. w = Api(k)
    <3>1. KindOf[k] \in Kinds
      BY StatusAssumption
    <3>2. /\ feed[KindOf[k]] \in Seq(Snapshot) /\ feed[KindOf[k]] # <<>>
          /\ Len(feed[KindOf[k]]) = 1
      BY <1>1, <2>1, <3>1 DEF TypeOK, Snapshot, Due
    <3> QED
      BY <3>2, SeqEnds DEF w, Cached, Api
  <2>4. ASSUME NEW j \in inst'.list \ todo' PROVE inst'.work[j] = Api(j)
    <3>1. CASE j = k
      BY <1>4, <1>5, <2>3, <3>1
    <3>2. CASE j # k
      <4>1. j \in inst.list \ todo /\ j \in Keys
        BY <1>1, <1>2, <1>5, <3>2 DEF CR
      <4> QED
        BY <1>4, <1>5, <2>2, <3>2, <4>1
    <3> QED
      BY <3>1, <3>2
  <2> QED
    BY <1>2, <1>5, <2>2, <2>4 DEF Api
<1>7. LastOK' /\ Recorded' /\ RestsReported'
  BY <1>2 DEF RestInv, LastOK, Recorded, RestsReported, AtRest, Idle
<1> QED
  BY <1>1, <1>6, <1>7 DEF RestInv

LEMMA MutateRest == ASSUME RestInv, Mutate PROVE RestInv'
<1>1. Inv' /\ inst \in CR
  BY MutateKeeps DEF RestInv, Inv, TypeOK
<1>2. /\ pc = "workloads" /\ pc' = "write" /\ todo' = todo
      /\ UNCHANGED <<tier, mutators, cr, feed, queued, fresh>>
  BY DEF Mutate, setup
<1>3. /\ inst'.list = inst.list /\ inst'.generation = inst.generation
      /\ inst'.work = inst.work
      /\ mutators => inst'.custom = inst.generation
      /\ ~update' => ~update /\ inst'.custom = inst.custom
  <2>1. CASE CallMutators
    <3>1. /\ inst' = [inst EXCEPT !.custom = inst.generation]
          /\ update' = (update \/ inst.custom # inst.generation)
      BY <2>1 DEF CallMutators
    <3> QED
      BY <1>1, <3>1 DEF CR
  <2>2. CASE ~mutators /\ UNCHANGED <<inst, update>>
    BY <2>2
  <2> QED
    BY <2>1, <2>2 DEF Mutate
<1>4. OnNewest'
  BY <1>2, <1>3 DEF RestInv, OnNewest, Due, Api
<1>5. LastOK' /\ Recorded' /\ RestsReported'
  BY <1>2, <1>3 DEF RestInv, LastOK, Recorded, RestsReported, AtRest, Idle
<1> QED
  BY <1>1, <1>4, <1>5 DEF RestInv

\* Without workloads the aggregate is the one the pass began with.
LEMMA EmptyIsBest ==
  ASSUME StatusInv, pc # "idle", inst.list = {}, tier = 3
  PROVE  inst.aggregate = "Healthy"
<1>1. inst.list \ todo = {} /\ Healths(inst, {}) = {"Healthy"}
  BY DEF Healths
<1>2. IsWorst(inst.aggregate, Healths(inst, inst.list \ todo))
  BY DEF StatusInv
<1> QED
  BY <1>1, <1>2 DEF IsWorst

\* What the status says when a pass has nothing left to look at.
LEMMA InstReports ==
  ASSUME RestInv, pc = "write", ~Due
  PROVE  Reported(inst)
<1>1. /\ mutators => inst.custom = inst.generation
      /\ todo = {} /\ inst \in CR
  BY DEF RestInv, Recorded, Inv, StatusInv, TypeOK
<1>2. inst.list \ todo = inst.list
  BY <1>1
<1>3. \A k \in inst.list : Api(k) # Missing /\ inst.work[k] = Api(k)
  BY <1>2 DEF RestInv, OnNewest, Inv, TypeOK, PassOK
<1>4. tier >= 2 => \A k \in inst.list : inst.health[k] = HealthOf(Api(k))
  BY <1>2, <1>3 DEF RestInv, Inv, TypeOK, PassOK
<1>5. ASSUME tier = 3 PROVE inst.aggregate = WorstOf(inst)
  <2>1. IsWorst(inst.aggregate, Healths(inst, inst.list))
    BY <1>2, <1>5 DEF RestInv, Inv, StatusInv
  <2>2. Healths(inst, inst.list) \subseteq HealthStatusCode
    BY <1>4, <1>5, HealthIsCode, Ranks DEF Healths
  <2>3. Worst(Healths(inst, inst.list)) = inst.aggregate
    BY <2>1, <2>2, WorstIs
  <2> QED
    BY <2>3 DEF WorstOf, Healths
<1> QED
  BY <1>1, <1>3, <1>4, <1>5 DEF Reported

\* The write of the pass makes a version, or the status was the same already.
LEMMA UpdateRest == ASSUME RestInv, UpdateStatus PROVE RestInv'
<1>1. Inv' /\ TypeOK /\ inst \in CR /\ tier \in 1..3
  BY NextKeeps DEF RestInv, Inv, TypeOK, Next, Work
<1>2. /\ pc = "write" /\ Write(inst) /\ pc' = "idle"
      /\ UNCHANGED <<tier, mutators, feed, queued>>
  BY DEF UpdateStatus, CanWrite, Return, setup
<1>3. Last(cr') = inst /\ (Len(cr') # 1 \/ (cr' = cr /\ inst = Last(cr)))
  BY <1>1, <1>2, WriteWrites, WriteIsDue
<1>4. /\ mutators => inst.custom = inst.generation
      /\ inst.generation \in Nat /\ todo = {}
  BY <1>1, <1>2 DEF RestInv, Recorded, CR, Inv, StatusInv
<1>5. LastOK'
  <2>1. inst.list = {} /\ tier = 3 => inst.aggregate = "Healthy"
    BY <1>2, EmptyIsBest DEF RestInv, Inv
  <2> QED
    BY <1>2, <1>3, <1>4, <2>1 DEF LastOK
<1>6. Recorded'
  BY <1>2 DEF Recorded
<1>7. CASE Len(cr') # 1
  BY <1>1, <1>5, <1>6, <1>7, DueRest DEF Due
<1>8. CASE cr' = cr /\ inst = Last(cr)
  <2>1. CASE Due
    BY <1>1, <1>2, <1>5, <1>6, <1>8, <2>1, DueRest DEF Due
  <2>2. CASE ~Due
    <3>1. Reported(Last(cr))
      BY <1>2, <1>8, <2>2, InstReports
    <3>2. Reported(Last(cr))'
      BY <1>2, <1>8, <3>1 DEF Reported, Noticed, Api
    <3> QED
      BY <1>1, <1>2, <1>5, <1>6, <3>2 DEF RestInv, OnNewest, RestsReported
  <2> QED
    BY <2>1, <2>2
<1> QED
  BY <1>3, <1>7, <1>8

\* A pass without an update had no workload to look at, and its functions, if
\* it has any, found the generation recorded.
LEMMA NoUpdateRest == ASSUME RestInv, NoUpdate PROVE RestInv'
<1>1. Inv' /\ tier \in 1..3
  BY NextKeeps DEF RestInv, Inv, TypeOK, Next, Work
<1>2. /\ pc = "write" /\ ~update /\ pc' = "idle"
      /\ UNCHANGED <<tier, mutators, cr, feed, queued>>
  BY DEF NoUpdate, Return, setup
<1>3. LastOK' /\ Recorded'
  BY <1>2 DEF RestInv, LastOK, Recorded
<1>4. CASE Due
  BY <1>1, <1>2, <1>3, <1>4, DueRest DEF Due
<1>5. CASE ~Due
  <2>1. /\ inst.list = Last(cr).list /\ inst.generation = Last(cr).generation
        /\ inst.list \ todo = {} /\ inst.custom = Last(cr).custom
        /\ mutators => inst.custom = inst.generation
        /\ todo = {}
    BY <1>2, <1>5 DEF RestInv, OnNewest, Recorded, Inv, StatusInv
  <2>2. /\ Last(cr).list = {}
        /\ mutators => Last(cr).custom = Last(cr).generation
    BY <2>1
  <2>3. Worst({"Healthy"}) = "Healthy"
    BY WorstIs, Ranks DEF IsWorst
  <2>4. tier = 3 /\ Noticed(Last(cr)) => Last(cr).aggregate = WorstOf(Last(cr))
    BY <2>2, <2>3 DEF RestInv, LastOK, WorstOf, Noticed
  <2>5. Reported(Last(cr))
    BY <2>2, <2>4 DEF Reported
  <2>6. Reported(Last(cr))'
    BY <1>2, <2>5 DEF Reported, Noticed, Api
  <2> QED
    BY <1>1, <1>2, <1>3, <2>6 DEF RestInv, OnNewest, RestsReported
<1> QED
  BY <1>4, <1>5

\* Whatever ends a pass in an error: the key is queued again.
LEMMA ErrorRest ==
  ASSUME RestInv,
         (\E k \in Keys : WorkloadMissing(k)) \/ Conflict \/ Fail \/ Restart
  PROVE  RestInv'
<1>1. /\ Inv' /\ TypeOK /\ cr \in Seq(CR) /\ cr # <<>> /\ inst \in CR
      /\ tier \in 1..3
  BY NextKeeps DEF RestInv, Inv, TypeOK, Next, Work
<1>2. queued' = TRUE /\ pc' = "idle" /\ UNCHANGED <<tier, mutators>>
  BY DEF WorkloadMissing, Conflict, Fail, Restart, Error, Return, setup
<1>3. LastOK'
  <2>1. CASE Last(cr') = Last(cr)
    BY <1>2, <2>1 DEF RestInv, LastOK
  <2>2. CASE CanWrite /\ Write(inst)
    <3>1. Last(cr') = inst
      BY <1>1, <2>2, WriteWrites
    <3>2. /\ mutators => inst.custom = inst.generation
          /\ inst.generation \in Nat /\ todo = {} /\ pc # "idle"
      BY <1>1, <2>2 DEF CanWrite, RestInv, Recorded, CR, Inv, StatusInv
    <3>3. inst.list = {} /\ tier = 3 => inst.aggregate = "Healthy"
      BY <3>2, EmptyIsBest DEF RestInv, Inv
    <3> QED
      BY <1>2, <3>1, <3>2, <3>3 DEF LastOK
  <2>3. Last(cr') = Last(cr) \/ (CanWrite /\ Write(inst))
    BY <1>1, LastEnds DEF WorkloadMissing, Conflict, Fail, Restart
  <2> QED
    BY <2>1, <2>2, <2>3
<1>4. Recorded'
  BY <1>2 DEF Recorded
<1> QED
  BY <1>1, <1>2, <1>3, <1>4, DueRest DEF Due

LEMMA StutterRest == ASSUME RestInv, UNCHANGED vars PROVE RestInv'
<1>1. Inv'
  BY NextKeeps DEF RestInv
<1> QED
  BY <1>1 DEF RestInv, LastOK, Recorded, OnNewest, RestsReported, AtRest, Idle, Due,
              Reported, Noticed, Api, vars, setup, local

\* With no pass due and no version on its way, the status is that of the
\* workloads, for every list of them, in each tier, with functions or without:
\* all but the aggregate of a CR that lists none and has no functions.
THEOREM AtRestReported == Spec => []RestsReported
<1>1. ASSUME RestInv, [Next]_vars PROVE RestInv'
  BY <1>1, EnvRest, StartRest, AggregateRest, MutateRest, UpdateRest,
     NoUpdateRest, ErrorRest, StutterRest DEF Next, Work
<1>2. RestInv => RestsReported
  BY DEF RestInv
<1> QED
  BY <1>1, <1>2, InitRest, PTL DEF Spec

===========================================================================
