-------------------------- MODULE Modify_proofs ---------------------------
(***************************************************************************)
(* What CreateOrModify guarantees when it modifies a resource, for every   *)
(* set of fields, of templates with their options, of configurations, and  *)
(* of defaults: TypeOK with PassOK, OthersKept, WriteEnsures, and          *)
(* RestsInLine of the controller at rest.                                  *)
(*                                                                         *)
(* TypeOK is inductive; OthersKept needs in addition that the API server   *)
(* keeps its defaults filled in, or else a write would fill them in.       *)
(* RestsInLine needs that a pass goes by the newest template and the       *)
(* newest version of the resource, unless another one is due.              *)
(***************************************************************************)
EXTENDS Modify, Versions_proofs, TLAPS

ApiDefaulted == \A l \in Leaves : Api[l] = Absent => Default[l] = Absent

IInv == TypeOK /\ ApiDefaulted

-----------------------------------------------------------------------------
(* Contents *)

LEMMA DefaultedContent ==
  ASSUME NEW o \in Content
  PROVE  /\ Defaulted(o) \in Content
         /\ \A l \in Leaves : Defaulted(o)[l] = Absent => Default[l] = Absent
         /\ \A l \in Leaves : o[l] # Absent => Defaulted(o)[l] = o[l]
         /\ \A l \in Leaves :
              Default[l] = Absent => Defaulted(o)[l] = o[l]
BY ModifyAssumption DEF Defaulted, Content

LEMMA NormalContent ==
  ASSUME NEW o \in Content, NEW by PROVE Normal(o, by) \in Content
BY DEF Normal, Content

\* What the next pass goes by.
LEMMA NextPass ==
  ASSUME template \in Templates, config \in Configs
  PROVE  Wanted(template) \in Content /\ NextOpts \in Options
BY ModifyAssumption DEF NextOpts

LEMMA ApiContent == ASSUME TypeOK PROVE Api \in Content /\ Cached \in Content
BY SeqEnds DEF TypeOK, Api, Cached

\* What is stored becomes the API server's version.
LEMMA StoreStores ==
  ASSUME TypeOK, NEW o \in Content, Store(o)
  PROVE  /\ feed' \in Seq(Content) /\ feed' # <<>>
         /\ Api' = Defaulted(o)
         /\ ApiDefaulted'
<1>1. Defaulted(o) \in Content /\ feed \in Seq(Content) /\ feed # <<>>
  BY DefaultedContent DEF TypeOK
<1>2. feed' \in Seq(Content) /\ feed' # <<>> /\ Last(feed') = Defaulted(o)
  <2>1. CASE Defaulted(o) = Api
    BY <1>1, <2>1 DEF Store, Api
  <2>2. CASE Defaulted(o) # Api
    BY <1>1, <2>2, AppendEnds DEF Store
  <2> QED
    BY <2>1, <2>2
<1>3. Api' = Defaulted(o)
  BY <1>2 DEF Api
<1> QED
  BY <1>2, <1>3, DefaultedContent DEF ApiDefaulted

LEMMA PatchedContent == ASSUME TypeOK PROVE Patched \in Content
<1>1. Api \in Content /\ work \in Content
  BY ApiContent DEF TypeOK
<1> QED
  BY <1>1 DEF Patched, Content

\* The version that StoreWork makes.
Outcome == IF opts.op = "Update" THEN work ELSE Patched

LEMMA StoreWorkStores ==
  ASSUME TypeOK, StoreWork
  PROVE  /\ feed' \in Seq(Content) /\ feed' # <<>>
         /\ Api' = Defaulted(Outcome) /\ Outcome \in Content
         /\ ApiDefaulted'
<1>1. Outcome \in Content
  BY PatchedContent DEF Outcome, TypeOK
<1>2. Store(Outcome)
  BY DEF StoreWork, Outcome
<1> QED
  BY <1>1, <1>2, StoreStores

\* A property is made the desired one, and no other field changes.
LEMMA WithPropertyIs ==
  ASSUME NEW o \in Content, desired \in Content, NEW p \in SUBSET Leaves
  PROVE  /\ WithProperty(o, p) \in Content
         /\ \A l \in Leaves : WithProperty(o, p)[l] =
              IF l \in p THEN desired[l] ELSE o[l]
<1>1. CASE Present(desired, p) \/ Present(o, p)
  BY <1>1 DEF WithProperty, Content
<1>2. CASE ~(Present(desired, p) \/ Present(o, p))
  <2>1. \A l \in p : desired[l] = Absent /\ o[l] = Absent
    BY <1>2 DEF Present
  <2> QED
    BY <1>2, <2>1 DEF WithProperty
<1> QED
  BY <1>1, <1>2

-----------------------------------------------------------------------------
(* The steps *)

LEMMA InitIInv == Init => IInv
<1> SUFFICES ASSUME Init PROVE IInv
  OBVIOUS
<1> DEFINE want == Wanted(template)
<1>1. /\ config \in Configs /\ template \in Templates
      /\ want \in Content /\ opts \in Options
  BY NextPass DEF Init
<1> HIDE DEF want
<1>2. /\ feed = <<Defaulted(want)>> /\ Defaulted(want) \in Content
      /\ \A l \in Leaves : Defaulted(want)[l] = Absent => Default[l] = Absent
  BY <1>1, DefaultedContent DEF Init, want
<1>3. feed \in Seq(Content) /\ feed # <<>> /\ Api = Defaulted(want)
  BY <1>2 DEF Api, Last
<1>4. /\ desired \in Content /\ live \in Content /\ work \in Content
      /\ todo \subseteq opts.ensure
  BY <1>1 DEF Init, want
<1>5. /\ queued \in BOOLEAN /\ pc \in {"idle", "reconcile"} /\ fresh \in BOOLEAN
      /\ edits \in Nat /\ drifts \in Nat /\ faults \in Nat
  BY DEF Init
<1>6. PassOK
  BY DEF Init, PassOK
<1>7. ApiDefaulted
  BY <1>2, <1>3 DEF ApiDefaulted
<1> QED
  BY <1>1, <1>3, <1>4, <1>5, <1>6, <1>7 DEF IInv, TypeOK

LEMMA SyncIInv == ASSUME IInv, Sync PROVE IInv'
<1>1. feed' \in Seq(Content) /\ feed' # <<>> /\ Api' = Api
  BY TailEnds DEF Sync, IInv, TypeOK, Api
<1>2. PassOK'
  BY <1>1 DEF IInv, TypeOK, PassOK, Sync, local
<1>3. TypeOK'
  BY <1>1, <1>2 DEF IInv, TypeOK, Sync, local, budget
<1> QED
  BY <1>1, <1>3 DEF IInv, ApiDefaulted

LEMMA EditTemplateIInv == ASSUME IInv, EditTemplate PROVE IInv'
<1>1. Api' = Api /\ PassOK'
  BY DEF IInv, TypeOK, PassOK, EditTemplate, local, Api
<1>2. TypeOK'
  BY <1>1 DEF IInv, TypeOK, EditTemplate, local
<1> QED
  BY <1>1, <1>2 DEF IInv, ApiDefaulted

LEMMA DriftIInv ==
  ASSUME IInv, NEW l \in Leaves, NEW v \in Vals \union {Absent}, Drift(l, v)
  PROVE  IInv'
<1> DEFINE o == [Api EXCEPT ![l] = v]
<1>1. o \in Content
  BY ApiContent DEF IInv, Content
<1>2. Store(o) /\ fresh' = FALSE
      /\ UNCHANGED <<config, template, queued, pc, local, edits, faults>>
  BY DEF Drift
<1> HIDE DEF o
<1>3. feed' \in Seq(Content) /\ feed' # <<>> /\ ApiDefaulted'
  BY <1>1, <1>2, StoreStores DEF IInv
<1>4. PassOK'
  BY <1>2 DEF IInv, TypeOK, PassOK, local
<1>5. drifts' \in Nat
  <2>1. drifts' = drifts + 1 /\ drifts \in Nat
    BY DEF Drift, IInv, TypeOK
  <2> QED
    BY <2>1
<1>6. fresh' \in BOOLEAN
  BY <1>2
<1>7. TypeOK'
  BY <1>2, <1>3, <1>4, <1>5, <1>6 DEF IInv, TypeOK, local
<1> QED
  BY <1>3, <1>7 DEF IInv

LEMMA GetIInv == ASSUME IInv, Get PROVE IInv'
<1>1. Wanted(template) \in Content /\ NextOpts \in Options /\ Cached \in Content
  BY ApiContent, NextPass DEF IInv, TypeOK
<1>2. /\ opts' \in Options
      /\ desired' \in Content /\ live' = Cached /\ work' = Cached
      /\ todo' = opts'.ensure /\ fresh' = (Len(feed) = 1)
      /\ pc' \in {"idle", "reconcile"} /\ queued' = FALSE
      /\ UNCHANGED <<config, template, feed, edits, drifts, faults>>
  BY <1>1, NormalContent DEF Get, budget
<1>3. fresh' => live' = Api'
  BY <1>2, SeqEnds DEF IInv, TypeOK, Api, Cached
<1>4. PassOK'
  BY <1>2, <1>3 DEF PassOK
<1>5. TypeOK'
  BY <1>1, <1>2, <1>4 DEF IInv, TypeOK
<1> QED
  BY <1>2, <1>5 DEF IInv, ApiDefaulted, Api

LEMMA ReconcilePropertyIInv ==
  ASSUME IInv, NEW p \in opts.ensure, ReconcileProperty(p) PROVE IInv'
<1>1. /\ pc = "reconcile" /\ p \in todo /\ todo' = todo \ {p}
      /\ work' = WithProperty(work, p)
      /\ UNCHANGED <<config, template, feed, queued, pc, opts, desired, live, fresh, budget>>
  BY DEF ReconcileProperty
<1>2. p \in SUBSET Leaves /\ desired \in Content /\ work \in Content
      /\ opts \in Options /\ todo \subseteq opts.ensure
  BY DEF IInv, TypeOK, Options
<1>3. /\ work' \in Content
      /\ \A l \in Leaves :
           work'[l] = IF l \in p THEN desired[l] ELSE work[l]
  BY <1>1, <1>2, WithPropertyIs
<1>4. UNION (opts.ensure \ todo') = p \union UNION (opts.ensure \ todo)
  <2>1. opts.ensure \ todo' = (opts.ensure \ todo) \union {p}
    BY <1>1, <1>2
  <2> QED
    BY <2>1
<1>5. \A l \in Leaves :
        work[l] = IF l \in UNION (opts.ensure \ todo) THEN desired[l] ELSE live[l]
  BY <1>1 DEF IInv, TypeOK, PassOK
<1>6. \A l \in Leaves : work'[l] =
        IF l \in UNION (opts.ensure \ todo') THEN desired'[l] ELSE live'[l]
  BY <1>1, <1>3, <1>4, <1>5
<1>7. Api' = Api /\ (fresh' => live' = Api')
  BY <1>1 DEF Api, IInv, TypeOK, PassOK
<1>8. PassOK'
  BY <1>1, <1>6, <1>7 DEF PassOK
<1>9. TypeOK'
  BY <1>1, <1>2, <1>3, <1>8 DEF IInv, TypeOK, budget
<1> QED
  BY <1>7, <1>9 DEF IInv, ApiDefaulted

\* Every way out of the pass: Write, Conflict and Fail.
LEMMA LeaveIInv ==
  ASSUME IInv, Write \/ Conflict \/ Fail PROVE IInv'
<1>1. /\ pc' = "idle" /\ queued' \in BOOLEAN /\ faults' \in Nat
      /\ UNCHANGED <<config, template, local, fresh, edits, drifts>>
      /\ UNCHANGED feed \/ StoreWork
  <2>1. queued \in BOOLEAN /\ faults \in Nat
    BY DEF IInv, TypeOK
  <2>2. CASE Write
    BY <2>1, <2>2 DEF Write, budget
  <2>3. CASE Conflict
    BY <2>1, <2>3 DEF Conflict, Error, budget
  <2>4. CASE Fail
    <3>1. faults' = faults + 1 /\ pc' = "idle" /\ queued' = TRUE
      BY <2>4 DEF Fail, Error
    <3>2. faults' \in Nat /\ queued' \in BOOLEAN
      BY <2>1, <3>1
    <3>3. /\ UNCHANGED <<config, template, local, fresh, edits, drifts>>
          /\ UNCHANGED feed \/ StoreWork
      BY <2>4 DEF Fail, Error
    <3> QED
      BY <3>1, <3>2, <3>3
  <2> QED
    BY <2>2, <2>3, <2>4
<1>2. feed' \in Seq(Content) /\ feed' # <<>> /\ ApiDefaulted'
  <2>1. CASE UNCHANGED feed
    BY <2>1 DEF IInv, TypeOK, ApiDefaulted, Api
  <2>2. CASE StoreWork
    BY <2>2, StoreWorkStores DEF IInv
  <2> QED
    BY <1>1, <2>1, <2>2
<1>3. PassOK'
  BY <1>1 DEF PassOK
<1>4. TypeOK'
  BY <1>1, <1>2, <1>3 DEF IInv, TypeOK, local
<1> QED
  BY <1>2, <1>4 DEF IInv

LEMMA StutterIInv == ASSUME IInv, UNCHANGED vars PROVE IInv'
BY DEF IInv, TypeOK, PassOK, ApiDefaulted, Api, vars, local, budget

\* IInv is an invariant.
THEOREM Invariance == Spec => []IInv
<1>1. ASSUME IInv, [Next]_vars PROVE IInv'
  BY <1>1, SyncIInv, EditTemplateIInv, DriftIInv, GetIInv,
     ReconcilePropertyIInv, LeaveIInv, StutterIInv DEF Next, Worker
<1> QED
  BY <1>1, InitIInv, PTL DEF Spec

\* Types, and PassOK: the pass works on the version it read, and changes the
\* ensured properties of it one by one and nothing else.
THEOREM TypeCorrect == Spec => []TypeOK
BY Invariance, PTL DEF IInv

-----------------------------------------------------------------------------
(* The writes *)

\* The only steps that write are those that store the work of the pass, which
\* has dealt with all the ensured properties by then.
LEMMA WritesStoreWork ==
  ASSUME IInv, [Next]_vars, Writes
  PROVE  /\ StoreWork
         /\ \A l \in Leaves :
              work[l] = IF l \in Ensured THEN desired[l] ELSE live[l]
         /\ (fresh => live = Api)
<1>1. pc = "reconcile" /\ pc' = "idle" /\ feed' # feed
  BY DEF Writes
<1>2. Next
  BY <1>1 DEF vars
<1>3. Write \/ Fail
  BY <1>1, <1>2 DEF Next, Worker, Sync, EditTemplate, Drift, Get,
                    ReconcileProperty, Conflict
<1>4. StoreWork
  BY <1>1, <1>3 DEF Write, Fail
<1>5. todo = {}
  BY <1>4 DEF StoreWork, CanWrite
<1>6. opts.ensure \ todo = opts.ensure
  BY <1>5
<1> QED
  BY <1>1, <1>4, <1>6 DEF IInv, TypeOK, PassOK, Ensured

\* No write of CreateOrModify, by update or by patch, from a stale cache or
\* not, changes a field outside of the ensured properties, or one that had
\* the desired value when it was read.
THEOREM KeepsOthers == Spec => OthersKept
<1>1. ASSUME IInv, [Next]_vars, Writes, NEW l \in Leaves, Api'[l] # Api[l]
      PROVE  l \in Ensured /\ live[l] # desired[l]
  <2>1. /\ StoreWork
        /\ work[l] = IF l \in Ensured THEN desired[l] ELSE live[l]
        /\ (fresh => live = Api)
    BY <1>1, WritesStoreWork
  <2>2. Api' = Defaulted(Outcome) /\ Outcome \in Content
    BY <1>1, <2>1, StoreWorkStores DEF IInv
  <2>3. Api[l] = Absent => Default[l] = Absent
    BY <1>1 DEF IInv, ApiDefaulted
  <2>4. Outcome[l] # Api[l]
    BY <1>1, <2>2, <2>3, DefaultedContent
  <2>5. work[l] # live[l]
    <3>1. CASE opts.op = "Update"
      BY <2>1, <2>4, <3>1 DEF Outcome, StoreWork, CanWrite
    <3>2. CASE opts.op # "Update"
      BY <2>4, <3>2 DEF Outcome, Patched
    <3> QED
      BY <3>1, <3>2
  <2> QED
    BY <2>1, <2>5
<1>2. ASSUME IInv, [Next]_vars
      PROVE  Writes => \A l \in Leaves :
               Api'[l] # Api[l] => l \in Ensured /\ live[l] # desired[l]
  BY <1>1, <1>2
<1> QED
  BY <1>2, Invariance, PTL DEF Spec, OthersKept

\* A write from the newest version leaves exactly what is desired in the
\* ensured properties, whichever of them contain one another.
THEOREM EnsuresDesired == Spec => WriteEnsures
<1>1. ASSUME IInv, [Next]_vars, Writes, fresh
      PROVE  Normal(Api', opts) = Normal(Defaulted(desired), opts)
  <2>1. /\ StoreWork /\ live = Api
        /\ \A l \in Leaves :
             work[l] = IF l \in Ensured THEN desired[l] ELSE live[l]
    BY <1>1, WritesStoreWork
  <2>2. Api' = Defaulted(Outcome)
    BY <1>1, <2>1, StoreWorkStores DEF IInv
  <2>3. \A l \in Leaves : Outcome[l] = work[l]
    BY <2>1 DEF Outcome, Patched
  <2>4. \A l \in Leaves :
          l \in Ensured => Defaulted(Outcome)[l] = Defaulted(desired)[l]
    BY <2>1, <2>3 DEF Defaulted
  <2> QED
    BY <2>2, <2>4 DEF Normal, Ensured
<1>2. ASSUME IInv, [Next]_vars
      PROVE  Writes /\ fresh => Normal(Api', opts) = Normal(Defaulted(desired), opts)
  BY <1>1, <1>2
<1> QED
  BY <1>2, Invariance, PTL DEF Spec, WriteEnsures

-----------------------------------------------------------------------------
(* At rest *)

\* Another pass is due, or will be once the version on its way arrives.
Due == queued \/ Len(feed) # 1

\* The pass goes by what the next one would, unless that is due.
Current ==
  pc = "reconcile" /\ ~queued =>
    opts = NextOpts /\ desired = Normal(Wanted(template), NextOpts)

\* It works on what the API server has, unless another pass is due.
OnNewest == pc = "reconcile" /\ ~Due => live = Api

RestInv == IInv /\ Current /\ OnNewest /\ RestsInLine

\* A write makes a version, or says nothing new.
LEMMA StoreIsDue ==
  ASSUME feed \in Seq(Content), feed # <<>>, NEW o \in Content, Store(o)
  PROVE  Len(feed') # 1 \/ (feed' = feed /\ Api = Defaulted(o))
<1>1. CASE Defaulted(o) = Api
  BY <1>1 DEF Store
<1>2. CASE Defaulted(o) # Api
  <2>1. feed' = Append(feed, Defaulted(o)) /\ Defaulted(o) \in Content
    BY <1>2, DefaultedContent DEF Store
  <2>2. Len(feed) > 0
    BY SeqEnds
  <2> QED
    BY <2>1, <2>2
<1> QED
  BY <1>1, <1>2

\* What is ensured and not ignored is the same in the API server's version
\* and in the template, if the one is the other with some defaults.
LEMMA SameNormal ==
  ASSUME NEW t \in Content, NEW by, NEW o,
         \A l \in Leaves : l \in UNION by.ensure =>
           o[l] = Defaulted(Normal(t, by))[l],
         Normal(Defaulted(t), by) = Normal(t, by)
  PROVE  Normal(o, by) = Normal(t, by)
<1> DEFINE E == (UNION by.ensure) \ (UNION by.ignore)
<1>1. SUFFICES ASSUME NEW l \in Leaves, l \in E PROVE o[l] = t[l]
  BY DEF Normal
<1>2. Normal(t, by)[l] = t[l] /\ Normal(Defaulted(t), by)[l] = Defaulted(t)[l]
  BY <1>1 DEF Normal
<1>3. o[l] = Defaulted(Normal(t, by))[l]
  BY <1>1
<1>4. Defaulted(Normal(t, by))[l] = Defaulted(t)[l]
  BY <1>2 DEF Defaulted
<1> QED
  BY <1>2, <1>3, <1>4

LEMMA InitRest == Init => RestInv
BY InitIInv DEF Init, RestInv, Current, OnNewest, RestsInLine

\* The environment: what it changes is on its way.
LEMMA EnvRest ==
  ASSUME RestInv, \/ Sync \/ EditTemplate
                  \/ \E l \in Leaves, v \in Vals \union {Absent} : Drift(l, v)
  PROVE  RestInv'
<1>1. IInv'
  BY SyncIInv, EditTemplateIInv, DriftIInv DEF RestInv
<1>2. CASE Sync \/ EditTemplate
  <2>1. queued' = TRUE
    BY <1>2 DEF Sync, EditTemplate
  <2> QED
    BY <1>1, <2>1 DEF RestInv, Current, OnNewest, RestsInLine, Due
<1>3. ASSUME NEW l \in Leaves, NEW v \in Vals \union {Absent}, Drift(l, v)
      PROVE  RestInv'
  <2>1. /\ Store([Api EXCEPT ![l] = v])
        /\ UNCHANGED <<config, template, queued, pc, local>>
    BY <1>3 DEF Drift
  <2>2. [Api EXCEPT ![l] = v] \in Content
    BY <1>3, ApiContent DEF RestInv, IInv, Content
  <2>3. Len(feed') # 1 \/ feed' = feed
    BY <2>1, <2>2, StoreIsDue DEF RestInv, IInv, TypeOK
  <2>4. Current'
    BY <2>1 DEF RestInv, Current, NextOpts, local
  <2>5. CASE Len(feed') # 1
    BY <1>1, <2>4, <2>5 DEF RestInv, OnNewest, RestsInLine, Due
  <2>6. CASE feed' = feed
    BY <1>1, <2>1, <2>4, <2>6
       DEF RestInv, OnNewest, RestsInLine, Due, NextOpts, Stable, Api, local
  <2> QED
    BY <2>3, <2>5, <2>6
<1> QED
  BY <1>2, <1>3

\* A pass that finds nothing to do leaves the resource in line, if it looked
\* at the newest version.
LEMMA GetRest == ASSUME RestInv, Get PROVE RestInv'
<1>1. IInv'
  BY GetIInv DEF RestInv
<1>2. /\ opts' = NextOpts /\ desired' = Normal(Wanted(template), opts')
      /\ live' = Cached
      /\ pc' = IF Normal(Cached, opts') = desired' THEN "idle" ELSE "reconcile"
      /\ UNCHANGED <<config, template, feed>>
  BY DEF Get
<1>3. Len(feed) = 1 => Cached = Api
  BY SeqEnds DEF RestInv, IInv, TypeOK, Cached, Api
<1>4. NextOpts' = NextOpts /\ Api' = Api
  BY <1>2 DEF NextOpts, Api
<1>5. Current'
  BY <1>2, <1>4 DEF Current
<1>6. OnNewest'
  BY <1>2, <1>3, <1>4 DEF OnNewest, Due
<1>7. RestsInLine'
  BY <1>2, <1>3, <1>4 DEF RestsInLine
<1> QED
  BY <1>1, <1>5, <1>6, <1>7 DEF RestInv

LEMMA ReconcilePropertyRest ==
  ASSUME RestInv, NEW p \in opts.ensure, ReconcileProperty(p) PROVE RestInv'
<1>1. IInv'
  BY ReconcilePropertyIInv DEF RestInv
<1>2. /\ pc' = "reconcile" /\ pc = "reconcile"
      /\ UNCHANGED <<config, template, feed, queued, opts, desired, live>>
  BY DEF ReconcileProperty
<1> QED
  BY <1>1, <1>2
     DEF RestInv, Current, OnNewest, RestsInLine, Due, NextOpts, Api

\* Every way out of the pass.  With none due, the write of a pass that worked
\* on the newest version makes a version, or finds the content there already.
LEMMA LeaveRest ==
  ASSUME RestInv, Write \/ Conflict \/ Fail PROVE RestInv'
<1>1. IInv'
  BY LeaveIInv DEF RestInv
<1>2. pc' = "idle"
  BY DEF Write, Conflict, Fail, Error
<1>3. Current' /\ OnNewest'
  BY <1>2 DEF Current, OnNewest
<1>4. RestsInLine'
  <2>1. CASE Conflict \/ Fail
    <3>1. queued' = TRUE
      BY <2>1 DEF Conflict, Fail, Error
    <3> QED
      BY <3>1 DEF RestsInLine
  <2>2. CASE Write
    <3>1. /\ pc = "reconcile" /\ todo = {} /\ StoreWork
          /\ UNCHANGED <<config, template, queued, local>>
      BY <2>2 DEF Write, StoreWork, CanWrite
    <3> SUFFICES ASSUME ~queued, Len(feed') = 1, Stable'
                 PROVE  Normal(Api', NextOpts') = Normal(Wanted(template'), NextOpts')
      BY <3>1 DEF RestsInLine
    <3>2. Store(Outcome) /\ Outcome \in Content
      BY <3>1, StoreWorkStores DEF StoreWork, Outcome, RestInv, IInv
    <3>3. feed' = feed /\ Api = Defaulted(Outcome)
      BY <3>2, StoreIsDue DEF RestInv, IInv, TypeOK
    <3>4. /\ opts = NextOpts /\ desired = Normal(Wanted(template), NextOpts)
          /\ live = Api
      <4>1. ~Due
        BY <3>3 DEF Due
      <4> QED
        BY <3>1, <4>1 DEF RestInv, Current, OnNewest, Due
    <3>5. \A l \in Leaves : l \in Ensured => work[l] = desired[l]
      <4>1. opts.ensure \ todo = opts.ensure
        BY <3>1
      <4> QED
        BY <3>1, <4>1 DEF RestInv, IInv, TypeOK, PassOK, Ensured
    <3>6. \A l \in Leaves : Outcome[l] = work[l]
      BY <3>4 DEF Outcome, Patched
    <3>7. \A l \in Leaves : l \in Ensured => Api[l] = Defaulted(desired)[l]
      BY <3>3, <3>5, <3>6 DEF Defaulted
    <3>8. Normal(Defaulted(Wanted(template)), NextOpts)
            = Normal(Wanted(template), NextOpts)
      BY <3>1 DEF Stable, NextOpts
    <3>9. Wanted(template) \in Content
      BY NextPass DEF RestInv, IInv, TypeOK
    <3>10. \A l \in Leaves : l \in UNION NextOpts.ensure =>
             Api[l] = Defaulted(Normal(Wanted(template), NextOpts))[l]
      BY <3>4, <3>7 DEF Ensured
    <3>11. Normal(Api, NextOpts) = Normal(Wanted(template), NextOpts)
      BY <3>8, <3>9, <3>10, SameNormal
    <3> QED
      BY <3>1, <3>3, <3>11 DEF NextOpts, Api
  <2> QED
    BY <2>1, <2>2
<1> QED
  BY <1>1, <1>3, <1>4 DEF RestInv

LEMMA StutterRest == ASSUME RestInv, UNCHANGED vars PROVE RestInv'
BY StutterIInv DEF RestInv, Current, OnNewest, RestsInLine, Due, NextOpts,
                   Stable, Api, vars, local

\* Without a pass that is due or a version that is on its way the resource has
\* the ensured content, for any options, defaults and interleaving of others,
\* by update and by patch.
THEOREM AtRestInLine == Spec => []RestsInLine
<1>1. ASSUME RestInv, [Next]_vars PROVE RestInv'
  BY <1>1, EnvRest, GetRest, ReconcilePropertyRest, LeaveRest, StutterRest
     DEF Next, Worker
<1>2. RestInv => RestsInLine
  BY DEF RestInv
<1> QED
  BY <1>1, <1>2, InitRest, PTL DEF Spec

===========================================================================
