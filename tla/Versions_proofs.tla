------------------------- MODULE Versions_proofs -------------------------
(***************************************************************************)
(* Lemmas about the sequences of versions that the models keep, from the   *)
(* one that the cache has (head) to that of the API server (last).         *)
(***************************************************************************)
EXTENDS Naturals, Sequences, SequencesExt, TLAPS

LEMMA SeqEnds ==
  ASSUME NEW S, NEW s \in Seq(S), s # <<>>
  PROVE  /\ Head(s) \in S /\ Last(s) \in S /\ Len(s) > 0
         /\ Len(s) = 1 => Head(s) = Last(s)
BY DEF Last

\* After a restart only the last version is kept.
LEMMA LastEnds ==
  ASSUME NEW S, NEW s \in Seq(S), s # <<>>
  PROVE  /\ <<Last(s)>> \in Seq(S) /\ <<Last(s)>> # <<>>
         /\ Last(<<Last(s)>>) = Last(s)
BY DEF Last

LEMMA NonEmpty ==
  ASSUME NEW S, NEW s \in Seq(S), Len(s) > 0 PROVE s # <<>>
<1> SUFFICES ASSUME s = <<>> PROVE FALSE
  OBVIOUS
<1>1. Len(<<>>) = 0
  OBVIOUS
<1> QED
  BY <1>1

\* The cache catches up by one version.
LEMMA TailEnds ==
  ASSUME NEW S, NEW s \in Seq(S), Len(s) > 1
  PROVE  Tail(s) \in Seq(S) /\ Tail(s) # <<>> /\ Last(Tail(s)) = Last(s)
<1>1. /\ Tail(s) \in Seq(S) /\ Len(Tail(s)) = Len(s) - 1
      /\ \A n \in 1..(Len(s) - 1) : Tail(s)[n] = s[n + 1]
  OBVIOUS
<1>2. Len(s) \in Nat /\ Len(Tail(s)) > 0 /\ Len(s) - 1 \in 1..(Len(s) - 1)
  BY <1>1
<1>3. Tail(s)[Len(s) - 1] = s[Len(s)]
  BY <1>1, <1>2
<1>4. Tail(s) # <<>>
  BY <1>1, <1>2, NonEmpty
<1> QED
  BY <1>1, <1>3, <1>4 DEF Last

\* A write adds a version.
LEMMA AppendEnds ==
  ASSUME NEW S, NEW s \in Seq(S), NEW e \in S
  PROVE  /\ Append(s, e) \in Seq(S) /\ Append(s, e) # <<>>
         /\ Last(Append(s, e)) = e
BY DEF Last

\* The versions between the ends.
LEMMA RangeEnds ==
  ASSUME NEW S, NEW s \in Seq(S), s # <<>>
  PROVE  /\ Head(s) \in Range(s) /\ Last(s) \in Range(s)
         /\ Len(s) > 1 => Range(Tail(s)) \subseteq Range(s)
         /\ Range(<<Last(s)>>) = {Last(s)}
<1>1. /\ Len(s) > 0 /\ Len(s) \in Nat /\ DOMAIN s = 1..Len(s)
      /\ Head(s) = s[1] /\ Last(s) = s[Len(s)]
  BY SeqEnds DEF Last
<1>2. Head(s) \in Range(s) /\ Last(s) \in Range(s)
  BY <1>1 DEF Range
<1>3. ASSUME Len(s) > 1 PROVE Range(Tail(s)) \subseteq Range(s)
  <2>1. /\ DOMAIN Tail(s) = 1..(Len(s) - 1)
        /\ \A i \in 1..(Len(s) - 1) : Tail(s)[i] = s[i + 1]
    BY <1>1
  <2>2. \A i \in 1..(Len(s) - 1) : i + 1 \in 1..Len(s)
    BY <1>1
  <2> QED
    BY <1>1, <2>1, <2>2 DEF Range
<1>4. Range(<<Last(s)>>) = {Last(s)}
  BY DEF Range
<1> QED
  BY <1>2, <1>3, <1>4

LEMMA RangeAppend ==
  ASSUME NEW S, NEW s \in Seq(S), NEW e
  PROVE  Range(Append(s, e)) = Range(s) \union {e}
<1> DEFINE a == Append(s, e)
<1>1. /\ Len(s) \in Nat /\ DOMAIN s = 1..Len(s)
      /\ DOMAIN a = 1..(Len(s) + 1) /\ a[Len(s) + 1] = e
      /\ \A i \in 1..Len(s) : a[i] = s[i]
  OBVIOUS
<1> HIDE DEF a
<1>2. \A i \in 1..(Len(s) + 1) : i \in 1..Len(s) \/ i = Len(s) + 1
  BY <1>1
<1>3. \A i \in 1..Len(s) : i \in 1..(Len(s) + 1)
  BY <1>1
<1>4. Len(s) + 1 \in 1..(Len(s) + 1)
  BY <1>1
<1>5. Range(a) = Range(s) \union {e}
  BY <1>1, <1>2, <1>3, <1>4 DEF Range
<1> QED
  BY <1>5 DEF a

LEMMA SeqMonotonic ==
  ASSUME NEW S, NEW T, S \subseteq T, NEW s \in Seq(S)
  PROVE  s \in Seq(T)
OBVIOUS

===========================================================================
