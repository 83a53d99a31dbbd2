---------------------------- MODULE SequenceLemmas ----------------------------
(***************************************************************************)
(* Facts about sequences, and about the positions in them, that the proofs  *)
(* of several modules share.                                               *)
(***************************************************************************)
EXTENDS Integers, Sequences, FiniteSets, SequencesExt, SequenceTheorems,
        FiniteSetTheorems, WellFoundedInduction, TLAPS

-----------------------------------------------------------------------------
(* Positions *)

\* Every set of numbers has a least one: otherwise the intervals below its elements
\* would get smaller without end.
LEMMA LeastElement ==
  ASSUME NEW T \in SUBSET Nat, T # {}
  PROVE  \E x \in T : \A y \in T : x <= y
<1> DEFINE R == StrictSubsetOrdering(Nat)
           Below == {0 .. x : x \in T}
<1>1. IsWellFoundedOn(R, FiniteSubsetsOf(Nat))  BY FS_StrictSubsetOrderingWellFounded
<1>2. Below \subseteq FiniteSubsetsOf(Nat)
  <2>1. \A x \in Nat : IsFiniteSet(0 .. x)  BY FS_Interval
  <2> QED  BY <2>1 DEF FiniteSubsetsOf
<1>3. Below # {}  OBVIOUS
<1> HIDE DEF R, Below
<1>4. PICK U \in Below : \A W \in Below : <<W, U>> \notin R  BY <1>1, <1>2, <1>3, WFMin
<1>5. PICK x \in T : U = 0 .. x  BY DEF Below
<1>6. ASSUME NEW y \in T, y < x PROVE FALSE
  <2>1. 0 .. y \in Below  BY DEF Below
  <2>2. 0 .. y \subseteq 0 .. x /\ 0 .. y # 0 .. x /\ 0 .. x \subseteq Nat  BY <1>6
  <2>3. <<0 .. y, 0 .. x>> \in R  BY <2>2 DEF R, StrictSubsetOrdering
  <2> QED  BY <1>4, <1>5, <2>1, <2>3
<1> QED  BY <1>6

\* A bounded one has a greatest.
LEMMA GreatestElement ==
  ASSUME NEW n \in Nat, NEW T \in SUBSET (0 .. n), T # {}
  PROVE  \E x \in T : \A y \in T : y <= x
<1> DEFINE U == {n - x : x \in T}
<1>1. U \in SUBSET Nat /\ U # {}
  <2>1. \A x \in T : n - x \in Nat  OBVIOUS
  <2>2. PICK x \in T : TRUE  OBVIOUS
  <2>3. n - x \in U  BY <2>2
  <2> QED  BY <2>1, <2>3
<1>2. PICK u \in U : \A w \in U : u <= w  BY <1>1, LeastElement
<1>3. PICK x \in T : u = n - x  OBVIOUS
<1>4. \A y \in T : n - y \in U  OBVIOUS
<1> HIDE DEF U
<1>5. ASSUME NEW y \in T PROVE y <= x
  <2>1. u <= n - y  BY <1>2, <1>4
  <2> QED  BY <1>3, <2>1
<1> QED  BY <1>5

-----------------------------------------------------------------------------
(* Queues *)

\* A sequence is its head before its tail.
LEMMA HeadAndTail ==
  ASSUME NEW S, NEW s \in Seq(S), s # << >>
  PROVE  s = <<Head(s)>> \o Tail(s) /\ Head(s) \in S /\ Tail(s) \in Seq(S)
<1>1. Len(s) \in Nat \ {0} /\ s = SubSeq(s, 1, Len(s))
  BY EmptySeq, SubSeqFull
<1>2. s = <<s[1]>> \o SubSeq(s, 2, Len(s))
  BY <1>1, SubSeqRecursiveFirst
<1>3. Tail(s) = SubSeq(s, 2, Len(s))
  BY TailIsSubSeq
<1> QED  BY <1>2, <1>3, HeadTailProperties, Head(s) = s[1]

\* What was put in front comes out first.
LEMMA TailOfConcat ==
  ASSUME NEW S, NEW e \in S, NEW s \in Seq(S)
  PROVE  /\ Head(<<e>> \o s) = e
         /\ Tail(<<e>> \o s) = s
         /\ <<e>> \o s # << >>
<1>1. <<e>> \in Seq(S) /\ Len(<<e>>) = 1  OBVIOUS
<1> DEFINE t == <<e>> \o s
<1>2. /\ t \in Seq(S) /\ Len(t) = 1 + Len(s) /\ Len(s) \in Nat
      /\ \A i \in 1 .. 1 + Len(s) : t[i] = IF i <= 1 THEN <<e>>[i] ELSE s[i - 1]
  BY <1>1, ConcatProperties, LenProperties
<1>3. t # << >>  BY <1>2, EmptySeq
<1>4. t[1] = e  BY <1>2
<1>5. Tail(t) \in Seq(S) /\ Len(Tail(t)) = Len(s)
      /\ \A i \in 1 .. Len(s) : Tail(t)[i] = t[i + 1]
  BY <1>2, <1>3, HeadTailProperties
<1>6. \A i \in 1 .. Len(s) : Tail(t)[i] = s[i]
  BY <1>2, <1>5
<1>7. Tail(t) = s  BY <1>5, <1>6, SeqEqual
<1> QED  BY <1>3, <1>4, <1>7, Head(t) = t[1]
\* What leaves the front of one queue and enters the end of the one before it leaves
\* the two together as they were.
LEMMA MoveAcross ==
  ASSUME NEW S, NEW p \in Seq(S), NEW q \in Seq(S), NEW m \in S
  PROVE  Append(p, m) \o q = p \o (<<m>> \o q)
<1>1. <<m>> \in Seq(S) /\ Append(p, m) = p \o <<m>>  BY AppendIsConcat
<1> QED  BY <1>1, ConcatAssociative

LEMMA AppendAtEnd ==
  ASSUME NEW S, NEW p \in Seq(S), NEW q \in Seq(S), NEW m \in S
  PROVE  p \o Append(q, m) = Append(p \o q, m)
<1>1. <<m>> \in Seq(S) /\ Append(q, m) = q \o <<m>>  BY AppendIsConcat
<1>2. p \o q \in Seq(S)  BY ConcatProperties
<1>3. Append(p \o q, m) = (p \o q) \o <<m>>  BY <1>2, AppendIsConcat
<1> QED  BY <1>1, <1>3, ConcatAssociative

\* The head of one queue becomes the last of the queue in front of it.
LEMMA HandOver ==
  ASSUME NEW S, NEW p \in Seq(S), NEW q \in Seq(S), q # << >>
  PROVE  Append(p, Head(q)) \o Tail(q) = p \o q
<1>1. q = <<Head(q)>> \o Tail(q) /\ Head(q) \in S /\ Tail(q) \in Seq(S)  BY HeadAndTail
<1>2. Append(p, Head(q)) \o Tail(q) = p \o (<<Head(q)>> \o Tail(q))  BY <1>1, MoveAcross
<1> QED  BY <1>1, <1>2

\* What leaves the front of the first of two queues leaves the front of both.
LEMMA FrontOfConcat ==
  ASSUME NEW S, NEW p \in Seq(S), NEW q \in Seq(S), p # << >>
  PROVE  p \o q # << >> /\ Head(p \o q) = Head(p) /\ Tail(p \o q) = Tail(p) \o q
<1> DEFINE h == Head(p)
           t == Tail(p)
<1>1. p = <<h>> \o t /\ h \in S /\ t \in Seq(S)  BY HeadAndTail
<1> HIDE DEF h, t
<1>2. <<h>> \in Seq(S) /\ t \o q \in Seq(S)  BY <1>1, ConcatProperties
<1>3. (<<h>> \o t) \o q = <<h>> \o (t \o q)  BY <1>1, <1>2, ConcatAssociative
<1>4. p \o q = <<h>> \o (t \o q)  BY <1>1, <1>3, Zenon
<1> QED  BY <1>1, <1>2, <1>4, TailOfConcat DEF h, t

-----------------------------------------------------------------------------
(* Subsequences *)

\* s holds elements of o, none twice, in the order they have in o.
Follows(s, o) ==
    /\ \A i \in 1 .. Len(s) : \E k \in 1 .. Len(o) : o[k] = s[i]
    /\ \A i, j \in 1 .. Len(s) : i < j =>
          \A k, l \in 1 .. Len(o) : o[k] = s[i] /\ o[l] = s[j] => k < l

\* What is left of s when some elements are taken out, f telling where they stood.
LEMMA FollowsPart ==
  ASSUME NEW s, NEW t, NEW o, NEW f,
         \A i \in 1 .. Len(t) : f[i] \in 1 .. Len(s) /\ t[i] = s[f[i]],
         \A i, j \in 1 .. Len(t) : i < j => f[i] < f[j],
         Follows(s, o)
  PROVE  Follows(t, o)
<1>1. \A i \in 1 .. Len(t) : \E k \in 1 .. Len(o) : o[k] = t[i]
  BY DEF Follows
<1>2. ASSUME NEW i \in 1 .. Len(t), NEW j \in 1 .. Len(t), i < j,
             NEW k \in 1 .. Len(o), NEW l \in 1 .. Len(o), o[k] = t[i], o[l] = t[j]
      PROVE  k < l
  <2>1. f[i] \in 1 .. Len(s) /\ f[j] \in 1 .. Len(s) /\ f[i] < f[j]  BY <1>2
  <2>2. o[k] = s[f[i]] /\ o[l] = s[f[j]]  BY <1>2
  <2> QED  BY <2>1, <2>2 DEF Follows
<1> QED  BY <1>1, <1>2 DEF Follows

LEMMA FollowsDrop ==
  ASSUME NEW S, NEW p \in Seq(S), NEW q \in Seq(S), NEW m \in S, NEW o,
         Follows(p \o (<<m>> \o q), o)
  PROVE  Follows(p \o q, o)
<1> DEFINE s == p \o (<<m>> \o q)
           t == p \o q
           f == [i \in 1 .. Len(t) |-> IF i <= Len(p) THEN i ELSE i + 1]
<1>1. <<m>> \in Seq(S) /\ Len(<<m>>) = 1  OBVIOUS
<1>2. /\ Len(p) \in Nat /\ Len(q) \in Nat
      /\ <<m>> \o q \in Seq(S) /\ Len(<<m>> \o q) = 1 + Len(q)
      /\ \A i \in 1 .. 1 + Len(q) : (<<m>> \o q)[i] = IF i <= 1 THEN m ELSE q[i - 1]
  BY <1>1, ConcatProperties, LenProperties
<1>3. /\ Len(s) = Len(p) + (1 + Len(q))
      /\ \A i \in 1 .. Len(p) + (1 + Len(q)) :
            s[i] = IF i <= Len(p) THEN p[i] ELSE (<<m>> \o q)[i - Len(p)]
  BY <1>2, ConcatProperties
<1>4. /\ Len(t) = Len(p) + Len(q)
      /\ \A i \in 1 .. Len(p) + Len(q) :
            t[i] = IF i <= Len(p) THEN p[i] ELSE q[i - Len(p)]
  BY ConcatProperties
<1>5. ASSUME NEW i \in 1 .. Len(t)
      PROVE  f[i] \in 1 .. Len(s) /\ t[i] = s[f[i]]
  <2>1. CASE i <= Len(p)  BY <1>2, <1>3, <1>4, <2>1
  <2>2. CASE i > Len(p)
    <3>1. f[i] = i + 1 /\ i + 1 \in 1 .. Len(s)  BY <1>2, <1>3, <1>4, <2>2
    <3>2. s[i + 1] = (<<m>> \o q)[i + 1 - Len(p)]  BY <1>2, <1>3, <1>4, <2>2
    <3>3. (<<m>> \o q)[i + 1 - Len(p)] = q[i - Len(p)]  BY <1>2, <1>4, <2>2
    <3>4. t[i] = q[i - Len(p)]  BY <1>2, <1>4, <2>2
    <3> QED  BY <3>1, <3>2, <3>3, <3>4
  <2> QED  BY <1>2, <1>4, <2>1, <2>2
<1>6. \A i, j \in 1 .. Len(t) : i < j => f[i] < f[j]  BY <1>2, <1>4
<1> HIDE DEF s, t, f
<1>7. Follows(s, o)  BY DEF s
<1>8. Follows(t, o)  BY <1>5, <1>6, <1>7, FollowsPart
<1> QED  BY <1>8 DEF t

LEMMA FollowsSuffix ==
  ASSUME NEW S, NEW p \in Seq(S), NEW q \in Seq(S), NEW o, Follows(p \o q, o)
  PROVE  Follows(q, o)
<1> DEFINE s == p \o q
           f == [i \in 1 .. Len(q) |-> i + Len(p)]
<1>1. /\ Len(p) \in Nat /\ Len(q) \in Nat /\ Len(s) = Len(p) + Len(q)
      /\ \A i \in 1 .. Len(p) + Len(q) :
            s[i] = IF i <= Len(p) THEN p[i] ELSE q[i - Len(p)]
  BY ConcatProperties, LenProperties
<1>2. ASSUME NEW i \in 1 .. Len(q)
      PROVE  f[i] \in 1 .. Len(s) /\ q[i] = s[f[i]]
  <2>1. f[i] = i + Len(p) /\ i + Len(p) \in 1 .. Len(s) /\ ~(i + Len(p) <= Len(p))
    BY <1>1
  <2>2. s[i + Len(p)] = q[i + Len(p) - Len(p)]  BY <1>1, <2>1
  <2>3. i + Len(p) - Len(p) = i  BY <1>1
  <2> QED  BY <2>1, <2>2, <2>3
<1>3. \A i, j \in 1 .. Len(q) : i < j => f[i] < f[j]  BY <1>1
<1> HIDE DEF s, f
<1>4. Follows(s, o)  BY DEF s
<1> QED  BY <1>2, <1>3, <1>4, FollowsPart

\* The order grows at its end by an element that it did not have.
LEMMA FollowsLonger ==
  ASSUME NEW S, NEW s \in Seq(S), NEW o \in Seq(S), NEW m \in S,
         \A k \in 1 .. Len(o) : o[k] # m,
         Follows(s, o)
  PROVE  Follows(s, Append(o, m)) /\ Follows(Append(s, m), Append(o, m))
<1> DEFINE o1 == Append(o, m)
           s1 == Append(s, m)
<1>1. /\ Len(o) \in Nat /\ Len(o1) = Len(o) + 1 /\ o1[Len(o) + 1] = m
      /\ \A k \in 1 .. Len(o) : o1[k] = o[k]
  BY AppendProperties, LenProperties
<1>2. /\ Len(s) \in Nat /\ Len(s1) = Len(s) + 1 /\ s1[Len(s) + 1] = m
      /\ \A i \in 1 .. Len(s) : s1[i] = s[i]
  BY AppendProperties, LenProperties
<1>3. \A i \in 1 .. Len(s) : s[i] # m  BY DEF Follows
<1> HIDE DEF o1, s1
<1>4. Follows(s, o1)
  <2>1. \A i \in 1 .. Len(s) : \E k \in 1 .. Len(o1) : o1[k] = s[i]
    BY <1>1 DEF Follows
  <2>2. \A i \in 1 .. Len(s), k \in 1 .. Len(o1) :
           o1[k] = s[i] => k \in 1 .. Len(o) /\ o[k] = s[i]
    BY <1>1, <1>3
  <2> QED  BY <2>1, <2>2 DEF Follows
<1>5. Follows(s1, o1)
  <2>1. \A i \in 1 .. Len(s1) : \E k \in 1 .. Len(o1) : o1[k] = s1[i]
    BY <1>1, <1>2, <1>4 DEF Follows
  <2>2. ASSUME NEW i \in 1 .. Len(s1), NEW j \in 1 .. Len(s1), i < j,
               NEW k \in 1 .. Len(o1), NEW l \in 1 .. Len(o1),
               o1[k] = s1[i], o1[l] = s1[j]
        PROVE  k < l
    <3>1. i \in 1 .. Len(s) /\ s1[i] = s[i]  BY <1>2, <2>2
    <3>2. CASE j \in 1 .. Len(s)
      <4>1. s1[j] = s[j]  BY <1>2, <3>2
      <4> QED  BY <1>4, <2>2, <3>1, <3>2, <4>1 DEF Follows
    <3>3. CASE j = Len(s) + 1
      <4>1. k # Len(o) + 1  BY <1>1, <1>3, <2>2, <3>1
      <4>2. l = Len(o) + 1  BY <1>1, <1>2, <2>2, <3>3
      <4> QED  BY <1>1, <4>1, <4>2
    <3> QED  BY <1>2, <3>2, <3>3
  <2> QED  BY <2>1, <2>2 DEF Follows
<1> QED  BY <1>4, <1>5 DEF o1, s1

\* An element comes after all that stand before it, wherever o has it.
LEMMA FollowsAfter ==
  ASSUME NEW S, NEW p \in Seq(S), NEW q \in Seq(S), NEW m \in S, NEW o,
         Follows(p \o (<<m>> \o q), o)
  PROVE  \E i \in 1 .. Len(o) :
            o[i] = m /\ \A j \in 1 .. Len(o), k \in 1 .. Len(p) : o[j] = p[k] => j < i
<1> DEFINE s == p \o (<<m>> \o q)
<1>1. <<m>> \in Seq(S) /\ Len(<<m>>) = 1  OBVIOUS
<1>2. /\ Len(p) \in Nat /\ Len(q) \in Nat
      /\ <<m>> \o q \in Seq(S) /\ Len(<<m>> \o q) = 1 + Len(q)
      /\ (<<m>> \o q)[1] = m
  BY <1>1, ConcatProperties, LenProperties
<1>3. /\ Len(s) = Len(p) + (1 + Len(q))
      /\ \A i \in 1 .. Len(p) + (1 + Len(q)) :
            s[i] = IF i <= Len(p) THEN p[i] ELSE (<<m>> \o q)[i - Len(p)]
  BY <1>2, ConcatProperties
<1>4. Len(p) + 1 \in 1 .. Len(s) /\ s[Len(p) + 1] = m
  BY <1>2, <1>3
<1>5. \A k \in 1 .. Len(p) : k \in 1 .. Len(s) /\ k < Len(p) + 1 /\ s[k] = p[k]
  BY <1>2, <1>3
<1> HIDE DEF s
<1>6. Follows(s, o)  BY DEF s
<1>7. PICK i \in 1 .. Len(o) : o[i] = s[Len(p) + 1]  BY <1>4, <1>6 DEF Follows
<1>8. ASSUME NEW j \in 1 .. Len(o), NEW k \in 1 .. Len(p), o[j] = p[k]
      PROVE  j < i
  <2>1. k \in 1 .. Len(s) /\ k < Len(p) + 1 /\ o[j] = s[k]  BY <1>5, <1>8
  <2> QED  BY <1>4, <1>6, <1>7, <2>1 DEF Follows
<1> QED  BY <1>4, <1>7, <1>8

LEMMA ToSetIs ==
  ASSUME NEW S, NEW s \in Seq(S)
  PROVE  ToSet(s) = {s[i] : i \in 1 .. Len(s)} /\ ToSet(s) \subseteq S
BY LenProperties, ElementOfSeq DEF ToSet

LEMMA ToSetOfConcat ==
  ASSUME NEW S, NEW s \in Seq(S), NEW t \in Seq(S)
  PROVE  ToSet(s \o t) = ToSet(s) \cup ToSet(t)
<1>1. /\ Len(s) \in Nat /\ Len(t) \in Nat
      /\ s \o t \in Seq(S) /\ Len(s \o t) = Len(s) + Len(t)
      /\ \A i \in 1 .. Len(s) + Len(t) :
            (s \o t)[i] = IF i <= Len(s) THEN s[i] ELSE t[i - Len(s)]
  BY ConcatProperties, LenProperties
<1>2. /\ ToSet(s \o t) = {(s \o t)[i] : i \in 1 .. Len(s) + Len(t)}
      /\ ToSet(s) = {s[i] : i \in 1 .. Len(s)} /\ ToSet(t) = {t[i] : i \in 1 .. Len(t)}
  BY <1>1, ToSetIs
<1>3. ASSUME NEW i \in 1 .. Len(s) + Len(t)
      PROVE  (s \o t)[i] \in {s[k] : k \in 1 .. Len(s)} \cup {t[k] : k \in 1 .. Len(t)}
  <2>1. CASE i <= Len(s)
    <3>1. i \in 1 .. Len(s)  BY <1>1, <2>1
    <3> QED  BY <1>1, <2>1, <3>1
  <2>2. CASE ~(i <= Len(s))
    <3>1. i - Len(s) \in 1 .. Len(t)  BY <1>1, <2>2
    <3> QED  BY <1>1, <2>2, <3>1
  <2> QED  BY <2>1, <2>2
<1>4. ASSUME NEW i \in 1 .. Len(s)
      PROVE  i \in 1 .. Len(s) + Len(t) /\ (s \o t)[i] = s[i]
  BY <1>1
<1>5. ASSUME NEW i \in 1 .. Len(t)
      PROVE  i + Len(s) \in 1 .. Len(s) + Len(t) /\ (s \o t)[i + Len(s)] = t[i]
  <2>1. /\ i + Len(s) \in 1 .. Len(s) + Len(t) /\ ~(i + Len(s) <= Len(s))
        /\ (i + Len(s)) - Len(s) = i
    BY <1>1
  <2> QED  BY <1>1, <2>1
<1>6. ToSet(s \o t) \subseteq ToSet(s) \cup ToSet(t)  BY <1>2, <1>3
<1>7. ToSet(s) \subseteq ToSet(s \o t)  BY <1>2, <1>4
<1>8. ToSet(t) \subseteq ToSet(s \o t)
  <2>1. \A i \in 1 .. Len(t) : t[i] \in {(s \o t)[k] : k \in 1 .. Len(s) + Len(t)}
    BY <1>5
  <2> QED  BY <1>2, <2>1
<1> QED  BY <1>6, <1>7, <1>8

LEMMA ToSetOfOne == \A e : ToSet(<<e>>) = {e} /\ ToSet(<< >>) = {}
BY DEF ToSet

LEMMA ToSetOfAppend ==
  ASSUME NEW S, NEW s \in Seq(S), NEW e \in S
  PROVE  ToSet(Append(s, e)) = ToSet(s) \cup {e}
<1>1. <<e>> \in Seq(S) /\ Append(s, e) = s \o <<e>>  BY AppendIsConcat
<1>2. ToSet(s \o <<e>>) = ToSet(s) \cup ToSet(<<e>>)  BY <1>1, ToSetOfConcat
<1> QED  BY <1>1, <1>2, ToSetOfOne, Zenon

LEMMA ToSetOfTail ==
  ASSUME NEW S, NEW s \in Seq(S), s # << >>
  PROVE  ToSet(s) = {Head(s)} \cup ToSet(Tail(s))
<1> DEFINE h == Head(s)
           t == Tail(s)
<1>1. s = <<h>> \o t /\ h \in S /\ t \in Seq(S)  BY HeadAndTail
<1> HIDE DEF h, t
<1>2. <<h>> \in Seq(S)  BY <1>1
<1>3. ToSet(<<h>> \o t) = ToSet(<<h>>) \cup ToSet(t)  BY <1>1, <1>2, ToSetOfConcat
<1>4. ToSet(s) = {h} \cup ToSet(t)  BY <1>1, <1>3, ToSetOfOne, Zenon
<1> QED  BY <1>4 DEF h, t

LEMMA SeqOfMore ==
  ASSUME NEW S, NEW T, S \subseteq T, NEW s \in Seq(S)
  PROVE  s \in Seq(T)
<1>1. Len(s) \in Nat /\ s \in [1 .. Len(s) -> S]  BY LenProperties
<1>2. s \in [1 .. Len(s) -> T]  BY <1>1
<1> QED  BY <1>1, <1>2, SeqDef

-----------------------------------------------------------------------------
(* Insertion and removal *)

LEMMA PrefixIs ==
  ASSUME NEW S, NEW s \in Seq(S), NEW p \in 1 .. Len(s) + 1
  PROVE  /\ SubSeq(s, 1, p - 1) \in Seq(S) /\ Len(SubSeq(s, 1, p - 1)) = p - 1
         /\ \A k \in 1 .. p - 1 : SubSeq(s, 1, p - 1)[k] = s[k]
<1>1. Len(s) \in Nat /\ \A k \in 1 .. Len(s) : s[k] \in S  BY LenProperties, ElementOfSeq
<1>2. \A k \in 1 .. p - 1 : s[k] \in S  BY <1>1
<1> QED  BY <1>1, <1>2, SubSeqProperties

LEMMA SuffixIs ==
  ASSUME NEW S, NEW s \in Seq(S), NEW p \in 1 .. Len(s) + 1
  PROVE  /\ SubSeq(s, p, Len(s)) \in Seq(S) /\ Len(SubSeq(s, p, Len(s))) = Len(s) - p + 1
         /\ \A k \in 1 .. Len(s) - p + 1 : SubSeq(s, p, Len(s))[k] = s[p + k - 1]
<1>1. Len(s) \in Nat /\ \A k \in 1 .. Len(s) : s[k] \in S  BY LenProperties, ElementOfSeq
<1>2. \A k \in p .. Len(s) : s[k] \in S  BY <1>1
<1> QED  BY <1>1, <1>2, SubSeqProperties

LEMMA InsertAtIs ==
  ASSUME NEW S, NEW s \in Seq(S), NEW e \in S, NEW p \in 1 .. Len(s) + 1
  PROVE  /\ InsertAt(s, p, e) \in Seq(S) /\ Len(InsertAt(s, p, e)) = Len(s) + 1
         /\ \A k \in 1 .. Len(s) + 1 :
               InsertAt(s, p, e)[k] = IF k < p THEN s[k] ELSE IF k = p THEN e ELSE s[k - 1]
<1> DEFINE a == SubSeq(s, 1, p - 1)
           b == SubSeq(s, p, Len(s))
<1>1. a \in Seq(S) /\ Len(a) = p - 1 /\ \A k \in 1 .. p - 1 : a[k] = s[k]  BY PrefixIs
<1>2. /\ b \in Seq(S) /\ Len(b) = Len(s) - p + 1
      /\ \A k \in 1 .. Len(s) - p + 1 : b[k] = s[p + k - 1]
  BY SuffixIs
<1>3. <<e>> \in Seq(S) /\ Len(<<e>>) = 1 /\ <<e>>[1] = e /\ Len(s) \in Nat  BY LenProperties
<1>4. InsertAt(s, p, e) = (a \o <<e>>) \o b  BY DEF InsertAt
<1> HIDE DEF a, b
<1> DEFINE c == a \o <<e>>
<1>5. c \in Seq(S) /\ Len(c) = p /\ \A k \in 1 .. p : c[k] = IF k < p THEN s[k] ELSE e
  BY <1>1, <1>3, ConcatProperties
<1> HIDE DEF c
<1>6. /\ c \o b \in Seq(S) /\ Len(c \o b) = Len(s) + 1
      /\ \A k \in 1 .. Len(s) + 1 : (c \o b)[k] = IF k <= p THEN c[k] ELSE b[k - p]
  <2>1. Len(c) + Len(b) = Len(s) + 1  BY <1>2, <1>3, <1>5
  <2> QED  BY <1>2, <1>5, <2>1, ConcatProperties
<1>7. \A k \in p + 1 .. Len(s) + 1 : b[k - p] = s[k - 1]
  BY <1>2, <1>3
<1>8. InsertAt(s, p, e) = c \o b  BY <1>4 DEF c
<1> QED  BY <1>3, <1>5, <1>6, <1>7, <1>8

LEMMA RemoveAtIs ==
  ASSUME NEW S, NEW s \in Seq(S), NEW p \in 1 .. Len(s)
  PROVE  /\ RemoveAt(s, p) \in Seq(S) /\ Len(RemoveAt(s, p)) = Len(s) - 1
         /\ \A k \in 1 .. Len(s) - 1 :
               RemoveAt(s, p)[k] = IF k < p THEN s[k] ELSE s[k + 1]
<1> DEFINE a == SubSeq(s, 1, p - 1)
           b == SubSeq(s, p + 1, Len(s))
<1>0. Len(s) \in Nat  BY LenProperties
<1>1. a \in Seq(S) /\ Len(a) = p - 1 /\ \A k \in 1 .. p - 1 : a[k] = s[k]
  BY <1>0, PrefixIs
<1>2. /\ b \in Seq(S) /\ Len(b) = Len(s) - p
      /\ \A k \in 1 .. Len(s) - p : b[k] = s[p + k]
  <2>1. p + 1 \in 1 .. Len(s) + 1  BY <1>0
  <2> QED  BY <1>0, <2>1, SuffixIs
<1>3. RemoveAt(s, p) = a \o b  BY DEF RemoveAt
<1> HIDE DEF a, b
<1>4. /\ a \o b \in Seq(S) /\ Len(a \o b) = Len(s) - 1
      /\ \A k \in 1 .. Len(s) - 1 : (a \o b)[k] = IF k <= p - 1 THEN a[k] ELSE b[k - (p - 1)]
  BY <1>0, <1>1, <1>2, ConcatProperties
<1>5. \A k \in p .. Len(s) - 1 : b[k - (p - 1)] = s[k + 1]
  BY <1>0, <1>2
<1> QED  BY <1>0, <1>1, <1>3, <1>4, <1>5

LEMMA FrontIs ==
  ASSUME NEW S, NEW s \in Seq(S), s # << >>
  PROVE  /\ Len(s) \in Nat \ {0} /\ Last(s) = s[Len(s)] /\ Last(s) \in S
         /\ Front(s) \in Seq(S) /\ Len(Front(s)) = Len(s) - 1
         /\ \A k \in 1 .. Len(s) - 1 : Front(s)[k] = s[k]
<1>1. Len(s) \in Nat \ {0}  BY EmptySeq, LenProperties
<1>2. s[Len(s)] \in S  BY <1>1, ElementOfSeq
<1>3. Len(s) \in 1 .. Len(s) + 1 /\ Front(s) = SubSeq(s, 1, Len(s) - 1)
  BY <1>1 DEF Front
<1> QED  BY <1>1, <1>2, <1>3, PrefixIs DEF Last

-----------------------------------------------------------------------------
(* Sequences without repetition *)

LEMMA AppendNew ==
  ASSUME NEW S, NEW s \in Seq(S), NEW e \in S
  PROVE  /\ ToSet(Append(s, e)) = ToSet(s) \cup {e}
         /\ IsInjective(s) /\ e \notin ToSet(s) => IsInjective(Append(s, e))
<1> DEFINE t == Append(s, e)
<1>1. /\ t \in Seq(S) /\ Len(t) = Len(s) + 1 /\ Len(s) \in Nat
      /\ \A k \in 1 .. Len(s) : t[k] = s[k]
      /\ t[Len(s) + 1] = e
  BY AppendProperties, LenProperties
<1> HIDE DEF t
<1>2. ToSet(s) = {s[k] : k \in 1 .. Len(s)} /\ ToSet(t) = {t[k] : k \in 1 .. Len(s) + 1}
  BY <1>1, ToSetIs
<1>3. ToSet(t) = ToSet(s) \cup {e}  BY <1>1, <1>2
<1>4. ASSUME IsInjective(s), e \notin ToSet(s) PROVE IsInjective(t)
  <2>1. DOMAIN s = 1 .. Len(s) /\ DOMAIN t = 1 .. Len(s) + 1  BY <1>1, LenProperties
  <2>2. \A k \in 1 .. Len(s) : s[k] # e  BY <1>2, <1>4
  <2>3. \A k, l \in 1 .. Len(s) : s[k] = s[l] => k = l  BY <1>4, <2>1 DEF IsInjective
  <2>4. \A k, l \in 1 .. Len(s) + 1 : t[k] = t[l] => k = l  BY <1>1, <2>2, <2>3
  <2> QED  BY <2>1, <2>4 DEF IsInjective
<1> QED  BY <1>3, <1>4 DEF t

LEMMA Singleton ==
  ASSUME NEW S, NEW e \in S
  PROVE  <<e>> \in Seq(S) /\ ToSet(<<e>>) = {e} /\ IsInjective(<<e>>)
<1>1. <<e>> \in Seq(S) /\ Len(<<e>>) = 1 /\ <<e>>[1] = e /\ DOMAIN <<e>> = 1 .. 1  OBVIOUS
<1>2. ToSet(<<e>>) = {<<e>>[k] : k \in 1 .. Len(<<e>>)}  BY <1>1, ToSetIs
<1>3. ToSet(<<e>>) = {e}  BY <1>1, <1>2
<1> QED  BY <1>1, <1>3 DEF IsInjective

-----------------------------------------------------------------------------
(* Occurrences *)

\* How often x is in s.
Occurrences(s, x) == Cardinality({i \in DOMAIN s : s[i] = x})

LEMMA OccurrencesType ==
  ASSUME NEW S, NEW s \in Seq(S), NEW x
  PROVE  /\ IsFiniteSet({i \in DOMAIN s : s[i] = x})
         /\ Occurrences(s, x) \in Nat
<1>1. Len(s) \in Nat /\ DOMAIN s = 1 .. Len(s)  BY LenProperties
<1>2. IsFiniteSet(1 .. Len(s))  BY <1>1, FS_Interval
<1>3. IsFiniteSet({i \in DOMAIN s : s[i] = x})  BY <1>1, <1>2, FS_Subset
<1> QED  BY <1>3, FS_CardinalityType DEF Occurrences

LEMMA NoOccurrence ==
  ASSUME NEW S, NEW s \in Seq(S), NEW x, \A i \in 1 .. Len(s) : s[i] # x
  PROVE  Occurrences(s, x) = 0
<1>1. {i \in DOMAIN s : s[i] = x} = {}  BY LenProperties
<1> QED  BY <1>1, FS_EmptySet DEF Occurrences

LEMMA NothingOccurs == \A x : Occurrences(<< >>, x) = 0
<1>1. << >> \in Seq({}) /\ \A i \in 1 .. Len(<< >>) : FALSE  OBVIOUS
<1> QED  BY <1>1, NoOccurrence

LEMMA OccurrencesOfOne ==
  ASSUME NEW e, NEW x
  PROVE  Occurrences(<<e>>, x) = IF e = x THEN 1 ELSE 0
<1>1. CASE e = x
  <2>1. {i \in DOMAIN <<e>> : <<e>>[i] = x} = {1}  BY <1>1
  <2> QED  BY <1>1, <2>1, FS_Singleton DEF Occurrences
<1>2. CASE e # x
  <2>1. {i \in DOMAIN <<e>> : <<e>>[i] = x} = {}  BY <1>2
  <2> QED  BY <1>2, <2>1, FS_EmptySet DEF Occurrences
<1> QED  BY <1>1, <1>2

\* What is in one of two sequences is at another place of their concatenation.
LEMMA OccurrencesOfConcat ==
  ASSUME NEW S, NEW s \in Seq(S), NEW t \in Seq(S), NEW x
  PROVE  Occurrences(s \o t, x) = Occurrences(s, x) + Occurrences(t, x)
<1> DEFINE A == {i \in DOMAIN s : s[i] = x}
           B == {i \in DOMAIN t : t[i] = x}
           C == {i + Len(s) : i \in B}
           shift == [i \in B |-> i + Len(s)]
<1>1. /\ Len(s) \in Nat /\ DOMAIN s = 1 .. Len(s)
      /\ Len(t) \in Nat /\ DOMAIN t = 1 .. Len(t)
  BY LenProperties
<1>2. /\ s \o t \in Seq(S) /\ Len(s \o t) = Len(s) + Len(t)
      /\ \A i \in 1 .. Len(s) + Len(t) :
            (s \o t)[i] = IF i <= Len(s) THEN s[i] ELSE t[i - Len(s)]
  BY ConcatProperties
<1>3. {i \in DOMAIN (s \o t) : (s \o t)[i] = x} = A \cup C
  <2>1. DOMAIN (s \o t) = 1 .. Len(s) + Len(t)  BY <1>2, LenProperties
  <2>2. ASSUME NEW i \in 1 .. Len(s) + Len(t), (s \o t)[i] = x PROVE i \in A \cup C
    <3>1. CASE i <= Len(s)  BY <1>1, <1>2, <2>2, <3>1
    <3>2. CASE ~(i <= Len(s))
      <4>1. i - Len(s) \in 1 .. Len(t) /\ i = (i - Len(s)) + Len(s)  BY <1>1, <3>2
      <4>2. i - Len(s) \in B  BY <1>1, <1>2, <2>2, <3>2, <4>1
      <4> QED  BY <4>1, <4>2
    <3> QED  BY <3>1, <3>2
  <2>3. ASSUME NEW i \in A PROVE i \in 1 .. Len(s) + Len(t) /\ (s \o t)[i] = x
    <3>1. i \in 1 .. Len(s) /\ s[i] = x  BY <1>1
    <3> QED  BY <1>1, <1>2, <3>1
  <2>4. ASSUME NEW j \in B
        PROVE  j + Len(s) \in 1 .. Len(s) + Len(t) /\ (s \o t)[j + Len(s)] = x
    <3>1. j \in 1 .. Len(t) /\ t[j] = x  BY <1>1
    <3>2. j + Len(s) \in 1 .. Len(s) + Len(t) /\ ~(j + Len(s) <= Len(s))
          /\ (j + Len(s)) - Len(s) = j
      BY <1>1, <3>1
    <3> QED  BY <1>2, <3>1, <3>2
  <2> QED  BY <2>1, <2>2, <2>3, <2>4
<1>4. A \cap C = {}
  <2>1. \A j \in B : j + Len(s) \notin 1 .. Len(s)  BY <1>1
  <2> QED  BY <1>1, <2>1
<1>5. IsFiniteSet(A) /\ IsFiniteSet(B) /\ Cardinality(A) \in Nat /\ Cardinality(B) \in Nat
  BY OccurrencesType, FS_CardinalityType
<1>6. IsFiniteSet(C) /\ Cardinality(C) = Cardinality(B)
  <2>1. shift \in Bijection(B, C)
    <3>1. B \subseteq Nat  BY <1>1
    <3>2. shift \in [B -> C]  OBVIOUS
    <3>3. \A i, j \in B : shift[i] = shift[j] => i = j  BY <1>1, <3>1
    <3>4. \A c \in C : \E i \in B : shift[i] = c  OBVIOUS
    <3> HIDE DEF B, C, shift
    <3> QED  BY <3>2, <3>3, <3>4 DEF Bijection, Injection, IsInjective, Surjection
  <2> HIDE DEF B, C, shift
  <2> QED  BY <1>5, <2>1, FS_Bijection DEF ExistsBijection
<1>7. Occurrences(s, x) = Cardinality(A) /\ Occurrences(t, x) = Cardinality(B)
      /\ Occurrences(s \o t, x) = Cardinality(A \cup C)
  BY <1>3 DEF Occurrences
<1> HIDE DEF A, B, C
<1>8. Cardinality(A \cup C) = Cardinality(A) + Cardinality(C) - Cardinality({})
  BY <1>4, <1>5, <1>6, FS_Union
<1> QED  BY <1>5, <1>6, <1>7, <1>8, FS_EmptySet

LEMMA OccurrencesOfAppend ==
  ASSUME NEW S, NEW s \in Seq(S), NEW e \in S, NEW x
  PROVE  Occurrences(Append(s, e), x) = Occurrences(s, x) + (IF e = x THEN 1 ELSE 0)
<1>1. <<e>> \in Seq(S) /\ Append(s, e) = s \o <<e>>  BY AppendIsConcat
<1>2. Occurrences(s \o <<e>>, x) = Occurrences(s, x) + Occurrences(<<e>>, x)
  BY <1>1, OccurrencesOfConcat
<1> QED  BY <1>1, <1>2, OccurrencesOfOne

LEMMA OccurrencesOfTail ==
  ASSUME NEW S, NEW s \in Seq(S), s # << >>, NEW x
  PROVE  Occurrences(s, x) = Occurrences(Tail(s), x) + (IF Head(s) = x THEN 1 ELSE 0)
<1> DEFINE h == Head(s)
           t == Tail(s)
<1>1. s = <<h>> \o t /\ h \in S /\ t \in Seq(S)  BY HeadAndTail
<1> HIDE DEF h, t
<1>2. <<h>> \in Seq(S)  BY <1>1
<1>3. Occurrences(<<h>> \o t, x) = Occurrences(<<h>>, x) + Occurrences(t, x)
  BY <1>1, <1>2, OccurrencesOfConcat
<1>4. Occurrences(t, x) \in Nat  BY <1>1, OccurrencesType
<1>5. Occurrences(<<h>>, x) = IF h = x THEN 1 ELSE 0  BY OccurrencesOfOne
<1>6. Occurrences(s, x) = Occurrences(<<h>> \o t, x)  BY <1>1, Zenon
<1>7. Occurrences(s, x) = Occurrences(t, x) + (IF h = x THEN 1 ELSE 0)
  BY <1>3, <1>4, <1>5, <1>6
<1> QED  BY <1>7 DEF h, t
=============================================================================
