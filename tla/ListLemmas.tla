----------------------------- MODULE ListLemmas -----------------------------
(***************************************************************************)
(* Induction over lists, and what follows from it for Kept and Take.       *)
(*                                                                         *)
(* An induction theorem whose hypothesis is a predicate cannot be applied  *)
(* by the provers; one whose hypothesis is a set can.  What is to be shown *)
(* of every number or list is therefore put as a set that all of them are  *)
(* in, and the induction itself comes from the well-foundedness of <.      *)
(***************************************************************************)
EXTENDS Lists, SequencesExt, SequenceTheorems, WellFoundedInduction, TLAPS

-----------------------------------------------------------------------------
(* Induction                                                               *)

LEMMA LeastNumber ==
    ASSUME NEW T \in SUBSET Nat, T # {}
    PROVE  \E m \in T : \A k \in T : m <= k
<1> DEFINE R == {p \in Nat \X Nat : p[1] < p[2]}
<1>1. IsWellFoundedOn(R, Nat)
  BY NatLessThanWellFounded DEF OpToRel
<1> HIDE DEF R
<1>2. PICK m \in T : \A k \in T : <<k, m>> \notin R
  BY <1>1, WFMin, Zenon
<1>3. ASSUME NEW k \in T PROVE m <= k
  <2>1. k \in Nat /\ m \in Nat /\ <<k, m>> \notin R
    BY <1>2
  <2>2. ~(k < m)
    BY <2>1 DEF R
  <2>3. QED
    BY <2>1, <2>2
<1>4. QED
  BY <1>3

LEMMA NumbersAreIn ==
    ASSUME NEW T, 0 \in T, \A n \in Nat : n \in T => n + 1 \in T
    PROVE  Nat \subseteq T
<1> SUFFICES ASSUME Nat \ T # {} PROVE FALSE
  OBVIOUS
<1>1. PICK m \in Nat \ T : \A k \in Nat \ T : m <= k
  BY LeastNumber
<1>2. m - 1 \in Nat /\ m - 1 \in T
  BY <1>1
<1>3. QED
  BY <1>1, <1>2

LEMMA ListsAreIn ==
    ASSUME NEW S, NEW T, <<>> \in T,
           \A s \in Seq(S), e \in S : s \in T => Append(s, e) \in T
    PROVE  Seq(S) \subseteq T
<1> DEFINE Sizes == {n \in Nat : \A s \in Seq(S) : Len(s) = n => s \in T}
<1>1. 0 \in Sizes
  BY EmptySeq
<1>2. ASSUME NEW n \in Nat, n \in Sizes PROVE n + 1 \in Sizes
  <2> SUFFICES ASSUME NEW s \in Seq(S), Len(s) = n + 1 PROVE s \in T
    OBVIOUS
  <2>1. PICK r \in Seq(S), e \in S : s = Append(r, e)
    BY SequenceEmptyOrAppend, EmptySeq
  <2>2. Len(r) = n
    BY <2>1, AppendProperties, LenProperties
  <2>3. QED
    BY <1>2, <2>1, <2>2
<1> HIDE DEF Sizes
<1>3. Nat \subseteq Sizes
  BY <1>1, <1>2, NumbersAreIn
<1>4. QED
  BY <1>3, LenProperties DEF Sizes

-----------------------------------------------------------------------------
(* Kept                                                                    *)

\* The equation KeptSoFar is defined by.
SolvesKept(f, s, P) ==
    \A i \in 0 .. Len(s) :
        f[i] = IF i = 0 THEN <<>>
               ELSE IF s[i] \in P THEN Append(f[i - 1], s[i]) ELSE f[i - 1]

\* The equation has a solution.
LEMMA KeptSoFarDef ==
    ASSUME NEW S, NEW s \in Seq(S), NEW P
    PROVE  SolvesKept(KeptSoFar(s, P), s, P)
<1> DEFINE Eq(g, n) == g = [i \in 0 .. n |->
                               IF i = 0 THEN <<>>
                               ELSE IF s[i] \in P THEN Append(g[i - 1], s[i])
                               ELSE g[i - 1]]
           T == {n \in Nat : \E g : Eq(g, n)}
<1>1. 0 \in T
  <2>1. Eq([i \in 0 .. 0 |-> <<>>], 0)
    OBVIOUS
  <2>2. QED
    BY <2>1
<1>2. ASSUME NEW n \in Nat, n \in T PROVE n + 1 \in T
  <2>1. PICK g : Eq(g, n)
    BY <1>2
  <2> DEFINE more == IF s[n + 1] \in P THEN Append(g[n], s[n + 1]) ELSE g[n]
             h == [i \in 0 .. n + 1 |-> IF i = n + 1 THEN more ELSE g[i]]
  <2>2. ASSUME NEW i \in 0 .. n + 1
        PROVE  h[i] = IF i = 0 THEN <<>>
                      ELSE IF s[i] \in P THEN Append(h[i - 1], s[i]) ELSE h[i - 1]
    <3>1. CASE i = n + 1
      BY <3>1
    <3>2. CASE i # n + 1
      <4>1. i \in 0 .. n
        BY <3>2
      <4>2. g[i] = IF i = 0 THEN <<>>
                   ELSE IF s[i] \in P THEN Append(g[i - 1], s[i]) ELSE g[i - 1]
        BY <2>1, <4>1
      <4>3. h[i] = g[i] /\ (i # 0 => h[i - 1] = g[i - 1])
        BY <3>2, <4>1
      <4>4. QED
        BY <4>2, <4>3
    <3>3. QED
      BY <3>1, <3>2
  <2>3. Eq(h, n + 1)
    BY <2>2
  <2> HIDE DEF Eq, h
  <2>4. QED
    BY <2>3
<1> HIDE DEF T
<1>3. Len(s) \in T
  BY <1>1, <1>2, NumbersAreIn, LenProperties
<1>4. PICK g : Eq(g, Len(s))
  BY <1>3 DEF T
<1>5. PICK f : f = KeptSoFar(s, P) /\ Eq(f, Len(s))
  BY <1>4 DEF KeptSoFar
<1>6. SolvesKept(f, s, P)
  BY <1>5 DEF SolvesKept
<1>7. QED
  BY <1>5, <1>6

LEMMA KeptOfNone ==
    ASSUME NEW S, NEW s \in Seq(S), NEW P
    PROVE  Len(s) = 0 => Kept(s, P) = <<>>
<1>1. SolvesKept(KeptSoFar(s, P), s, P)
  BY KeptSoFarDef
<1>2. QED
  BY <1>1 DEF Kept, SolvesKept

LEMMA KeptEmpty ==
    ASSUME NEW P
    PROVE  Kept(<<>>, P) = <<>>
<1>1. <<>> \in Seq({}) /\ Len(<<>>) = 0
  BY EmptySeq
<1>2. QED
  BY <1>1, KeptOfNone, Zenon

\* A list t that is one element longer than s.
LEMMA KeptOfOneMore ==
    ASSUME NEW S, NEW s \in Seq(S), NEW t \in Seq(S), NEW P
    PROVE  Len(t) = Len(s) + 1 /\ (\A i \in 1 .. Len(s) : t[i] = s[i]) =>
              Kept(t, P) = IF t[Len(t)] \in P THEN Append(Kept(s, P), t[Len(t)])
                           ELSE Kept(s, P)
<1> DEFINE f == KeptSoFar(s, P)
           g == KeptSoFar(t, P)
           T == {i \in Nat : i <= Len(s) => g[i] = f[i]}
<1>1. Len(s) \in Nat
  BY LenProperties
<1>2. SolvesKept(f, s, P)
  BY KeptSoFarDef
<1>3. SolvesKept(g, t, P)
  BY KeptSoFarDef
<1> SUFFICES ASSUME Len(t) = Len(s) + 1, \A i \in 1 .. Len(s) : t[i] = s[i]
             PROVE  Kept(t, P) = IF t[Len(t)] \in P THEN Append(Kept(s, P), t[Len(t)])
                                 ELSE Kept(s, P)
  OBVIOUS
<1> HIDE DEF f, g
<1>4. 0 \in T
  BY <1>1, <1>2, <1>3 DEF SolvesKept
<1>5. ASSUME NEW i \in Nat, i \in T PROVE i + 1 \in T
  <2> SUFFICES ASSUME i + 1 <= Len(s) PROVE g[i + 1] = f[i + 1]
    OBVIOUS
  <2>1. g[i] = f[i] /\ t[i + 1] = s[i + 1] /\ i + 1 \in 0 .. Len(s) /\ i + 1 \in 0 .. Len(t)
    BY <1>1, <1>5
  <2>2. g[i + 1] = IF t[i + 1] \in P THEN Append(g[i], t[i + 1]) ELSE g[i]
    BY <1>3, <2>1 DEF SolvesKept
  <2>3. f[i + 1] = IF s[i + 1] \in P THEN Append(f[i], s[i + 1]) ELSE f[i]
    BY <1>2, <2>1 DEF SolvesKept
  <2>4. QED
    BY <2>1, <2>2, <2>3
<1> HIDE DEF T
<1>6. Len(s) \in T
  BY <1>1, <1>4, <1>5, NumbersAreIn
<1>7. g[Len(s)] = f[Len(s)]
  BY <1>6, <1>1 DEF T
<1>8. g[Len(t)] = IF t[Len(t)] \in P THEN Append(f[Len(s)], t[Len(t)]) ELSE f[Len(s)]
  BY <1>1, <1>3, <1>7 DEF SolvesKept
<1>9. QED
  BY <1>8 DEF Kept, f, g

\* One more element.
LEMMA KeptAppend ==
    ASSUME NEW S, NEW s \in Seq(S), NEW e \in S, NEW P
    PROVE  Kept(Append(s, e), P) = IF e \in P THEN Append(Kept(s, P), e) ELSE Kept(s, P)
<1> DEFINE t == Append(s, e)
<1>1. /\ t \in Seq(S) /\ Len(t) = Len(s) + 1 /\ Len(s) \in Nat
      /\ \A i \in 1 .. Len(s) : t[i] = s[i]
      /\ t[Len(s) + 1] = e
  BY AppendProperties, LenProperties
<1> HIDE DEF t
<1>2. t[Len(t)] = e
  BY <1>1
<1>3. Kept(t, P) = IF t[Len(t)] \in P THEN Append(Kept(s, P), t[Len(t)]) ELSE Kept(s, P)
  BY <1>1, KeptOfOneMore
<1>4. QED
  BY <1>2, <1>3 DEF t

LEMMA KeptTyped ==
    ASSUME NEW S, NEW P
    PROVE  \A s \in Seq(S) : Kept(s, P) \in Seq(S \cap P) /\ Len(Kept(s, P)) <= Len(s)
<1> DEFINE T == {s \in Seq(S) : Kept(s, P) \in Seq(S \cap P) /\ Len(Kept(s, P)) <= Len(s)}
<1>1. <<>> \in T
  <2>1. <<>> \in Seq(S) /\ Kept(<<>>, P) \in Seq(S \cap P)
    BY KeptEmpty, EmptySeq
  <2>2. Len(Kept(<<>>, P)) <= Len(<<>>)
    BY KeptEmpty
  <2>3. QED
    BY <2>1, <2>2, Zenon
<1>2. ASSUME NEW s \in Seq(S), NEW e \in S, s \in T PROVE Append(s, e) \in T
  <2>1. Kept(s, P) \in Seq(S \cap P) /\ Len(Kept(s, P)) <= Len(s)
    BY <1>2
  <2>2. Append(s, e) \in Seq(S) /\ Len(Append(s, e)) = Len(s) + 1 /\ Len(s) \in Nat
    BY AppendProperties, LenProperties
  <2>3. CASE e \in P
    <3>1. Kept(Append(s, e), P) = Append(Kept(s, P), e)
      BY <2>3, KeptAppend
    <3>2. /\ Append(Kept(s, P), e) \in Seq(S \cap P)
          /\ Len(Append(Kept(s, P), e)) = Len(Kept(s, P)) + 1
      BY <2>1, <2>3, AppendProperties
    <3>3. QED
      BY <2>1, <2>2, <3>1, <3>2, LenProperties
  <2>4. CASE e \notin P
    <3>1. Kept(Append(s, e), P) = Kept(s, P)
      BY <2>4, KeptAppend
    <3>2. QED
      BY <2>1, <2>2, <3>1, LenProperties
  <2>5. QED
    BY <2>3, <2>4
<1> HIDE DEF T
<1>3. Seq(S) \subseteq T
  BY <1>1, <1>2, ListsAreIn
<1>4. QED
  BY <1>3 DEF T

LEMMA KeptTypedToo ==
    ASSUME NEW S, NEW P, NEW s \in Seq(S)
    PROVE  Kept(s, P) \in Seq(S)
<1>1. Kept(s, P) \in Seq(S \cap P)
  BY KeptTyped
<1>2. S \cap P \subseteq S
  OBVIOUS
<1>3. QED
  BY <1>1, <1>2, SeqMonotonic

LEMMA AppendToConcat ==
    ASSUME NEW S, NEW s \in Seq(S), NEW t \in Seq(S), NEW e \in S
    PROVE  Append(s \o t, e) = s \o Append(t, e)
<1>1. Append(s \o t, e) = (s \o t) \o <<e>> /\ Append(t, e) = t \o <<e>>
  BY AppendIsConcat, ConcatProperties
<1>2. <<e>> \in Seq(S)
  OBVIOUS
<1>3. QED
  BY <1>1, <1>2, ConcatAssociative

\* A list is filtered piece by piece.
LEMMA KeptConcat ==
    ASSUME NEW S, NEW P, NEW s \in Seq(S)
    PROVE  \A t \in Seq(S) : Kept(s \o t, P) = Kept(s, P) \o Kept(t, P)
<1> DEFINE T == {t \in Seq(S) : Kept(s \o t, P) = Kept(s, P) \o Kept(t, P)}
<1>0. Kept(s, P) \in Seq(S)
  BY KeptTypedToo
<1>1. <<>> \in T
  BY <1>0, KeptEmpty, EmptySeq, ConcatEmptySeq
<1>2. ASSUME NEW t \in Seq(S), NEW e \in S, t \in T PROVE Append(t, e) \in T
  <2>1. Kept(s \o t, P) = Kept(s, P) \o Kept(t, P)
    BY <1>2
  <2>2. /\ Append(t, e) \in Seq(S) /\ s \o t \in Seq(S)
        /\ s \o Append(t, e) = Append(s \o t, e)
    BY AppendProperties, ConcatProperties, AppendToConcat
  <2>3. Kept(t, P) \in Seq(S)
    BY KeptTypedToo
  <2>4. Kept(Append(s \o t, e), P) =
          IF e \in P THEN Append(Kept(s \o t, P), e) ELSE Kept(s \o t, P)
    BY <2>2, KeptAppend
  <2>5. Kept(Append(t, e), P) = IF e \in P THEN Append(Kept(t, P), e) ELSE Kept(t, P)
    BY KeptAppend
  <2> DEFINE u == Kept(s, P)
             v == Kept(t, P)
  <2> HIDE DEF u, v
  <2>6. Append(u \o v, e) = u \o Append(v, e)
    <3>1. u \in Seq(S) /\ v \in Seq(S)
      BY <1>0, <2>3 DEF u, v
    <3>2. Append(u \o v, e) = (u \o v) \o <<e>> /\ Append(v, e) = v \o <<e>>
      BY <3>1, AppendIsConcat, ConcatProperties
    <3>3. <<e>> \in Seq(S)
      OBVIOUS
    <3>4. (u \o v) \o <<e>> = u \o (v \o <<e>>)
      BY <3>1, <3>3, ConcatAssociative
    <3>5. QED
      BY <3>2, <3>4, Zenon
  <2>7. Kept(s \o Append(t, e), P) = Kept(s, P) \o Kept(Append(t, e), P)
    BY <2>1, <2>2, <2>4, <2>5, <2>6 DEF u, v
  <2>8. QED
    BY <2>2, <2>7
<1> HIDE DEF T
<1>3. Seq(S) \subseteq T
  BY <1>1, <1>2, ListsAreIn
<1>4. QED
  BY <1>3 DEF T

\* What is kept of a list is what is kept of its head and of its tail.
LEMMA KeptOfTail ==
    ASSUME NEW S, NEW s \in Seq(S), NEW P, s # <<>>
    PROVE  /\ Kept(s, P) \in Seq(S) /\ Kept(Tail(s), P) \in Seq(S)
           /\ Len(Kept(s, P)) = (IF Head(s) \in P THEN 1 ELSE 0) + Len(Kept(Tail(s), P))
<1>1. PICK e \in S, r \in Seq(S) : e = Head(s) /\ r = Tail(s)
  BY HeadTailProperties
<1>2. PICK one \in Seq(S) : one = <<e>> /\ one = Append(<<>>, e)
  <2>1. <<e>> \in Seq(S) /\ <<e>> = Append(<<>>, e)
    OBVIOUS
  <2>2. QED
    BY <2>1, Zenon
<1>3. s = one \o r
  BY <1>1, <1>2
<1>4. Kept(s, P) = Kept(one, P) \o Kept(r, P)
  BY <1>2, <1>3, KeptConcat
<1>5. Kept(one, P) = IF e \in P THEN one ELSE <<>>
  <2>1. PICK none \in Seq(S) : none = <<>>
    BY EmptySeq
  <2>2. Kept(Append(none, e), P) = IF e \in P THEN Append(Kept(none, P), e) ELSE Kept(none, P)
    BY KeptAppend
  <2>3. Kept(none, P) = <<>>
    BY <2>1, KeptEmpty
  <2>4. QED
    BY <1>2, <2>1, <2>2, <2>3
<1>6. Len(one) = 1 /\ Len(<<>>) = 0
  BY <1>2
<1>7. Kept(one, P) \in Seq(S) /\ Kept(r, P) \in Seq(S) /\ Kept(s, P) \in Seq(S)
  BY KeptTypedToo
<1>8. Len(Kept(s, P)) = Len(Kept(one, P)) + Len(Kept(r, P))
  BY <1>4, <1>7, ConcatProperties
<1>9. QED
  BY <1>1, <1>5, <1>6, <1>7, <1>8

\* The same for the list behind the first element, which is not named.
LEMMA KeptOfFirst ==
    ASSUME NEW S, NEW s \in Seq(S), NEW P, Len(s) > 0
    PROVE  \E t \in Seq(S) :
              /\ Len(t) = Len(s) - 1 /\ \A i \in 1 .. Len(t) : t[i] = s[i + 1]
              /\ Len(Kept(s, P)) = (IF s[1] \in P THEN 1 ELSE 0) + Len(Kept(t, P))
<1>1. s # <<>>
  OBVIOUS
<1>2. /\ Tail(s) \in Seq(S) /\ Head(s) = s[1] /\ Len(Tail(s)) = Len(s) - 1
      /\ \A i \in 1 .. Len(Tail(s)) : Tail(s)[i] = s[i + 1]
  BY <1>1, HeadTailProperties
<1>3. Len(Kept(s, P)) = (IF s[1] \in P THEN 1 ELSE 0) + Len(Kept(Tail(s), P))
  BY <1>1, <1>2, KeptOfTail
<1>4. QED
  BY <1>2, <1>3, Zenon

LEMMA AppendHas ==
    ASSUME NEW S, NEW s \in Seq(S), NEW e \in S
    PROVE  ToSet(Append(s, e)) = ToSet(s) \cup {e}
<1>1. /\ Len(s) \in Nat /\ DOMAIN s = 1 .. Len(s)
      /\ DOMAIN Append(s, e) = 1 .. Len(s) + 1
      /\ \A i \in 1 .. Len(s) : Append(s, e)[i] = s[i]
      /\ Append(s, e)[Len(s) + 1] = e
  BY AppendProperties, LenProperties
<1> DEFINE t == Append(s, e)
<1> HIDE DEF t
<1>2. ToSet(t) = ToSet(s) \cup {e}
  BY <1>1 DEF ToSet, t
<1>3. QED
  BY <1>2 DEF t

\* What is in a list and in P is kept, and nothing else is.
LEMMA KeptHas ==
    ASSUME NEW S, NEW P
    PROVE  \A s \in Seq(S) : ToSet(Kept(s, P)) = ToSet(s) \cap P
<1> DEFINE T == {s \in Seq(S) : ToSet(Kept(s, P)) = ToSet(s) \cap P}
<1>1. <<>> \in T
  <2>1. PICK none \in Seq(S) : none = <<>>
    BY EmptySeq
  <2>2. Len(none) = 0 /\ DOMAIN none = 1 .. Len(none)
    BY <2>1, EmptySeq, LenProperties
  <2>3. ToSet(none) = {}
    BY <2>2 DEF ToSet
  <2>4. Kept(none, P) = none
    BY <2>1, KeptEmpty
  <2>5. none \in T
    BY <2>3, <2>4
  <2>6. QED
    BY <2>1, <2>5, Zenon
<1>2. ASSUME NEW s \in Seq(S), NEW e \in S, s \in T PROVE Append(s, e) \in T
  <2>1. Append(s, e) \in Seq(S) /\ Kept(s, P) \in Seq(S)
    BY AppendProperties, KeptTypedToo
  <2>2. ToSet(Append(s, e)) = ToSet(s) \cup {e}
    BY AppendHas
  <2>3. ToSet(Append(Kept(s, P), e)) = ToSet(Kept(s, P)) \cup {e}
    BY <2>1, AppendHas
  <2>4. Kept(Append(s, e), P) = IF e \in P THEN Append(Kept(s, P), e) ELSE Kept(s, P)
    BY KeptAppend
  <2>5. ToSet(Kept(s, P)) = ToSet(s) \cap P
    BY <1>2
  <2>6. ToSet(Kept(Append(s, e), P)) = (ToSet(s) \cup {e}) \cap P
    BY <2>3, <2>4, <2>5
  <2>7. QED
    BY <2>1, <2>2, <2>6
<1> HIDE DEF T
<1>3. Seq(S) \subseteq T
  BY <1>1, <1>2, ListsAreIn
<1>4. QED
  BY <1>3 DEF T

-----------------------------------------------------------------------------
(* Take                                                                    *)

LEMMA TakeTyped ==
    ASSUME NEW S, NEW s \in Seq(S), NEW n \in Nat
    PROVE  /\ Take(s, n) \in Seq(S)
           /\ Len(Take(s, n)) = IF n < Len(s) THEN n ELSE Len(s)
           /\ \A i \in 1 .. Len(Take(s, n)) : Take(s, n)[i] = s[i]
<1> DEFINE k == IF n < Len(s) THEN n ELSE Len(s)
<1>1. k \in Nat /\ k <= Len(s) /\ Len(s) \in Nat
  BY LenProperties
<1> HIDE DEF k
<1>2. \A i \in 1 .. k : s[i] \in S
  BY <1>1, ElementOfSeq
<1>3. /\ SubSeq(s, 1, k) \in Seq(S)
      /\ Len(SubSeq(s, 1, k)) = IF 1 <= k THEN k - 1 + 1 ELSE 0
      /\ \A i \in 1 .. k - 1 + 1 : SubSeq(s, 1, k)[i] = s[1 + i - 1]
  BY <1>1, <1>2, SubSeqProperties
<1>4. Len(SubSeq(s, 1, k)) = k /\ \A i \in 1 .. k : SubSeq(s, 1, k)[i] = s[i]
  BY <1>1, <1>3
<1>5. Take(s, n) = SubSeq(s, 1, k)
  BY DEF Take, k
<1>6. QED
  BY <1>3, <1>4, <1>5 DEF k

\* Whatever is taken, the rest follows it.
LEMMA TakeAndRest ==
    ASSUME NEW S, NEW s \in Seq(S), NEW n \in Nat
    PROVE  \E rest \in Seq(S) : s = Take(s, n) \o rest
<1> DEFINE k == IF n < Len(s) THEN n ELSE Len(s)
<1>1. k \in Nat /\ k <= Len(s) /\ Len(s) \in Nat
  BY LenProperties
<1>2. Take(s, n) = SubSeq(s, 1, k)
  BY DEF Take
<1> HIDE DEF k
<1>3. CASE Len(s) = 0
  <2>1. s = <<>> /\ Take(s, n) = <<>>
    BY <1>1, <1>2, <1>3, EmptySeq, SubSeqEmpty
  <2>2. QED
    BY <2>1, EmptySeq, ConcatEmptySeq
<1>4. CASE Len(s) # 0
  <2>1. SubSeq(s, 1, k) \o SubSeq(s, k + 1, Len(s)) = SubSeq(s, 1, Len(s))
    <3>1. 1 \in 1 .. Len(s) + 1 /\ k \in 1 - 1 .. Len(s) /\ Len(s) \in k .. Len(s)
      BY <1>1, <1>4
    <3>2. QED
      BY <3>1, ConcatAdjacentSubSeq
  <2>2. SubSeq(s, 1, Len(s)) = s
    BY SubSeqFull
  <2>3. \A i \in k + 1 .. Len(s) : s[i] \in S
    BY <1>1, ElementOfSeq
  <2>4. SubSeq(s, k + 1, Len(s)) \in Seq(S)
    BY <1>1, <2>3, SubSeqProperties
  <2>5. QED
    BY <1>2, <2>1, <2>2, <2>4
<1>5. QED
  BY <1>3, <1>4

LEMMA TakeOfTake ==
    ASSUME NEW S, NEW s \in Seq(S), NEW n \in Nat, NEW m \in Nat, m <= n
    PROVE  Take(Take(s, n), m) = Take(s, m)
<1>1. /\ Take(s, n) \in Seq(S)
      /\ Len(Take(s, n)) = IF n < Len(s) THEN n ELSE Len(s)
      /\ \A i \in 1 .. Len(Take(s, n)) : Take(s, n)[i] = s[i]
  BY TakeTyped
<1> DEFINE t == Take(s, n)
<1> HIDE DEF t
<1>2. /\ Take(t, m) \in Seq(S)
      /\ Len(Take(t, m)) = IF m < Len(t) THEN m ELSE Len(t)
      /\ \A i \in 1 .. Len(Take(t, m)) : Take(t, m)[i] = t[i]
  BY <1>1, TakeTyped DEF t
<1>3. /\ Take(s, m) \in Seq(S)
      /\ Len(Take(s, m)) = IF m < Len(s) THEN m ELSE Len(s)
      /\ \A i \in 1 .. Len(Take(s, m)) : Take(s, m)[i] = s[i]
  BY TakeTyped
<1> DEFINE u == Take(t, m)
           v == Take(s, m)
<1> HIDE DEF u, v
<1>4. u \in Seq(S) /\ v \in Seq(S) /\ Len(u) = Len(v)
  BY <1>1, <1>2, <1>3, LenProperties DEF t, u, v
<1>5. \A i \in 1 .. Len(u) : u[i] = v[i]
  <2> SUFFICES ASSUME NEW i \in 1 .. Len(u) PROVE u[i] = v[i]
    OBVIOUS
  <2>1. u[i] = t[i] /\ v[i] = s[i]
    BY <1>2, <1>3, <1>4 DEF u, v
  <2>2. i \in 1 .. Len(t)
    BY <1>1, <1>2, LenProperties DEF t, u
  <2>3. t[i] = s[i]
    BY <1>1, <2>2 DEF t
  <2>4. QED
    BY <2>1, <2>3
<1>6. u = v
  BY <1>4, <1>5, SeqEqual
<1>7. QED
  BY <1>6 DEF t, u, v

\* A list that is not longer than n is taken whole.
LEMMA TakeAll ==
    ASSUME NEW S, NEW s \in Seq(S), NEW n \in Nat, Len(s) <= n
    PROVE  Take(s, n) = s
<1>1. Take(s, n) = SubSeq(s, 1, Len(s))
  BY LenProperties DEF Take
<1>2. QED
  BY <1>1, SubSeqFull

LEMMA TakeNothing ==
    ASSUME NEW S, NEW s \in Seq(S)
    PROVE  Take(s, 0) = <<>>
<1>1. Take(s, 0) = SubSeq(s, 1, 0)
  BY LenProperties DEF Take
<1>2. QED
  BY <1>1, SubSeqEmpty

\* The next elements, up to the n-th.
LEMMA TakeTheNext ==
    ASSUME NEW S, NEW s \in Seq(S), NEW m \in Nat, NEW n \in Nat, m < n,
           NEW last \in Nat, last <= n, last <= Len(s), last = n \/ last = Len(s)
    PROVE  /\ SubSeq(s, m + 1, last) \in Seq(S)
           /\ Take(s, m) \o SubSeq(s, m + 1, last) = Take(s, n)
           /\ SubSeq(s, m + 1, last) = <<>> => Len(s) <= m
<1>1. last \in Nat /\ last <= Len(s) /\ Len(s) \in Nat
  BY LenProperties
<1>2. Take(s, n) = SubSeq(s, 1, last)
  BY <1>1 DEF Take
<1>3. CASE Len(s) <= m
  <2>1. last = Len(s)
    BY <1>1, <1>3
  <2>2. Take(s, m) = s /\ Take(s, n) = s
    BY <1>1, <1>3, TakeAll
  <2>3. SubSeq(s, m + 1, last) = <<>>
    BY <1>1, <1>3, <2>1, SubSeqEmpty
  <2>4. QED
    BY <1>3, <2>2, <2>3, EmptySeq, ConcatEmptySeq
<1>4. CASE m < Len(s)
  <2>1. m < last
    BY <1>1, <1>4
  <2>2. Take(s, m) = SubSeq(s, 1, m)
    BY <1>1, <1>4 DEF Take
  <2>3. SubSeq(s, 1, m) \o SubSeq(s, m + 1, last) = SubSeq(s, 1, last)
    <3>1. 1 \in 1 .. Len(s) + 1 /\ m \in 1 - 1 .. Len(s) /\ last \in m .. Len(s)
      BY <1>1, <2>1, <1>4
    <3>2. QED
      BY <3>1, ConcatAdjacentSubSeq
  <2>4. \A i \in m + 1 .. last : s[i] \in S
    BY <1>1, ElementOfSeq
  <2>5. /\ SubSeq(s, m + 1, last) \in Seq(S)
        /\ Len(SubSeq(s, m + 1, last)) = IF m + 1 <= last THEN last - (m + 1) + 1 ELSE 0
    BY <1>1, <2>4, SubSeqProperties
  <2>6. Len(SubSeq(s, m + 1, last)) # Len(<<>>)
    BY <1>1, <2>1, <2>5, EmptySeq
  <2>7. SubSeq(s, m + 1, last) # <<>>
    BY <2>6
  <2>8. QED
    BY <1>2, <2>2, <2>3, <2>5, <2>7
<1>5. Len(s) <= m \/ m < Len(s)
  BY <1>1
<1>6. QED
  BY <1>3, <1>4, <1>5, Zenon

-----------------------------------------------------------------------------
(* Prefixes                                                                *)

LEMMA ConcatPrefix ==
    ASSUME NEW S, NEW s \in Seq(S), NEW t \in Seq(S)
    PROVE  IsPrefix(s, s \o t) /\ Len(s) <= Len(s \o t)
<1>1. Len(s \o t) = Len(s) + Len(t) /\ Len(s) \in Nat /\ Len(t) \in Nat
  BY ConcatProperties, LenProperties
<1>2. SubSeq(s \o t, 1, Len(s)) = SubSeq(s, 1, Len(s))
  <2>1. CASE Len(s) = 0
    BY <2>1, SubSeqEmpty
  <2>2. CASE Len(s) # 0
    BY <1>1, <2>2, SubSeqOfConcat1
  <2>3. QED
    BY <2>1, <2>2
<1>3. QED
  BY <1>1, <1>2 DEF IsPrefix

LEMMA TakePrefix ==
    ASSUME NEW S, NEW s \in Seq(S), NEW n \in Nat
    PROVE  IsPrefix(Take(s, n), s)
<1>1. PICK rest \in Seq(S) : s = Take(s, n) \o rest
  BY TakeAndRest
<1>2. Take(s, n) \in Seq(S)
  BY TakeTyped
<1>3. QED
  BY <1>1, <1>2, ConcatPrefix

\* What is kept of the head of a list is the head of what is kept of the list.
LEMMA KeptOfTake ==
    ASSUME NEW S, NEW s \in Seq(S), NEW P, NEW n \in Nat
    PROVE  /\ IsPrefix(Kept(Take(s, n), P), Kept(s, P))
           /\ Len(Kept(Take(s, n), P)) <= Len(Kept(s, P))
<1>1. PICK rest \in Seq(S) : s = Take(s, n) \o rest
  BY TakeAndRest
<1>2. Take(s, n) \in Seq(S)
  BY TakeTyped
<1>3. Kept(s, P) = Kept(Take(s, n), P) \o Kept(rest, P)
  BY <1>1, <1>2, KeptConcat
<1>4. Kept(Take(s, n), P) \in Seq(S) /\ Kept(rest, P) \in Seq(S)
  BY <1>2, KeptTypedToo
<1>5. QED
  BY <1>3, <1>4, ConcatPrefix

LEMMA KeptOfMore ==
    ASSUME NEW S, NEW s \in Seq(S), NEW P, NEW m \in Nat, NEW n \in Nat, m <= n
    PROVE  Len(Kept(Take(s, m), P)) <= Len(Kept(Take(s, n), P))
<1>1. Take(s, n) \in Seq(S)
  BY TakeTyped
<1>2. Take(Take(s, n), m) = Take(s, m)
  BY TakeOfTake
<1>3. Len(Kept(Take(Take(s, n), m), P)) <= Len(Kept(Take(s, n), P))
  BY <1>1, KeptOfTake
<1>4. QED
  BY <1>2, <1>3

LEMMA PrefixTransitive ==
    ASSUME NEW S, NEW s \in Seq(S), NEW t \in Seq(S), NEW u \in Seq(S),
           IsPrefix(s, t), IsPrefix(t, u)
    PROVE  IsPrefix(s, u)
<1> DEFINE n == Len(s)
<1>1. n \in Nat /\ n <= Len(t) /\ Len(t) <= Len(u) /\ Len(t) \in Nat /\ Len(u) \in Nat
  BY LenProperties DEF IsPrefix
<1>2. SubSeq(s, 1, n) = SubSeq(t, 1, n)
  BY DEF IsPrefix
<1>3. t = Take(u, Len(t))
  <2>1. SubSeq(t, 1, Len(t)) = SubSeq(u, 1, Len(t))
    BY DEF IsPrefix
  <2>2. QED
    BY <1>1, <2>1, SubSeqFull, LenProperties DEF Take
<1>4. SubSeq(t, 1, n) = SubSeq(u, 1, n)
  <2>1. Take(Take(u, Len(t)), n) = Take(u, n)
    BY <1>1, TakeOfTake
  <2>2. Take(t, n) = SubSeq(t, 1, n)
    BY <1>1 DEF Take
  <2>3. Take(u, n) = SubSeq(u, 1, n)
    BY <1>1 DEF Take
  <2>4. QED
    BY <1>3, <2>1, <2>2, <2>3
<1>5. QED
  BY <1>1, <1>2, <1>4 DEF IsPrefix
=============================================================================
