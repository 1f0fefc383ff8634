-------------------------- MODULE CardRecordProofs --------------------------
(***************************************************************************)
(* Theorems about CardRecord, for any works.  The work never changes, so   *)
(* the invariant only says of what each record was made (RecordInv).  The  *)
(* rest is about the functions it is made by: what dedup_titles leaves of  *)
(* a list says all that the list says, no later than the list does         *)
(* (Remains), and the posters have an order in which one is the last.      *)
(***************************************************************************)
EXTENDS CardRecord, ListLemmas, FiniteSetTheorems, TLAPS

Names == DOMAIN Written
Aka == [name : Names, market : DOMAIN MarketLang3]

LEMMA MinIs ==
    ASSUME NEW T \in SUBSET Nat, T # {}
    PROVE  Min(T) \in T /\ \A k \in T : Min(T) <= k
BY LeastNumber DEF Min

-----------------------------------------------------------------------------
(* dedup_titles                                                            *)

\* The equation DedupSoFar is defined by.
Known(g, n) == \E k \in DOMAIN g : Folded[g[k]] = Folded[n]
SolvesDedup(f, all) ==
    \A i \in 0 .. Len(all) :
        f[i] = IF i = 0 THEN <<>>
               ELSE IF Known(f[i - 1], all[i]) THEN f[i - 1]
               ELSE Append(f[i - 1], all[i])

\* The equation has a solution.
LEMMA DedupSoFarDef ==
    ASSUME NEW S, NEW s \in Seq(S)
    PROVE  SolvesDedup(DedupSoFar(s), s)
<1> DEFINE Eq(g, n) == g = [i \in 0 .. n |->
                               IF i = 0 THEN <<>>
                               ELSE IF Known(g[i - 1], s[i]) THEN g[i - 1]
                               ELSE Append(g[i - 1], s[i])]
           T == {n \in Nat : \E g : Eq(g, n)}
<1>1. 0 \in T
  <2>1. Eq([i \in 0 .. 0 |-> <<>>], 0)
    OBVIOUS
  <2>2. QED
    BY <2>1
<1>2. ASSUME NEW n \in Nat, n \in T PROVE n + 1 \in T
  <2>1. PICK g : Eq(g, n)
    BY <1>2
  <2> DEFINE more == IF Known(g[n], s[n + 1]) THEN g[n] ELSE Append(g[n], s[n + 1])
             h == [i \in 0 .. n + 1 |-> IF i = n + 1 THEN more ELSE g[i]]
  <2>2. ASSUME NEW i \in 0 .. n + 1
        PROVE  h[i] = IF i = 0 THEN <<>>
                      ELSE IF Known(h[i - 1], s[i]) THEN h[i - 1]
                      ELSE Append(h[i - 1], s[i])
    <3>1. CASE i = n + 1
      BY <3>1
    <3>2. CASE i # n + 1
      <4>1. i \in 0 .. n
        BY <3>2
      <4>2. g[i] = IF i = 0 THEN <<>>
                   ELSE IF Known(g[i - 1], s[i]) THEN g[i - 1]
                   ELSE Append(g[i - 1], s[i])
        BY <2>1, <4>1
      <4>3. h[i] = g[i] /\ (i # 0 => h[i - 1] = g[i - 1])
        BY <3>2, <4>1
      <4>4. QED
        BY <4>2, <4>3
    <3>3. QED
      BY <3>1, <3>2
  <2>3. Eq(h, n + 1)
    BY <2>2
  <2> HIDE DEF Eq, h
  <2>4. QED
    BY <2>3
<1> HIDE DEF T
<1>3. Len(s) \in T
  BY <1>1, <1>2, NumbersAreIn, LenProperties
<1>4. PICK g : Eq(g, Len(s))
  BY <1>3 DEF T
<1> DEFINE solution == CHOOSE f : Eq(f, Len(s))
<1>5. DedupSoFar(s) = solution
  BY Zenon DEF DedupSoFar, Known
<1>6. Eq(solution, Len(s))
  <2> HIDE DEF Eq
  <2>1. QED
    BY <1>4
<1>7. PICK f : f = DedupSoFar(s) /\ Eq(f, Len(s))
  BY <1>5, <1>6, Zenon
<1>8. SolvesDedup(f, s)
  BY <1>7 DEF SolvesDedup
<1>9. QED
  BY <1>7, <1>8

\* g is taken from the first n of all, in order, and says whatever they say, no
\* later than they say it.
Remains(g, at, all, n) ==
    /\ g \in Seq(Names) /\ at \in [1 .. Len(g) -> 1 .. n]
    /\ \A k \in 1 .. Len(g) : g[k] = all[at[k]]
    /\ \A k, l \in 1 .. Len(g) : k < l => at[k] < at[l]
    /\ \A i \in 1 .. n : \E k \in 1 .. Len(g) :
          at[k] <= i /\ Folded[g[k]] = Folded[all[i]]

LEMMA RemainsStep ==
    ASSUME NEW all \in Seq(Names), NEW n \in Nat, n < Len(all), NEW g, NEW at,
           Remains(g, at, all, n)
    PROVE  \E new : Remains(IF Known(g, all[n + 1]) THEN g ELSE Append(g, all[n + 1]),
                            new, all, n + 1)
<1>1. /\ g \in Seq(Names) /\ at \in [1 .. Len(g) -> 1 .. n]
      /\ \A k \in 1 .. Len(g) : g[k] = all[at[k]]
      /\ \A k, l \in 1 .. Len(g) : k < l => at[k] < at[l]
      /\ \A i \in 1 .. n : \E k \in 1 .. Len(g) :
            at[k] <= i /\ Folded[g[k]] = Folded[all[i]]
  BY DEF Remains
<1>2. Len(g) \in Nat /\ DOMAIN g = 1 .. Len(g)
  BY <1>1, LenProperties
<1>3. n + 1 \in 1 .. Len(all) /\ all[n + 1] \in Names
  BY LenProperties
<1>4. \A k \in 1 .. Len(g) : at[k] \in 1 .. n
  BY <1>1
<1>5. CASE Known(g, all[n + 1])
  <2>1. PICK k \in 1 .. Len(g) : Folded[g[k]] = Folded[all[n + 1]]
    BY <1>2, <1>5 DEF Known
  <2>2. at[k] <= n + 1
    BY <1>4
  <2>3. at \in [1 .. Len(g) -> 1 .. n + 1]
    BY <1>1
  <2>4. \A i \in 1 .. n + 1 : i \in 1 .. n \/ i = n + 1
    OBVIOUS
  <2>5. \A i \in 1 .. n + 1 : \E l \in 1 .. Len(g) :
            at[l] <= i /\ Folded[g[l]] = Folded[all[i]]
    BY <1>1, <2>1, <2>2, <2>4
  <2>6. Remains(g, at, all, n + 1)
    BY <1>1, <2>3, <2>5 DEF Remains
  <2>7. QED
    BY <1>5, <2>6
<1>6. CASE ~Known(g, all[n + 1])
  <2> DEFINE h == Append(g, all[n + 1])
             m == Len(g) + 1
             new == [k \in 1 .. m |-> IF k = m THEN n + 1 ELSE at[k]]
  <2>1. /\ h \in Seq(Names) /\ Len(h) = m /\ m \in Nat
        /\ \A k \in 1 .. Len(g) : h[k] = g[k]
        /\ h[m] = all[n + 1]
    BY <1>1, <1>2, <1>3, AppendProperties
  <2>2. \A k \in 1 .. m : k = m \/ (k \in 1 .. Len(g) /\ k # m)
    BY <1>2
  <2>3. new[m] = n + 1 /\ \A k \in 1 .. Len(g) : new[k] = at[k]
    BY <1>2
  <2>4. new \in [1 .. m -> 1 .. n + 1]
    BY <1>4, <2>2
  <2> HIDE DEF h, new
  <2>5. \A k \in 1 .. m : h[k] = all[new[k]]
    BY <1>1, <2>1, <2>2, <2>3
  <2>6. \A k, l \in 1 .. m : k < l => new[k] < new[l]
    <3> SUFFICES ASSUME NEW k \in 1 .. m, NEW l \in 1 .. m, k < l PROVE new[k] < new[l]
      OBVIOUS
    <3>1. k \in 1 .. Len(g) /\ new[k] = at[k] /\ at[k] \in 1 .. n
      BY <1>2, <1>4, <2>3
    <3>2. CASE l = m
      BY <2>3, <3>1, <3>2
    <3>3. CASE l # m
      <4>1. l \in 1 .. Len(g) /\ new[l] = at[l]
        BY <2>2, <2>3, <3>3
      <4>2. QED
        BY <1>1, <3>1, <4>1
    <3>4. QED
      BY <3>2, <3>3
  <2>7. \A i \in 1 .. n + 1 : \E k \in 1 .. m :
            new[k] <= i /\ Folded[h[k]] = Folded[all[i]]
    <3> SUFFICES ASSUME NEW i \in 1 .. n + 1
                 PROVE  \E k \in 1 .. m : new[k] <= i /\ Folded[h[k]] = Folded[all[i]]
      OBVIOUS
    <3>1. CASE i = n + 1
      <4>1. m \in 1 .. m /\ new[m] <= i /\ Folded[h[m]] = Folded[all[i]]
        BY <1>2, <2>1, <2>3, <3>1
      <4>2. QED
        BY <4>1
    <3>2. CASE i # n + 1
      <4>1. i \in 1 .. n
        BY <3>2
      <4>2. PICK k \in 1 .. Len(g) : at[k] <= i /\ Folded[g[k]] = Folded[all[i]]
        BY <1>1, <4>1
      <4>3. k \in 1 .. m /\ new[k] = at[k] /\ h[k] = g[k]
        BY <1>2, <2>1, <2>3
      <4>4. QED
        BY <4>2, <4>3
    <3>3. QED
      BY <3>1, <3>2
  <2>8. Remains(h, new, all, n + 1)
    BY <2>1, <2>4, <2>5, <2>6, <2>7 DEF Remains
  <2>9. QED
    BY <1>6, <2>8 DEF h
<1>7. QED
  BY <1>5, <1>6

LEMMA RemainsOfAll ==
    ASSUME NEW all \in Seq(Names)
    PROVE  \E at : Remains(DedupTitles(all), at, all, Len(all))
<1> DEFINE f == DedupSoFar(all)
           T == {n \in Nat : n <= Len(all) => \E at : Remains(f[n], at, all, n)}
<1>1. SolvesDedup(f, all) /\ Len(all) \in Nat
  BY DedupSoFarDef, LenProperties
<1> HIDE DEF f
<1>2. 0 \in T
  <2>1. f[0] = <<>>
    BY <1>1 DEF SolvesDedup
  <2>2. PICK none \in Seq(Names) : none = f[0]
    BY <2>1, EmptySeq
  <2>3. Len(none) = 0
    BY <2>1, <2>2, EmptySeq
  <2>4. Remains(none, [k \in {} |-> 0], all, 0)
    BY <2>3 DEF Remains
  <2>5. QED
    BY <2>2, <2>4
<1>3. ASSUME NEW n \in Nat, n \in T PROVE n + 1 \in T
  <2> SUFFICES ASSUME n + 1 <= Len(all) PROVE \E at : Remains(f[n + 1], at, all, n + 1)
    OBVIOUS
  <2>1. PICK at : Remains(f[n], at, all, n)
    BY <1>1, <1>3
  <2>2. f[n + 1] = IF Known(f[n], all[n + 1]) THEN f[n] ELSE Append(f[n], all[n + 1])
    BY <1>1 DEF SolvesDedup
  <2>3. n < Len(all)
    BY <1>1
  <2>4. QED
    BY <2>1, <2>2, <2>3, RemainsStep
<1> HIDE DEF T
<1>4. Len(all) \in T
  BY <1>1, <1>2, <1>3, NumbersAreIn
<1>5. \E at : Remains(f[Len(all)], at, all, Len(all))
  BY <1>1, <1>4 DEF T
<1>6. QED
  BY <1>5 DEF DedupTitles, f

\* The titles that are added at the end change nothing before them.
LEMMA DedupExtends ==
    ASSUME NEW all \in Seq(Names), NEW more \in Seq(Names)
    PROVE  LET g == DedupTitles(all)
               h == DedupTitles(all \o more)
           IN  /\ g \in Seq(Names) /\ h \in Seq(Names) /\ Len(g) <= Len(h)
               /\ \A k \in 1 .. Len(g) : h[k] = g[k]
<1> DEFINE both == all \o more
           f == DedupSoFar(all)
           e == DedupSoFar(both)
           m == Len(all)
           S == {i \in Nat : i <= m => e[i] = f[i]}
           g == DedupTitles(all)
           h == DedupTitles(both)
           T == {n \in Nat : m + n <= Len(both) =>
                    /\ e[m + n] \in Seq(Names) /\ Len(g) <= Len(e[m + n])
                    /\ \A k \in 1 .. Len(g) : e[m + n][k] = g[k]}
<1>1. /\ both \in Seq(Names) /\ Len(both) = m + Len(more) /\ m \in Nat /\ Len(more) \in Nat
      /\ \A i \in 1 .. m : both[i] = all[i]
  BY ConcatProperties, LenProperties
<1> HIDE DEF both
<1>2. SolvesDedup(f, all) /\ SolvesDedup(e, both)
  BY <1>1, DedupSoFarDef
<1>3. g = f[m] /\ h = e[Len(both)]
  BY DEF DedupTitles
<1>4. g \in Seq(Names) /\ h \in Seq(Names)
  BY <1>1, RemainsOfAll DEF Remains
<1> HIDE DEF f, e, g, h
<1>5. 0 \in S
  BY <1>1, <1>2 DEF SolvesDedup
<1>6. ASSUME NEW i \in Nat, i \in S PROVE i + 1 \in S
  <2> SUFFICES ASSUME i + 1 <= m PROVE e[i + 1] = f[i + 1]
    OBVIOUS
  <2>1. /\ e[i] = f[i] /\ both[i + 1] = all[i + 1]
        /\ i + 1 \in 0 .. m /\ i + 1 \in 0 .. Len(both)
    BY <1>1, <1>6
  <2>2. e[i + 1] = IF Known(e[i], both[i + 1]) THEN e[i] ELSE Append(e[i], both[i + 1])
    BY <1>2, <2>1 DEF SolvesDedup
  <2>3. f[i + 1] = IF Known(f[i], all[i + 1]) THEN f[i] ELSE Append(f[i], all[i + 1])
    BY <1>2, <2>1 DEF SolvesDedup
  <2>4. QED
    BY <2>1, <2>2, <2>3
<1> HIDE DEF S
<1>7. m \in S
  BY <1>1, <1>5, <1>6, NumbersAreIn
<1>8. e[m] = g
  BY <1>1, <1>3, <1>7 DEF S
<1>9. 0 \in T
  BY <1>1, <1>4, <1>8, LenProperties
<1>10. ASSUME NEW n \in Nat, n \in T PROVE n + 1 \in T
  <2> SUFFICES ASSUME m + (n + 1) <= Len(both)
               PROVE  /\ e[m + (n + 1)] \in Seq(Names) /\ Len(g) <= Len(e[m + (n + 1)])
                      /\ \A k \in 1 .. Len(g) : e[m + (n + 1)][k] = g[k]
    OBVIOUS
  <2> DEFINE i == m + n
             x == e[i]
             y == both[i + 1]
  <2>1. i \in Nat /\ i + 1 = m + (n + 1) /\ i + 1 \in 1 .. Len(both) /\ i <= Len(both)
    BY <1>1
  <2>2. x \in Seq(Names) /\ Len(g) <= Len(x) /\ \A k \in 1 .. Len(g) : x[k] = g[k]
    BY <1>10, <2>1
  <2>3. y \in Names
    BY <1>1, <2>1, ElementOfSeq
  <2>4. e[i + 1] = IF Known(x, y) THEN x ELSE Append(x, y)
    BY <1>2, <2>1 DEF SolvesDedup
  <2> HIDE DEF i, x, y
  <2>5. /\ Append(x, y) \in Seq(Names) /\ Len(Append(x, y)) = Len(x) + 1
        /\ Len(x) \in Nat /\ Len(g) \in Nat
        /\ \A k \in 1 .. Len(x) : Append(x, y)[k] = x[k]
    BY <1>4, <2>2, <2>3, AppendProperties, LenProperties
  <2>6. /\ e[i + 1] \in Seq(Names) /\ Len(g) <= Len(e[i + 1])
        /\ \A k \in 1 .. Len(g) : e[i + 1][k] = g[k]
    <3>1. CASE Known(x, y)
      BY <2>2, <2>4, <3>1
    <3>2. CASE ~Known(x, y)
      <4>1. \A k \in 1 .. Len(g) : k \in 1 .. Len(x)
        BY <2>2, <2>5
      <4>2. QED
        BY <2>2, <2>4, <2>5, <3>2, <4>1
    <3>3. QED
      BY <3>1, <3>2
  <2>7. QED
    BY <2>1, <2>6
<1> HIDE DEF T
<1>11. Len(more) \in T
  BY <1>1, <1>9, <1>10, NumbersAreIn
<1>12. Len(g) <= Len(h) /\ \A k \in 1 .. Len(g) : h[k] = g[k]
  BY <1>1, <1>3, <1>11 DEF T
<1>13. QED
  BY <1>4, <1>12 DEF g, h, both

-----------------------------------------------------------------------------
(* The names of a work                                                     *)

Base(title, original) == <<title>> \o (IF original = None THEN <<>> ELSE <<original>>)
AkaNames(akas) == [i \in 1 .. Len(akas) |-> akas[i].name]

LEMMA GuardIs ==
    ASSUME NEW title, NEW original, NEW akas
    PROVE  GuardTitles(title, original, akas) =
              DedupTitles(Base(title, original) \o AkaNames(akas))
BY DEF GuardTitles, Base, AkaNames

LEMMA BaseIs ==
    ASSUME NEW title \in Names, NEW original \in Names \cup {None}
    PROVE  /\ Base(title, original) \in Seq(Names)
           /\ \A i \in 1 .. Len(Base(title, original)) :
                 Base(title, original)[i] \in {title, original} \ {None}
<1>1. title # None /\ (original # None => original \in Names)
  BY NamesAssumption DEF Names
<1>2. <<title>> \in Seq(Names) /\ Len(<<title>>) = 1 /\ <<title>>[1] = title
  OBVIOUS
<1>3. CASE original = None
  <2>1. <<title>> \o <<>> = <<title>>
    BY <1>2, ConcatEmptySeq
  <2>2. QED
    BY <1>1, <1>2, <1>3, <2>1 DEF Base
<1>4. CASE original # None
  <2>1. PICK one \in Seq(Names) : one = <<title>> /\ Len(one) = 1 /\ one[1] = title
    BY <1>2
  <2>2. PICK two \in Seq(Names) : two = <<original>> /\ Len(two) = 1 /\ two[1] = original
    <3>1. original \in Names
      BY <1>1, <1>4
    <3>2. <<original>> \in Seq(Names) /\ Len(<<original>>) = 1 /\ <<original>>[1] = original
      BY <3>1
    <3>3. QED
      BY <3>2, Zenon
  <2>3. Base(title, original) = one \o two
    BY <1>4, <2>1, <2>2 DEF Base
  <2>4. /\ one \o two \in Seq(Names) /\ Len(one \o two) = 2
        /\ \A i \in 1 .. 2 : (one \o two)[i] = IF i <= 1 THEN one[i] ELSE two[i - 1]
    BY <2>1, <2>2, ConcatProperties
  <2> DEFINE both == one \o two
  <2> HIDE DEF both
  <2>5. \A i \in 1 .. 2 : both[i] \in {title, original} \ {None}
    <3>1. both[1] = title /\ both[2] = original
      BY <2>1, <2>2, <2>4 DEF both
    <3>2. QED
      BY <1>1, <1>4, <3>1
  <2>6. QED
    BY <2>3, <2>4, <2>5 DEF both
<1>5. QED
  BY <1>3, <1>4

LEMMA AkaNamesAre ==
    ASSUME NEW akas \in Seq(Aka)
    PROVE  /\ AkaNames(akas) \in Seq(Names) /\ Len(AkaNames(akas)) = Len(akas)
           /\ \A i \in 1 .. Len(akas) : akas[i] \in Aka /\ AkaNames(akas)[i] = akas[i].name
<1>1. Len(akas) \in Nat /\ \A i \in 1 .. Len(akas) : akas[i] \in Aka
  BY LenProperties, ElementOfSeq
<1>2. AkaNames(akas) \in [1 .. Len(akas) -> Names]
  BY <1>1 DEF AkaNames, Aka
<1>3. AkaNames(akas) \in Seq(Names) /\ Len(AkaNames(akas)) = Len(akas)
  BY <1>1, <1>2, SeqDef
<1>4. QED
  BY <1>1, <1>3 DEF AkaNames

\* The AKAs of the English markets, and then the others.
LEMMA EntriesAre ==
    ASSUME NEW akas \in Seq(Aka)
    PROVE  \E first, rest \in Seq(Aka) :
              /\ Entries(akas) = first \o rest
              /\ ToSet(first) = {a \in ToSet(akas) : a.market \in English}
              /\ ToSet(rest) \subseteq ToSet(akas)
<1> DEFINE english == {a \in ToSet(akas) : a.market \in English}
           first == Kept(akas, english)
           rest == Kept(akas, ToSet(akas) \ english)
<1>1. first \in Seq(Aka) /\ rest \in Seq(Aka)
  BY KeptTypedToo
<1>2. /\ ToSet(first) = ToSet(akas) \cap english
      /\ ToSet(rest) = ToSet(akas) \cap (ToSet(akas) \ english)
  BY KeptHas
<1>3. Entries(akas) = first \o rest
  BY DEF Entries
<1> HIDE DEF first, rest
<1>4. QED
  BY <1>1, <1>2, <1>3

\* What a guard's titles are, and where they come from.
LEMMA GuardHas ==
    ASSUME NEW title \in Names, NEW original \in Names \cup {None}, NEW akas \in Seq(Aka)
    PROVE  LET guard == GuardTitles(title, original, akas)
           IN  /\ guard \in Seq(Names)
               /\ \A k \in DOMAIN guard :
                     \/ guard[k] \in {title, original} \ {None}
                     \/ \E a \in ToSet(akas) : guard[k] = a.name
<1> DEFINE base == Base(title, original)
           names == AkaNames(akas)
           all == base \o names
           guard == DedupTitles(all)
<1>1. base \in Seq(Names) /\ \A i \in 1 .. Len(base) : base[i] \in {title, original} \ {None}
  BY BaseIs
<1>2. /\ names \in Seq(Names) /\ Len(names) = Len(akas)
      /\ \A i \in 1 .. Len(akas) : names[i] = akas[i].name
  BY AkaNamesAre
<1>3. Len(akas) \in Nat /\ DOMAIN akas = 1 .. Len(akas)
  BY LenProperties
<1> HIDE DEF base, names
<1>4. /\ all \in Seq(Names) /\ Len(all) = Len(base) + Len(names)
      /\ Len(base) \in Nat /\ Len(names) \in Nat
      /\ \A i \in 1 .. Len(base) : all[i] = base[i]
      /\ \A i \in Len(base) + 1 .. Len(base) + Len(names) : all[i] = names[i - Len(base)]
  <2>1. /\ base \o names \in Seq(Names) /\ Len(base \o names) = Len(base) + Len(names)
        /\ Len(base) \in Nat /\ Len(names) \in Nat
        /\ \A i \in 1 .. Len(base) + Len(names) :
              (base \o names)[i] = IF i <= Len(base) THEN base[i] ELSE names[i - Len(base)]
    <3>1. base \in Seq(Names)
      BY <1>1
    <3>2. names \in Seq(Names)
      BY <1>2
    <3>3. QED
      BY <3>1, <3>2, ConcatProperties, LenProperties
  <2> HIDE DEF all
  <2>2. /\ all \in Seq(Names) /\ Len(all) = Len(base) + Len(names)
        /\ \A i \in 1 .. Len(base) + Len(names) :
              all[i] = IF i <= Len(base) THEN base[i] ELSE names[i - Len(base)]
    BY <2>1 DEF all
  <2>3. QED
    BY <2>1, <2>2
<1> HIDE DEF all
<1>5. PICK at : Remains(guard, at, all, Len(all))
  BY <1>4, RemainsOfAll
<1> HIDE DEF guard
<1>6. guard \in Seq(Names) /\ DOMAIN guard = 1 .. Len(guard)
  BY <1>5, LenProperties DEF Remains
<1>7. ASSUME NEW k \in DOMAIN guard
      PROVE  \/ guard[k] \in {title, original} \ {None}
             \/ \E a \in ToSet(akas) : guard[k] = a.name
  <2>1. guard[k] = all[at[k]] /\ at[k] \in 1 .. Len(all)
    BY <1>5, <1>6 DEF Remains
  <2>2. CASE at[k] <= Len(base)
    BY <1>1, <1>4, <2>1, <2>2
  <2>3. CASE ~(at[k] <= Len(base))
    <3> DEFINE j == at[k] - Len(base)
    <3>0. at[k] \in Len(base) + 1 .. Len(base) + Len(names)
      BY <1>4, <2>1, <2>3
    <3>1. j \in 1 .. Len(akas) /\ guard[k] = names[j]
      BY <1>2, <1>4, <2>1, <3>0
    <3>2. akas[j] \in ToSet(akas) /\ guard[k] = akas[j].name
      BY <1>2, <1>3, <3>1 DEF ToSet
    <3>3. QED
      BY <3>2
  <2>4. QED
    BY <2>2, <2>3
<1>8. QED
  BY <1>6, <1>7, GuardIs DEF guard, all, base, names

-----------------------------------------------------------------------------
(* search_aka                                                              *)

\* The first that qualifies.
LEMMA ChosenIs ==
    ASSUME NEW title, NEW guard \in Seq(Names), Chosen(title, guard) # None
    PROVE  /\ title \in Hostile /\ Words[title] # <<>>
           /\ \E k \in DOMAIN guard :
                 /\ Chosen(title, guard) = guard[k] /\ Qualifies(title, guard[k])
                 /\ \A l \in DOMAIN guard : Qualifies(title, guard[l]) => k <= l
<1> DEFINE fit == {k \in DOMAIN guard : Qualifies(title, guard[k])}
<1>1. /\ title \in Hostile /\ Words[title] # <<>> /\ fit # {}
      /\ Chosen(title, guard) = guard[Min(fit)]
  BY DEF Chosen
<1>2. fit \in SUBSET Nat
  BY LenProperties
<1>3. Min(fit) \in fit /\ \A k \in fit : Min(fit) <= k
  BY <1>1, <1>2, MinIs
<1>4. QED
  BY <1>1, <1>3

\* A longer list has the same first.
LEMMA ChosenStays ==
    ASSUME NEW title, NEW g \in Seq(Names), NEW h \in Seq(Names), Len(g) <= Len(h),
           \A k \in 1 .. Len(g) : h[k] = g[k], Chosen(title, g) # None
    PROVE  Chosen(title, h) = Chosen(title, g)
<1> DEFINE fit == {k \in DOMAIN h : Qualifies(title, h[k])}
<1>1. /\ DOMAIN g = 1 .. Len(g) /\ DOMAIN h = 1 .. Len(h) /\ Len(g) \in Nat /\ Len(h) \in Nat
  BY LenProperties
<1>2. title \in Hostile /\ Words[title] # <<>>
  BY ChosenIs
<1>3. PICK k \in DOMAIN g :
         /\ Chosen(title, g) = g[k] /\ Qualifies(title, g[k])
         /\ \A l \in DOMAIN g : Qualifies(title, g[l]) => k <= l
  BY ChosenIs
<1>4. k \in fit /\ h[k] = g[k]
  BY <1>1, <1>3
<1>5. \A l \in fit : k <= l
  <2> SUFFICES ASSUME NEW l \in fit, ~(k <= l) PROVE FALSE
    OBVIOUS
  <2>1. l \in 1 .. Len(g)
    BY <1>1, <1>3
  <2>2. QED
    BY <1>1, <1>3, <2>1
<1>6. fit \in SUBSET Nat
  BY <1>1
<1>7. Min(fit) = k
  <2>1. Min(fit) \in fit /\ \A l \in fit : Min(fit) <= l
    BY <1>4, <1>6, MinIs
  <2> HIDE DEF fit
  <2>2. QED
    BY <1>4, <1>5, <1>6, <2>1
<1>8. Chosen(title, h) = h[Min(fit)]
  BY <1>2, <1>4 DEF Chosen
<1>9. QED
  BY <1>3, <1>4, <1>7, <1>8

\* Every title of a guard is one of the names, the placeholder for no title aside.
LEMMA GuardIsNamed ==
    ASSUME NEW title \in Names, NEW original \in Names \cup {None}, NEW akas \in Seq(Aka),
           NEW language, NEW k \in DOMAIN GuardTitles(title, original, akas),
           GuardTitles(title, original, akas)[k] # title
    PROVE  \E name \in TitleNames(title, original, language, akas) :
              name[2] = Written[GuardTitles(title, original, akas)[k]]
<1> DEFINE n == GuardTitles(title, original, akas)[k]
           lang == IF language \in DOMAIN Lang3 THEN Lang3[language] ELSE "und"
           names == TitleNames(title, original, language, akas)
<1>1. n \in {title, original} \ {None} \/ \E a \in ToSet(akas) : n = a.name
  BY GuardHas
<1> HIDE DEF n
<1>2. names = {<<lang, Written[o]>> : o \in {original} \ {None}}
                 \cup (IF Written[title] = Untitled
                             \/ (original # None /\ Written[original] = Written[title]) THEN {}
                       ELSE {<<"eng", Written[title]>>})
                 \cup {<<MarketLang3[a.market], Written[a.name]>> : a \in ToSet(akas)}
  BY DEF TitleNames
<1> HIDE DEF names, lang
<1>3. original # None => <<lang, Written[original]>> \in names
  BY <1>2
<1>4. CASE n = original /\ original # None
  BY <1>3, <1>4 DEF n, names
<1>5. n # title
  BY DEF n
<1>6. ASSUME NEW a \in ToSet(akas), n = a.name
      PROVE  \E name \in names : name[2] = Written[n]
  <2>1. <<MarketLang3[a.market], Written[a.name]>> \in names
    BY <1>2
  <2>2. QED
    BY <1>6, <2>1
<1>7. QED
  BY <1>1, <1>4, <1>5, <1>6 DEF n, names

-----------------------------------------------------------------------------
(* The records                                                             *)

\* What there is to know of a record that was made.
LEMMA RecordIs ==
    ASSUME NEW w, NEW card, Record(w, card) # None
    PROVE  LET r == Record(w, card)
           IN  /\ r.title = card.title /\ r.titles = TitleMembers(card.names)
               /\ r.searchTitle = SearchTitle(card.title, card.guard)
               /\ r.ids = card.ids /\ r.genres = card.genres
               /\ r.seasonCount = card.seasons
               /\ r.posters = PosterKeys(w.poster, card.images)
               /\ w.poster # 0
<1>1. /\ ~(~w.overview \/ w.poster = 0)
      /\ Record(w, card) =
           [title |-> card.title, titles |-> TitleMembers(card.names),
            searchTitle |-> SearchTitle(card.title, card.guard),
            ids |-> card.ids, genres |-> card.genres, seasonCount |-> card.seasons,
            posters |-> PosterKeys(w.poster, card.images)]
  BY DEF Record
<1>2. QED
  BY <1>1

\* A record is made of its work, which does not change.
RecordInv ==
    /\ work \in Works
    /\ listed # None => \E table : listed = Record(work, ListCard(work, table))
    /\ resolved # None => \E ext \in {work.external, {}} :
                              resolved = Record(work, DetailsCard(work, ext))

LEMMA RecordInvAlways == Spec => []RecordInv
<1>1. Init => RecordInv
  BY DEF Init, RecordInv
<1>2. RecordInv /\ [Next]_vars => RecordInv'
  <2> SUFFICES ASSUME RecordInv, [Next]_vars PROVE RecordInv'
    OBVIOUS
  <2>1. CASE Browse
    BY <2>1 DEF Browse, RecordInv
  <2>2. CASE Resolve
    BY <2>2 DEF Resolve, RecordInv
  <2>3. CASE UNCHANGED vars
    BY <2>3 DEF vars, RecordInv
  <2>4. QED
    BY <2>1, <2>2, <2>3 DEF Next
<1>3. QED
  BY <1>1, <1>2, PTL DEF Spec

\* What a work is.
LEMMA WorkIs ==
    ASSUME RecordInv
    PROVE  /\ work.kind \in {"tv", "movie"}
           /\ work.title \in Names /\ work.original \in Names \cup {None}
           /\ work.akas \in Seq(Aka) /\ <<>> \in Seq(Aka)
           /\ work.external \subseteq {"tvdbid", "imdbid"}
           /\ work.seasons \in Nat /\ work.images \in Seq(Images)
BY WorksAssumption, EmptySeq DEF RecordInv, Names, Aka

\* The record of a row.
LEMMA ListedIs ==
    ASSUME RecordInv, listed # None
    PROVE  /\ listed.title = work.title
           /\ listed.titles =
                 TitleMembers(TitleNames(work.title, work.original, work.language, <<>>))
           /\ listed.searchTitle =
                 SearchTitle(work.title, GuardTitles(work.title, work.original, <<>>))
           /\ listed.ids = {"tmdbid"} /\ listed.genres \subseteq work.genres
           /\ listed.seasonCount = 0 /\ listed.posters = {}
<1>1. PICK table : listed = Record(work, ListCard(work, table))
  BY DEF RecordInv
<1> DEFINE card == ListCard(work, table)
<1>2. /\ card.title = work.title
      /\ card.names = TitleNames(work.title, work.original, work.language, <<>>)
      /\ card.guard = GuardTitles(work.title, work.original, <<>>)
      /\ card.ids = {"tmdbid"} /\ card.genres \subseteq work.genres
      /\ card.seasons = 0 /\ card.images = <<>>
  BY DEF ListCard
<1> HIDE DEF card
<1>3. PosterKeys(work.poster, <<>>) = {}
  BY DEF PosterKeys
<1>4. QED
  BY <1>1, <1>2, <1>3, RecordIs DEF card

\* The record of a click.
LEMMA ResolvedIs ==
    ASSUME RecordInv, resolved # None
    PROVE  /\ resolved.title = work.title
           /\ resolved.titles =
                 TitleMembers(TitleNames(work.title, work.original, work.language,
                                         Entries(work.akas)))
           /\ resolved.searchTitle =
                 SearchTitle(work.title,
                             GuardTitles(work.title, work.original, Entries(work.akas)))
           /\ "tmdbid" \in resolved.ids
           /\ resolved.ids \subseteq {"tmdbid", "tvdbid", "imdbid"}
           /\ work.kind = "tv" => resolved.genres = work.genres
           /\ resolved.seasonCount = IF work.kind = "tv" THEN ClampSeasons(work.seasons) ELSE 0
           /\ resolved.posters = PosterKeys(work.poster, work.images)
<1>1. PICK ext \in {work.external, {}} : resolved = Record(work, DetailsCard(work, ext))
  BY DEF RecordInv
<1>2. ext \subseteq {"tvdbid", "imdbid"}
  BY WorkIs
<1> DEFINE card == DetailsCard(work, ext)
<1>3. /\ card.title = work.title
      /\ card.names = DetailsNames(work)
      /\ card.guard = GuardTitles(work.title, work.original, Entries(work.akas))
      /\ card.ids = {"tmdbid"} \cup (IF work.kind = "tv" THEN ext ELSE ext \ {"tvdbid"})
      /\ work.kind = "tv" => card.genres = work.genres
      /\ card.seasons = IF work.kind = "tv" THEN ClampSeasons(work.seasons) ELSE 0
      /\ card.images = work.images
  BY DEF DetailsCard
<1> HIDE DEF card
<1>4. "tmdbid" \in card.ids /\ card.ids \subseteq {"tmdbid", "tvdbid", "imdbid"}
  BY <1>2, <1>3
<1>5. /\ resolved.title = card.title /\ resolved.titles = TitleMembers(card.names)
      /\ resolved.searchTitle = SearchTitle(card.title, card.guard)
      /\ resolved.ids = card.ids /\ resolved.genres = card.genres
      /\ resolved.seasonCount = card.seasons
      /\ resolved.posters = PosterKeys(work.poster, card.images)
  BY <1>1, RecordIs DEF card
<1>6. QED
  BY <1>3, <1>4, <1>5 DEF DetailsNames

LEMMA EntriesTyped ==
    ASSUME RecordInv
    PROVE  Entries(work.akas) \in Seq(Aka)
<1>1. PICK akas \in Seq(Aka) : akas = work.akas
  BY WorkIs
<1>2. PICK first, rest \in Seq(Aka) : Entries(akas) = first \o rest
  BY EntriesAre
<1>3. first \o rest \in Seq(Aka)
  BY ConcatProperties
<1>4. QED
  BY <1>1, <1>2, <1>3

-----------------------------------------------------------------------------
(* The theorems                                                            *)

\* A record is of its work, and a show that was looked up has a season.
THEOREM RecordTypeCorrect == Spec => []TypeOK
<1>1. ASSUME RecordInv PROVE TypeOK
  <2>1. MAX_CARD_SEASONS \in Nat \ {0} /\ work.seasons \in Nat
    BY <1>1, WorkIs, LimitAssumption
  <2>2. ClampSeasons(work.seasons) \in 1 .. MAX_CARD_SEASONS
    BY <2>1 DEF ClampSeasons
  <2>3. ASSUME listed # None
        PROVE  /\ listed.title = work.title /\ listed.ids \subseteq {"tmdbid", "tvdbid", "imdbid"}
               /\ listed.seasonCount \in 0 .. MAX_CARD_SEASONS
    BY <1>1, <2>1, <2>3, ListedIs
  <2>4. ASSUME resolved # None
        PROVE  /\ resolved.title = work.title
               /\ resolved.ids \subseteq {"tmdbid", "tvdbid", "imdbid"}
               /\ resolved.seasonCount \in 0 .. MAX_CARD_SEASONS
               /\ work.kind = "tv" => resolved.seasonCount > 0
    <3>1. resolved.title = work.title /\ resolved.ids \subseteq {"tmdbid", "tvdbid", "imdbid"}
      BY <1>1, <2>4, ResolvedIs
    <3>2. resolved.seasonCount = IF work.kind = "tv" THEN ClampSeasons(work.seasons) ELSE 0
      BY <1>1, <2>4, ResolvedIs
    <3>3. QED
      BY <2>1, <2>2, <3>1, <3>2
  <2>5. QED
    BY <2>3, <2>4 DEF TypeOK
<1>2. QED
  BY <1>1, RecordInvAlways, PTL

\* The search title of a record is filed among its names, under the key that spells
\* it (card.rs: to_record).
THEOREM SearchTitleIsFiledHolds == Spec => []SearchTitleIsFiled
<1>1. ASSUME NEW title \in Names, NEW original \in Names \cup {None}, NEW akas \in Seq(Aka),
             NEW language,
             SearchTitle(title, GuardTitles(title, original, akas)) # None
      PROVE  \E name \in TitleMembers(TitleNames(title, original, language, akas)) :
                name[2] = Unslashed[SearchTitle(title, GuardTitles(title, original, akas))]
  <2> DEFINE guard == GuardTitles(title, original, akas)
  <2>1. guard \in Seq(Names)
    BY GuardHas
  <2>2. Chosen(title, guard) # None /\ SearchTitle(title, guard) = Written[Chosen(title, guard)]
    BY <1>1 DEF SearchTitle
  <2>3. PICK k \in DOMAIN guard : Chosen(title, guard) = guard[k] /\ guard[k] # title
    <3>1. PICK k \in DOMAIN guard : Chosen(title, guard) = guard[k] /\ Qualifies(title, guard[k])
      BY <2>1, <2>2, ChosenIs
    <3>2. title \in Hostile
      BY <2>2 DEF Chosen
    <3>3. QED
      BY <3>1, <3>2 DEF Qualifies
  <2>4. PICK name \in TitleNames(title, original, language, akas) : name[2] = Written[guard[k]]
    BY <2>3, GuardIsNamed
  <2> HIDE DEF guard
  <2>5. SearchTitle(title, guard) = Written[guard[k]]
    BY <2>2, <2>3
  <2>6. <<name[1], Unslashed[name[2]]>> \in TitleMembers(TitleNames(title, original, language, akas))
    BY DEF TitleMembers
  <2>7. QED
    BY <2>4, <2>5, <2>6 DEF guard
<1>2. ASSUME RecordInv PROVE SearchTitleIsFiled
  <2>1. ASSUME listed # None, listed.searchTitle # None
        PROVE  \E name \in listed.titles : name[2] = Unslashed[listed.searchTitle]
    <3>1. PICK akas \in Seq(Aka) : akas = <<>>
      BY EmptySeq
    <3>2. work.title \in Names /\ work.original \in Names \cup {None}
      BY <1>2, WorkIs
    <3>3. /\ listed.titles =
                TitleMembers(TitleNames(work.title, work.original, work.language, akas))
          /\ listed.searchTitle = SearchTitle(work.title, GuardTitles(work.title, work.original, akas))
      BY <1>2, <2>1, <3>1, ListedIs
    <3>4. SearchTitle(work.title, GuardTitles(work.title, work.original, akas)) # None
      BY <2>1, <3>3
    <3>5. \E name \in TitleMembers(TitleNames(work.title, work.original, work.language, akas)) :
             name[2] = Unslashed[SearchTitle(work.title,
                                          GuardTitles(work.title, work.original, akas))]
      BY <1>1, <3>2, <3>4
    <3>6. QED
      BY <3>3, <3>5
  <2>2. ASSUME resolved # None, resolved.searchTitle # None
        PROVE  \E name \in resolved.titles : name[2] = Unslashed[resolved.searchTitle]
    <3>1. PICK akas \in Seq(Aka) : akas = Entries(work.akas)
      BY <1>2, WorkIs, EntriesTyped
    <3>2. work.title \in Names /\ work.original \in Names \cup {None}
      BY <1>2, WorkIs
    <3>3. /\ resolved.titles =
                TitleMembers(TitleNames(work.title, work.original, work.language, akas))
          /\ resolved.searchTitle = SearchTitle(work.title, GuardTitles(work.title, work.original, akas))
      BY <1>2, <2>2, <3>1, ResolvedIs
    <3>4. SearchTitle(work.title, GuardTitles(work.title, work.original, akas)) # None
      BY <2>2, <3>3
    <3>5. \E name \in TitleMembers(TitleNames(work.title, work.original, work.language, akas)) :
             name[2] = Unslashed[SearchTitle(work.title,
                                          GuardTitles(work.title, work.original, akas))]
      BY <1>1, <3>2, <3>4
    <3>6. QED
      BY <3>3, <3>5
  <2>3. QED
    BY <2>1, <2>2 DEF SearchTitleIsFiled
<1>3. QED
  BY <1>2, RecordInvAlways, PTL

\* A click adds to what the row says and contradicts none of it.
THEOREM ByIdExtendsListHolds == Spec => []ByIdExtendsList
<1>1. ASSUME RecordInv, listed # None, resolved # None
      PROVE  /\ resolved.title = listed.title
             /\ listed.titles \subseteq resolved.titles
             /\ listed.ids \subseteq resolved.ids
             /\ listed.posters \subseteq resolved.posters
             /\ listed.searchTitle \in {None, resolved.searchTitle}
             /\ listed.seasonCount \in {0, resolved.seasonCount}
             /\ work.kind = "tv" => listed.genres \subseteq resolved.genres
  <2>1. listed.titles \subseteq resolved.titles
    <3>1. ToSet(<<>>) = {}
      BY DEF ToSet
    <3>2. TitleNames(work.title, work.original, work.language, <<>>)
            \subseteq TitleNames(work.title, work.original, work.language, Entries(work.akas))
      BY <3>1 DEF TitleNames
    <3>3. QED
      BY <1>1, <3>2, ListedIs, ResolvedIs DEF TitleMembers
  <2>2. listed.searchTitle \in {None, resolved.searchTitle}
    <3> DEFINE base == Base(work.title, work.original)
               names == AkaNames(Entries(work.akas))
               g == DedupTitles(base)
               h == DedupTitles(base \o names)
    <3>1. base \in Seq(Names) /\ names \in Seq(Names)
      BY <1>1, WorkIs, BaseIs, EntriesTyped, AkaNamesAre
    <3>2. /\ g \in Seq(Names) /\ h \in Seq(Names) /\ Len(g) <= Len(h)
          /\ \A k \in 1 .. Len(g) : h[k] = g[k]
      BY <3>1, DedupExtends
    <3>3. GuardTitles(work.title, work.original, <<>>) = g
      <4>1. PICK none \in Seq(Aka) : none = <<>>
        BY EmptySeq
      <4>2. AkaNames(none) \in Seq(Names) /\ Len(AkaNames(none)) = 0
        BY <4>1, AkaNamesAre, EmptySeq
      <4>3. AkaNames(none) = <<>>
        BY <4>2, EmptySeq
      <4>4. base \o AkaNames(none) = base
        BY <3>1, <4>3, ConcatEmptySeq
      <4>5. QED
        BY <4>1, <4>4, GuardIs
    <3>4. GuardTitles(work.title, work.original, Entries(work.akas)) = h
      BY GuardIs
    <3> HIDE DEF base, names, g, h
    <3>5. Chosen(work.title, g) # None => Chosen(work.title, h) = Chosen(work.title, g)
      BY <3>2, ChosenStays
    <3>6. SearchTitle(work.title, g) \in {None, SearchTitle(work.title, h)}
      BY <3>5 DEF SearchTitle
    <3>7. QED
      BY <1>1, <3>3, <3>4, <3>6, ListedIs, ResolvedIs
  <2>3. QED
    BY <1>1, <2>1, <2>2, ListedIs, ResolvedIs
<1>2. RecordInv => ByIdExtendsList
  BY <1>1 DEF ByIdExtendsList
<1>3. QED
  BY <1>2, RecordInvAlways, PTL

\* Where an English AKA can be searched for, no AKA of another market is.
THEOREM EnglishAkaIsPreferredHolds == Spec => []EnglishAkaIsPreferred
<1>1. ASSUME RecordInv, resolved # None, resolved.searchTitle # None,
             NEW a \in ToSet(work.akas), a.market \in English, Qualifies(work.title, a.name)
      PROVE  \/ resolved.searchTitle \in {Written[o] : o \in {work.title, work.original} \ {None}}
             \/ \E b \in ToSet(work.akas) :
                   /\ b.market \in English /\ Qualifies(work.title, b.name)
                   /\ Written[b.name] = resolved.searchTitle
  <2> DEFINE base == Base(work.title, work.original)
             names == AkaNames(Entries(work.akas))
             all == base \o names
             guard == DedupTitles(all)
  <2>1. PICK first, rest \in Seq(Aka) :
           /\ Entries(work.akas) = first \o rest
           /\ ToSet(first) = {b \in ToSet(work.akas) : b.market \in English}
    <3>1. PICK akas \in Seq(Aka) : akas = work.akas
      BY <1>1, WorkIs
    <3>2. \E first, rest \in Seq(Aka) :
             /\ Entries(akas) = first \o rest
             /\ ToSet(first) = {b \in ToSet(akas) : b.market \in English}
      BY EntriesAre
    <3>3. QED
      BY <3>1, <3>2
  <2>2. /\ Entries(work.akas) \in Seq(Aka) /\ Len(first) \in Nat
        /\ Len(first) <= Len(Entries(work.akas))
        /\ \A j \in 1 .. Len(first) : Entries(work.akas)[j] = first[j]
    BY <2>1, ConcatProperties, LenProperties
  <2>3. /\ base \in Seq(Names)
        /\ \A i \in 1 .. Len(base) : base[i] \in {work.title, work.original} \ {None}
    BY <1>1, WorkIs, BaseIs
  <2>4. /\ names \in Seq(Names) /\ Len(names) = Len(Entries(work.akas))
        /\ \A j \in 1 .. Len(Entries(work.akas)) : names[j] = Entries(work.akas)[j].name
    BY <2>2, AkaNamesAre
  <2>5. names \in Seq(Names) /\ Len(names) \in Nat /\ Len(first) <= Len(names)
           /\ \A j \in 1 .. Len(first) : names[j] = first[j].name
    <3> HIDE DEF names
    <3>1. names \in Seq(Names) /\ Len(names) \in Nat /\ Len(first) <= Len(names)
      BY <2>2, <2>4, LenProperties
    <3>2. 1 .. Len(first) \subseteq 1 .. Len(Entries(work.akas))
      BY <2>2, <2>4, <3>1
    <3>3. \A j \in 1 .. Len(first) : names[j] = first[j].name
      BY <2>2, <2>4, <3>2
    <3>4. QED
      BY <3>1, <3>3
  <2> HIDE DEF base, names
  <2>6. /\ all \in Seq(Names) /\ Len(all) = Len(base) + Len(names) /\ Len(base) \in Nat
        /\ \A i \in 1 .. Len(base) + Len(names) :
              all[i] = IF i <= Len(base) THEN base[i] ELSE names[i - Len(base)]
    BY <2>3, <2>5, ConcatProperties, LenProperties
  <2> HIDE DEF all
  <2>7. PICK at : Remains(guard, at, all, Len(all))
    BY <2>6, RemainsOfAll
  <2>8. guard = GuardTitles(work.title, work.original, Entries(work.akas))
    BY GuardIs DEF all, base, names
  <2> HIDE DEF guard
  <2>9. guard \in Seq(Names) /\ DOMAIN guard = 1 .. Len(guard)
    BY <2>7, LenProperties DEF Remains
  <2>10. /\ \A k \in DOMAIN guard : guard[k] = all[at[k]] /\ at[k] \in 1 .. Len(all)
         /\ \A k, l \in DOMAIN guard : k < l => at[k] < at[l]
         /\ \A i \in 1 .. Len(all) : \E k \in DOMAIN guard :
               at[k] <= i /\ Folded[guard[k]] = Folded[all[i]]
    BY <2>7, <2>9 DEF Remains
  <2>11. /\ Chosen(work.title, guard) # None
         /\ resolved.searchTitle = Written[Chosen(work.title, guard)]
    BY <1>1, <2>8, ResolvedIs DEF SearchTitle
  <2>12. PICK c \in DOMAIN guard :
            /\ Chosen(work.title, guard) = guard[c] /\ Qualifies(work.title, guard[c])
            /\ \A l \in DOMAIN guard : Qualifies(work.title, guard[l]) => c <= l
    BY <2>9, <2>11, ChosenIs
  <2>13. PICK j \in 1 .. Len(first) : first[j] = a
    <3>1. a \in ToSet(first)
      BY <1>1, <2>1
    <3>2. QED
      BY <2>1, <3>1, LenProperties DEF ToSet
  <2>14. Len(base) + j \in 1 .. Len(all) /\ all[Len(base) + j] = a.name
    <3>1. Len(base) + j \in 1 .. Len(base) + Len(names) /\ ~(Len(base) + j <= Len(base))
             /\ (Len(base) + j) - Len(base) = j
      BY <2>2, <2>5, <2>6
    <3>2. QED
      BY <2>5, <2>6, <2>13, <3>1
  <2>15. PICK k \in DOMAIN guard : at[k] <= Len(base) + j /\ Folded[guard[k]] = Folded[a.name]
    BY <2>10, <2>14
  <2>16. Qualifies(work.title, guard[k])
    <3>1. guard[k] \in Names /\ a.name \in Names
      BY <2>6, <2>9, <2>14, LenProperties, ElementOfSeq
    <3>2. Words[guard[k]] = Words[a.name] /\ (guard[k] \in Hostile <=> a.name \in Hostile)
      BY <2>15, <3>1, FoldingAssumption DEF Names
    <3>3. QED
      BY <1>1, <3>2 DEF Qualifies
  <2>17. at[c] <= Len(base) + Len(first)
    <3>1. c <= k /\ c \in Nat /\ k \in Nat
      BY <2>9, <2>12, <2>16
    <3>2. at[c] \in Nat /\ at[k] \in Nat /\ at[c] <= at[k]
      <4>1. at[c] \in 1 .. Len(all) /\ at[k] \in 1 .. Len(all)
        BY <2>10
      <4>2. c = k \/ c < k
        BY <3>1
      <4>3. QED
        BY <2>10, <4>1, <4>2
    <3>3. QED
      BY <2>2, <2>6, <2>15, <3>2
  <2>18. CASE at[c] <= Len(base)
    <3>1. guard[c] \in {work.title, work.original} \ {None}
      BY <2>3, <2>6, <2>10, <2>18
    <3>2. QED
      BY <2>11, <2>12, <3>1
  <2>19. CASE ~(at[c] <= Len(base))
    <3>1. PICK i \in 1 .. Len(first) : at[c] = Len(base) + i
      <4>1. at[c] - Len(base) \in 1 .. Len(first) /\ at[c] = Len(base) + (at[c] - Len(base))
        BY <2>2, <2>6, <2>10, <2>17, <2>19
      <4>2. QED
        BY <4>1
    <3>2. guard[c] = first[i].name
      <4>1. ~(Len(base) + i <= Len(base)) /\ (Len(base) + i) - Len(base) = i
        BY <2>2, <2>6
      <4>2. QED
        BY <2>5, <2>6, <2>10, <3>1, <4>1
    <3>3. first[i] \in ToSet(first)
      BY <2>1, LenProperties DEF ToSet
    <3>4. QED
      BY <2>1, <2>11, <2>12, <3>2, <3>3
  <2>20. QED
    BY <2>18, <2>19
<1>2. RecordInv => EnglishAkaIsPreferred
  BY <1>1 DEF EnglishAkaIsPreferred
<1>3. QED
  BY <1>2, RecordInvAlways, PTL

-----------------------------------------------------------------------------
(* poster_member_keys: the ranking                                         *)

Others(primary, images) == {i \in DOMAIN images : images[i].path \notin {0, primary}}
KeyOf(images) == [i \in DOMAIN images |-> <<PrintedLang(images[i]), images[i].path>>]
KeysAt(images, places) == {KeyOf(images)[i] : i \in places}
Ahead(primary, images, i) == {j \in Others(primary, images) : RankedBefore(images, j, i)}

\* The rank goes by vote, then by path, then by place.
LEMMA RankedIs ==
    ASSUME NEW images \in Seq(Images), NEW i \in DOMAIN images, NEW j \in DOMAIN images
    PROVE  /\ images[i].vote \in Nat /\ images[i].path \in Nat
           /\ i \in Nat /\ j \in Nat
           /\ images[j].vote \in Nat /\ images[j].path \in Nat
           /\ RankedBefore(images, i, j) <=>
                 \/ images[i].vote > images[j].vote
                 \/ images[i].vote = images[j].vote /\ images[i].path < images[j].path
                 \/ /\ images[i].vote = images[j].vote /\ images[i].path = images[j].path
                    /\ i < j
<1>1. images[i] \in Images /\ images[j] \in Images /\ i \in Nat /\ j \in Nat
  BY LenProperties, ElementOfSeq
<1>2. /\ images[i].vote \in Nat /\ images[i].path \in Nat
      /\ images[j].vote \in Nat /\ images[j].path \in Nat
  BY <1>1, ImagesAssumption
<1>3. QED
  BY <1>1, <1>2 DEF RankedBefore, BetterVoted

LEMMA RankedIsOrder ==
    ASSUME NEW images \in Seq(Images),
           NEW i \in DOMAIN images, NEW j \in DOMAIN images, NEW k \in DOMAIN images
    PROVE  /\ i # j => RankedBefore(images, i, j) \/ RankedBefore(images, j, i)
           /\ RankedBefore(images, i, j) /\ RankedBefore(images, j, k)
                 => RankedBefore(images, i, k)
           /\ ~RankedBefore(images, i, j) => images[j].vote >= images[i].vote
<1> DEFINE vote(x) == images[x].vote
           path(x) == images[x].path
           Above(x, y) == \/ vote(x) > vote(y)
                          \/ vote(x) = vote(y) /\ path(x) < path(y)
                          \/ vote(x) = vote(y) /\ path(x) = path(y) /\ x < y
<1>4. RankedBefore(images, i, j) <=> Above(i, j)
  BY RankedIs
<1>5. RankedBefore(images, j, i) <=> Above(j, i)
  BY RankedIs
<1>6. RankedBefore(images, j, k) <=> Above(j, k)
  BY RankedIs
<1>7. RankedBefore(images, i, k) <=> Above(i, k)
  BY RankedIs
<1>8. /\ i \in Nat /\ j \in Nat /\ k \in Nat
      /\ vote(i) \in Nat /\ vote(j) \in Nat /\ vote(k) \in Nat
      /\ path(i) \in Nat /\ path(j) \in Nat /\ path(k) \in Nat
  BY RankedIs
<1> HIDE DEF vote, path
<1>1. i # j => RankedBefore(images, i, j) \/ RankedBefore(images, j, i)
  BY <1>4, <1>5, <1>8
<1>2. RankedBefore(images, i, j) /\ RankedBefore(images, j, k) => RankedBefore(images, i, k)
  BY <1>4, <1>6, <1>7, <1>8
<1>3. ~RankedBefore(images, i, j) => images[j].vote >= images[i].vote
  BY RankedIs
<1>9. QED
  BY <1>1, <1>2, <1>3

\* Of some posters, one is ranked behind the others.
LEMMA LastRanked ==
    ASSUME NEW images \in Seq(Images), NEW X \in SUBSET DOMAIN images, X # {}
    PROVE  \E m \in X : \A x \in X : x = m \/ RankedBefore(images, x, m)
<1> DEFINE HasLast(Y) == \E m \in Y : \A x \in Y : x = m \/ RankedBefore(images, x, m)
           T == {n \in Nat : \A Y \in SUBSET DOMAIN images :
                    Y # {} /\ Y \subseteq 1 .. n => HasLast(Y)}
<1>1. 0 \in T
  OBVIOUS
<1>2. ASSUME NEW n \in Nat, n \in T PROVE n + 1 \in T
  <2> HIDE DEF HasLast
  <2> SUFFICES ASSUME NEW Y \in SUBSET DOMAIN images, Y # {}, Y \subseteq 1 .. n + 1
               PROVE  HasLast(Y)
    OBVIOUS
  <2> USE DEF HasLast
  <2> DEFINE Z == Y \ {n + 1}
  <2>1. Z \in SUBSET DOMAIN images /\ Z \subseteq 1 .. n
    OBVIOUS
  <2>2. CASE n + 1 \notin Y
    <3>1. Y \subseteq 1 .. n
      BY <2>2
    <3>2. QED
      BY <1>2, <3>1
  <2>3. CASE n + 1 \in Y /\ Z = {}
    <3>1. \A x \in Y : x = n + 1
      BY <2>3
    <3>2. QED
      BY <2>3, <3>1
  <2>4. CASE n + 1 \in Y /\ Z # {}
    <3>1. PICK m \in Z : \A x \in Z : x = m \/ RankedBefore(images, x, m)
      BY <1>2, <2>1, <2>4
    <3>2. m # n + 1 /\ m \in DOMAIN images /\ n + 1 \in DOMAIN images
      BY <2>4
    <3>3. CASE RankedBefore(images, n + 1, m)
      BY <3>1, <3>3
    <3>4. CASE RankedBefore(images, m, n + 1)
      <4>1. \A x \in Z : RankedBefore(images, x, n + 1)
        <5> SUFFICES ASSUME NEW x \in Z PROVE RankedBefore(images, x, n + 1)
          OBVIOUS
        <5>1. CASE x = m
          BY <3>4, <5>1
        <5>2. CASE RankedBefore(images, x, m)
          BY <3>2, <3>4, <5>2, RankedIsOrder
        <5>3. QED
          BY <3>1, <5>1, <5>2
      <4>2. \A x \in Y : x = n + 1 \/ RankedBefore(images, x, n + 1)
        BY <4>1
      <4>3. QED
        BY <2>4, <4>2
    <3>5. QED
      BY <3>2, <3>3, <3>4, RankedIsOrder
  <2>5. QED
    BY <2>2, <2>3, <2>4
<1>3. DOMAIN images = 1 .. Len(images) /\ Len(images) \in Nat
  BY LenProperties
<1> HIDE DEF T, HasLast
<1>4. Len(images) \in T
  BY <1>1, <1>2, <1>3, NumbersAreIn
<1>5. HasLast(X)
  BY <1>3, <1>4 DEF T
<1>6. QED
  BY <1>5 DEF HasLast

-----------------------------------------------------------------------------
(* poster_member_keys: the keys                                            *)

LEMMA KeysAreFinite ==
    ASSUME NEW images \in Seq(Images), NEW places \in SUBSET DOMAIN images
    PROVE  IsFiniteSet(KeysAt(images, places))
<1> DEFINE keys == KeysAt(images, places)
           f == [i \in places |-> KeyOf(images)[i]]
<1>1. IsFiniteSet(places)
  <2>1. DOMAIN images = 1 .. Len(images) /\ Len(images) \in Nat
    BY LenProperties
  <2>2. IsFiniteSet(1 .. Len(images))
    BY <2>1, FS_Interval
  <2>3. QED
    BY <2>1, <2>2, FS_Subset
<1>2. f \in Surjection(places, keys)
  BY DEF Surjection, KeysAt
<1>3. QED
  BY <1>1, <1>2, FS_Surjection

\* The primary poster's key, and each other's whose keys ahead leave room.
LEMMA PosterKeysAre ==
    ASSUME NEW primary, NEW images \in Seq(Images), images # <<>>
    PROVE  \E lang :
              LET first == <<lang, primary>>
                  roomy == {i \in Others(primary, images) :
                               Room({first} \cup KeysAt(images, Ahead(primary, images, i)))}
              IN  PosterKeys(primary, images) = {first} \cup KeysAt(images, roomy)
<1> DEFINE mine == {i \in DOMAIN images : images[i].path = primary}
           others == {i \in DOMAIN images : images[i].path \notin {0, primary}}
           lang == IF mine = {} THEN "und" ELSE PrintedLang(images[Min(mine)])
           first == <<lang, primary>>
           keysOf(places) == {<<PrintedLang(images[i]), images[i].path>> : i \in places}
           before(i) == {j \in others : RankedBefore(images, j, i)}
           room == {i \in others : Room({first} \cup keysOf(before(i)))}
<1>1. PosterKeys(primary, images) = {first} \cup keysOf(room)
  BY DEF PosterKeys
<1>2. others = Others(primary, images) /\ \A i : before(i) = Ahead(primary, images, i)
  BY DEF Others, Ahead
<1>3. \A places \in SUBSET DOMAIN images : keysOf(places) = KeysAt(images, places)
  <2> SUFFICES ASSUME NEW places \in SUBSET DOMAIN images
               PROVE  keysOf(places) = KeysAt(images, places)
    OBVIOUS
  <2>1. \A i \in places : KeyOf(images)[i] = <<PrintedLang(images[i]), images[i].path>>
    BY DEF KeyOf
  <2>2. QED
    BY <2>1 DEF KeysAt
<1>4. room \in SUBSET DOMAIN images /\ \A i : before(i) \in SUBSET DOMAIN images
  OBVIOUS
<1>5. room = {i \in Others(primary, images) :
                 Room({first} \cup KeysAt(images, Ahead(primary, images, i)))}
  <2> HIDE DEF lang, before, keysOf
  <2>1. \A i : keysOf(before(i)) = KeysAt(images, Ahead(primary, images, i))
    BY <1>2, <1>3, <1>4
  <2>2. QED
    BY <1>2, <2>1
<1> HIDE DEF room, lang, keysOf
<1>6. keysOf(room) = KeysAt(images, room)
  BY <1>3, <1>4
<1>7. QED
  BY <1>1, <1>5, <1>6

LEMMA OneMoreKey ==
    ASSUME NEW S, IsFiniteSet(S), Room(S), NEW k, NEW K, K \subseteq S \cup {k}
    PROVE  Cardinality(K) <= MAX_POSTER_MEMBERS
<1>1. Cardinality(S) \in Nat /\ Cardinality(S) < MAX_POSTER_MEMBERS
  BY FS_CardinalityType DEF Room
<1>2. IsFiniteSet(S \cup {k}) /\ Cardinality(S \cup {k}) <= Cardinality(S) + 1
  BY <1>1, FS_AddElement
<1>3. Cardinality(K) <= Cardinality(S \cup {k}) /\ IsFiniteSet(K)
  BY <1>2, FS_Subset
<1>4. Cardinality(K) \in Nat /\ Cardinality(S \cup {k}) \in Nat
  BY <1>2, <1>3, FS_CardinalityType
<1>5. QED
  BY <1>1, <1>2, <1>3, <1>4, LimitAssumption

\* A record's posters are its own and the best voted of the others, as many as
\* there is room for (card.rs: poster_member_keys).
THEOREM PostersAreTheBestHolds == Spec => []PostersAreTheBest
<1>1. ASSUME RecordInv, resolved # None, resolved.posters # {}
      PROVE  LET kept == {k[2] : k \in resolved.posters}
             IN  /\ work.poster \in kept
                 /\ Cardinality(resolved.posters) <= MAX_POSTER_MEMBERS
                 /\ \A m \in ToSet(work.images) :
                       m.path \notin kept \cup {0} =>
                           \A p \in kept \ {work.poster} : \E l \in ToSet(work.images) :
                               l.path = p /\ l.vote >= m.vote
  <2>1. PICK images \in Seq(Images) : images = work.images
    BY <1>1, WorkIs
  <2>12. PICK primary : primary = work.poster
    OBVIOUS
  <2>2. resolved.posters = PosterKeys(primary, images)
    BY <1>1, <2>1, <2>12, ResolvedIs
  <2>3. images # <<>>
    BY <1>1, <2>2 DEF PosterKeys
  <2>4. PICK lang :
           PosterKeys(primary, images) =
              {<<lang, primary>>}
                 \cup KeysAt(images, {i \in Others(primary, images) :
                         Room({<<lang, primary>>}
                                 \cup KeysAt(images, Ahead(primary, images, i)))})
    BY <2>3, PosterKeysAre
  <2> DEFINE first == <<lang, primary>>
             ahead(i) == {first} \cup KeysAt(images, Ahead(primary, images, i))
             roomy == {i \in Others(primary, images) : Room(ahead(i))}
             keys == {first} \cup KeysAt(images, roomy)
             kept == {k[2] : k \in keys}
  <2>5. PosterKeys(primary, images) = keys
    BY <2>4
  <2>6. /\ Others(primary, images) \subseteq DOMAIN images
        /\ roomy \subseteq Others(primary, images)
        /\ \A i : Ahead(primary, images, i) \subseteq Others(primary, images)
    BY DEF Others, Ahead
  <2>7. \A i : IsFiniteSet(ahead(i))
    <3> SUFFICES ASSUME NEW i PROVE IsFiniteSet(ahead(i))
      OBVIOUS
    <3>1. IsFiniteSet(KeysAt(images, Ahead(primary, images, i)))
      BY <2>6, KeysAreFinite
    <3>2. IsFiniteSet(KeysAt(images, Ahead(primary, images, i)) \cup {first})
      BY <3>1, FS_AddElement
    <3>3. QED
      BY <3>2
  <2>8. primary \in kept
    <3>1. first[2] = primary /\ first \in keys
      OBVIOUS
    <3>2. QED
      BY <3>1
  <2>9. Cardinality(keys) <= MAX_POSTER_MEMBERS
    <3>1. CASE roomy = {}
      <4>1. keys = {first}
        BY <3>1 DEF KeysAt
      <4>2. Cardinality({first}) = 1
        BY FS_Singleton
      <4> HIDE DEF keys
      <4>3. QED
        BY <4>1, <4>2, LimitAssumption
    <3>2. CASE roomy # {}
      <4>1. PICK m \in roomy : \A x \in roomy : x = m \/ RankedBefore(images, x, m)
        BY <2>6, <3>2, LastRanked
      <4>2. Room(ahead(m))
        BY <4>1
      <4>3. \A x \in roomy : x = m \/ x \in Ahead(primary, images, m)
        BY <2>6, <4>1 DEF Ahead
      <4>4. keys \subseteq ahead(m) \cup {KeyOf(images)[m]}
        BY <4>3 DEF KeysAt
      <4> HIDE DEF ahead, keys
      <4>5. QED
        BY <2>7, <4>2, <4>4, OneMoreKey
    <3>3. QED
      BY <3>1, <3>2
  <2>10. ASSUME NEW m \in ToSet(images), m.path \notin kept \cup {0},
                NEW p \in kept \ {primary}
         PROVE  \E l \in ToSet(images) : l.path = p /\ l.vote >= m.vote
    <3>1. PICK i \in DOMAIN images : m = images[i]
      BY DEF ToSet
    <3>2. i \in Others(primary, images)
      BY <2>8, <2>10, <3>1 DEF Others
    <3>3. \A x \in DOMAIN images : KeyOf(images)[x][2] = images[x].path
      BY DEF KeyOf
    <3>4. i \notin roomy
      <4> SUFFICES ASSUME i \in roomy PROVE FALSE
        OBVIOUS
      <4>1. KeyOf(images)[i] \in keys
        BY DEF KeysAt
      <4>2. KeyOf(images)[i][2] \in kept
        BY <4>1
      <4>3. QED
        BY <2>10, <3>1, <3>3, <4>2
    <3>5. PICK j \in roomy : images[j].path = p
      <4>1. PICK k \in keys : p = k[2]
        BY <2>10
      <4>2. k # first
        BY <2>10, <4>1
      <4>3. PICK x \in roomy : k = KeyOf(images)[x]
        BY <4>2 DEF KeysAt
      <4>4. QED
        BY <2>6, <3>3, <4>1, <4>3
    <3>6. j \in DOMAIN images
      BY <2>6, <3>5
    <3>7. ~RankedBefore(images, i, j)
      <4> SUFFICES ASSUME RankedBefore(images, i, j) PROVE FALSE
        OBVIOUS
      <4>1. Ahead(primary, images, i) \subseteq Ahead(primary, images, j)
        BY <2>6, <3>1, <3>6, RankedIsOrder DEF Ahead
      <4>2. ahead(i) \subseteq ahead(j)
        BY <4>1 DEF KeysAt
      <4>3. Room(ahead(j)) /\ ~Room(ahead(i))
        BY <3>2, <3>4, <3>5
      <4> HIDE DEF ahead
      <4>4. Cardinality(ahead(i)) <= Cardinality(ahead(j))
        BY <2>7, <4>2, FS_Subset
      <4>5. Cardinality(ahead(i)) \in Nat /\ Cardinality(ahead(j)) \in Nat
        BY <2>7, FS_CardinalityType
      <4>6. QED
        BY <4>3, <4>4, <4>5, LimitAssumption DEF Room
    <3>8. images[j].vote >= images[i].vote
      BY <3>1, <3>6, <3>7, RankedIsOrder
    <3>9. images[j] \in ToSet(images)
      BY <3>6 DEF ToSet
    <3>10. QED
      BY <3>1, <3>5, <3>8, <3>9
  <2>11. QED
    <3> HIDE DEF keys
    <3>1. resolved.posters = keys
      BY <2>2, <2>5
    <3>2. QED
      BY <2>1, <2>12, <2>8, <2>9, <2>10, <3>1
<1>2. RecordInv => PostersAreTheBest
  BY <1>1 DEF PostersAreTheBest
<1>3. QED
  BY <1>2, RecordInvAlways, PTL
=============================================================================
