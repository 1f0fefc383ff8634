----------------------- MODULE BudgetedRequestsProofs -----------------------
(***************************************************************************)
(* Whatever the requests are, however long their plans and however long    *)
(* the waits.  Two things are proved.                                      *)
(*                                                                         *)
(* What the requests do to the budget: they touch it only as TmdbBudget's  *)
(* own callers do, so what is proved of the budget holds of the whole      *)
(* server, the rate, the pauses and the sleeps.  (TmdbBudget's theorems    *)
(* are about its own Spec, with a fairness of single actions that requests *)
(* do not have; the step lemmas of those theorems are what is used.)       *)
(*                                                                         *)
(* What the budget does to the requests: the calls and the ticks of        *)
(* waiting that what is left of a plan can still cost are never more than  *)
(* what the bounds leave (RequestInv).  A lookup lowers what is left by at *)
(* least what it cost (Eased), whatever it found; that a waiter has ticks  *)
(* left for its lookup is SleepNotTooLong, of the budget, and that no time *)
(* passes between the lock and the sleep: the prompt executor (OnTime).    *)
(***************************************************************************)
EXTENDS BudgetedRequests, TmdbBudgetProofs, ListLemmas

-----------------------------------------------------------------------------
(* The inductive invariant of the requests                                 *)

\* What is asked for of titles.
Steps == {"ext", "details", "genre"} \X Kinds

\* A movie's details are followed by its genre table, and nothing else is.
IsTitles(left) ==
    /\ left \in Seq(Steps)
    /\ \A i \in 1 .. Len(left) :
          IF left[i] = <<"details", "movie">>
          THEN i < Len(left) /\ left[i + 1] = <<"genre", "movie">>
          ELSE i < Len(left) => left[i + 1][1] # "genre"

\* Nothing of a title has been looked up yet.
Fresh(left) == Len(left) > 0 => left[1][1] # "genre"

\* A row's genre table, if anything, comes before its pages.
IsRow(left, kind) ==
    /\ left \in Seq({"genre", "page"} \X {kind})
    /\ \A i \in 2 .. Len(left) : left[i] = <<"page", kind>>

IsSearch(left) == left = <<<<"search", "any">>>>

Shape(j) ==
    /\ j \in Jobs
    /\ j.req.op = "row" => IsRow(j.left, j.req.kind)
    /\ j.req.op = "text" => IsSearch(j.left) \/ IsTitles(j.left)
    /\ j.req.op = "card" => IsTitles(j.left)
    /\ j.knew => j.req.op = "row"

\* The table of a row that knew it costs no call.
Free(j) == j.knew /\ Head(j.left)[1] = "genre"

\* The calls that what is left can still come to.
Worth(j) ==
    IF j.left = <<>> THEN 0
    ELSE IF IsSearch(j.left) THEN 1 + Len(TitlesLookups(j.req.n))
    ELSE Len(j.left) - IF Free(j) THEN 1 ELSE 0

Limit(j) == Lookups(j.req) - IF j.knew THEN 1 ELSE 0

\* The lookups that wait long for their permit.
Slow == {"ext", "details"} \X Kinds

TitleWaits(left) == Long * Len(Kept(left, Slow)) + IF Fresh(left) THEN 0 ELSE Short

\* The ticks that what is left can wait for permits if none is granted.
StillWaits(j) ==
    IF j.left = <<>> THEN 0
    ELSE IF IsSearch(j.left) THEN Long
    ELSE IF j.req.op = "row"
         THEN IF Head(j.left)[1] = "genre" THEN 2 * Short ELSE Short
    ELSE TitleWaits(j.left)

InCall == {"granted", "noting", "notifying"}

\* The request j of a caller at p in the budget with t ticks to its deadline.
Counted(j, p) ==
    IF p \in InCall THEN j.calls > 0 /\ j.calls + Worth(j) <= Limit(j) + 1
    ELSE j.calls + Worth(j) <= Limit(j)

Patient(j, p, t) ==
    /\ StillWaits(j) <= Patience(j.req)
    /\ p = "idle" => j.dry + StillWaits(j) <= Patience(j.req) /\ (IsSearch(j.left) => j.dry = 0)
    /\ p \in Waiting =>
          t >= 0 /\ j.dry + t + StillWaits(j) - Deadline(Head(j.left)[1]) <= Patience(j.req)
    /\ p = "expired" => j.dry + StillWaits(j) - Deadline(Head(j.left)[1]) <= Patience(j.req)
    /\ p \in InCall => j.dry = 0

Knows(j, p, tables) ==
    j.knew => j.req.kind \in tables /\ (j.left # <<>> /\ Free(j) => p = "idle")

Fine(j, p, t, tables) ==
    /\ Shape(j) /\ Counted(j, p) /\ Patient(j, p, t) /\ Knows(j, p, tables)
    /\ p # "idle" => j.left # <<>>

FineAt(c) ==
    IF job[c] = Nobody THEN pc[c] = "idle"
    ELSE Fine(job[c], pc[c], give_up_at[c] - now, held)

RequestInv ==
    /\ held \subseteq Kinds
    /\ job \in [Callers -> Jobs \cup {Nobody}]
    /\ \A c \in Callers : FineAt(c)

-----------------------------------------------------------------------------
(* The lookups of the titles a search finds                                *)

\* The lookups of one title.
LEMMA TitleLookupsTyped ==
    ASSUME NEW kind \in Kinds
    PROVE  /\ IsTitles(TitleLookups(kind)) /\ Fresh(TitleLookups(kind))
           /\ Len(Kept(TitleLookups(kind), Slow)) = 2
<1> DEFINE e == <<"ext", kind>>
           d == <<"details", kind>>
           g == <<"genre", kind>>
<1>1. e \in Steps /\ d \in Steps /\ g \in Steps /\ e \in Slow /\ d \in Slow /\ g \notin Slow
  BY DEF Steps, Slow
<1>2. TitleLookups(kind) = <<e, d>> \o IF kind = "movie" THEN <<g>> ELSE <<>>
  BY DEF TitleLookups
<1>3. IF kind = "movie" THEN d = <<"details", "movie">> /\ g = <<"genre", "movie">>
      ELSE d # <<"details", "movie">>
  OBVIOUS
<1>4. /\ e # <<"details", "movie">> /\ g # <<"details", "movie">>
      /\ e[1] # "genre" /\ d[1] # "genre"
  OBVIOUS
<1> HIDE DEF e, d, g
<1>12. \A s \in Seq(Steps) : Len(s) > 0 =>
          \E t \in Seq(Steps) :
             /\ Len(t) = Len(s) - 1 /\ \A i \in 1 .. Len(t) : t[i] = s[i + 1]
             /\ Len(Kept(s, Slow)) = (IF s[1] \in Slow THEN 1 ELSE 0) + Len(Kept(t, Slow))
  BY KeptOfFirst
<1>5. ASSUME NEW s \in Seq(Steps), s[1] \in Slow, s[2] \in Slow,
             Len(s) \in {2, 3}, Len(s) = 3 => s[3] \notin Slow
      PROVE  Len(Kept(s, Slow)) = 2
  <2>1. PICK t \in Seq(Steps) :
           /\ Len(t) = Len(s) - 1 /\ \A i \in 1 .. Len(t) : t[i] = s[i + 1]
           /\ Len(Kept(s, Slow)) = (IF s[1] \in Slow THEN 1 ELSE 0) + Len(Kept(t, Slow))
    <3>1. Len(s) > 0
      BY <1>5
    <3>2. QED
      BY <1>12, <3>1, Zenon
  <2>2. Len(t) > 0 /\ t[1] = s[2]
    BY <1>5, <2>1
  <2>3. PICK u \in Seq(Steps) :
           /\ Len(u) = Len(t) - 1 /\ \A i \in 1 .. Len(u) : u[i] = t[i + 1]
           /\ Len(Kept(t, Slow)) = (IF t[1] \in Slow THEN 1 ELSE 0) + Len(Kept(u, Slow))
    BY <1>12, <2>2, Zenon
  <2>4. Len(Kept(u, Slow)) = 0
    <3>1. CASE Len(u) = 0
      BY <3>1, KeptOfNone, EmptySeq
    <3>2. CASE Len(u) = 1 /\ u[1] \notin Slow
      <4>1. PICK v \in Seq(Steps) :
               Len(v) = 0 /\ Len(Kept(u, Slow)) = 0 + Len(Kept(v, Slow))
        <5>1. Len(u) > 0
          BY <3>2
        <5>2. PICK v \in Seq(Steps) :
                 Len(v) = Len(u) - 1
                 /\ Len(Kept(u, Slow)) = (IF u[1] \in Slow THEN 1 ELSE 0) + Len(Kept(v, Slow))
          BY <1>12, <5>1, Zenon
        <5>3. Len(v) = 0
          BY <3>2, <5>2
        <5>4. Len(Kept(u, Slow)) = 0 + Len(Kept(v, Slow))
          <6>1. u[1] \notin Slow
            BY <3>2
          <6>2. QED
            BY <5>2, <6>1
        <5>5. QED
          BY <5>3, <5>4, Zenon
      <4>2. Len(Kept(v, Slow)) = 0
        BY <4>1, KeptOfNone, EmptySeq
      <4>3. QED
        BY <4>1, <4>2
    <3>3. QED
      BY <1>5, <2>1, <2>3, <3>1, <3>2
  <2>5. QED
    BY <1>5, <2>1, <2>2, <2>3, <2>4
<1> DEFINE two == <<e, d>>
           three == <<e, d, g>>
<1>6. /\ two \in Seq(Steps) /\ Len(two) = 2 /\ two[1] = e /\ two[2] = d
      /\ three \in Seq(Steps) /\ Len(three) = 3
      /\ three[1] = e /\ three[2] = d /\ three[3] = g
      /\ three = <<e, d>> \o <<g>>
  BY <1>1
<1> HIDE DEF two, three
<1>7. Len(Kept(two, Slow)) = 2 /\ Len(Kept(three, Slow)) = 2
  <2>1. /\ two \in Seq(Steps) /\ two[1] \in Slow /\ two[2] \in Slow /\ Len(two) = 2
        /\ three \in Seq(Steps) /\ three[1] \in Slow /\ three[2] \in Slow
        /\ Len(three) = 3 /\ three[3] \notin Slow
    BY <1>1, <1>6, Zenon
  <2>2. ASSUME NEW s \in Seq(Steps), s[1] \in Slow, s[2] \in Slow, Len(s) = 2
        PROVE  Len(Kept(s, Slow)) = 2
    BY <1>5, <2>2
  <2>3. ASSUME NEW s \in Seq(Steps), s[1] \in Slow, s[2] \in Slow,
               Len(s) = 3, s[3] \notin Slow
        PROVE  Len(Kept(s, Slow)) = 2
    BY <1>5, <2>3
  <2>4. QED
    BY <2>1, <2>2, <2>3, Zenon
<1>8. CASE kind = "tv"
  <2>1. TitleLookups(kind) = two
    <3>1. <<e, d>> \o <<>> = <<e, d>>
      OBVIOUS
    <3>2. QED
      BY <1>2, <1>8, <3>1 DEF two
  <2>2. IsTitles(two) /\ Fresh(two)
    <3>1. ASSUME NEW i \in 1 .. Len(two)
          PROVE  two[i] # <<"details", "movie">> /\ (i < Len(two) => two[i + 1][1] # "genre")
      <4>1. i = 1 \/ i = 2
        BY <1>6
      <4>2. d # <<"details", "movie">>
        BY <1>3, <1>8
      <4>3. QED
        BY <1>4, <1>6, <4>1, <4>2
    <3>2. QED
      BY <1>4, <1>6, <3>1 DEF IsTitles, Fresh
  <2>3. QED
    BY <1>7, <2>1, <2>2
<1>9. CASE kind = "movie"
  <2>1. TitleLookups(kind) = three
    BY <1>2, <1>6, <1>9 DEF three
  <2>2. IsTitles(three) /\ Fresh(three)
    <3>1. ASSUME NEW i \in 1 .. Len(three)
          PROVE  IF three[i] = <<"details", "movie">>
                 THEN i < Len(three) /\ three[i + 1] = <<"genre", "movie">>
                 ELSE i < Len(three) => three[i + 1][1] # "genre"
      <4>1. i = 1 \/ i = 2 \/ i = 3
        BY <1>6
      <4>2. d = <<"details", "movie">> /\ g = <<"genre", "movie">>
        BY <1>3, <1>9
      <4>3. CASE i = 1
        BY <1>4, <1>6, <4>3
      <4>4. CASE i = 2
        BY <1>6, <4>2, <4>4
      <4>5. CASE i = 3
        BY <1>4, <1>6, <4>5
      <4>6. QED
        BY <4>1, <4>3, <4>4, <4>5
    <3>2. QED
      BY <1>4, <1>6, <3>1 DEF IsTitles, Fresh
  <2>3. QED
    BY <1>7, <2>1, <2>2
<1>10. QED
  BY <1>8, <1>9 DEF Kinds

LEMMA IsTitlesConcat ==
    ASSUME NEW a, NEW b, IsTitles(a), IsTitles(b), Fresh(a), Fresh(b)
    PROVE  IsTitles(a \o b) /\ Fresh(a \o b)
<1>1. a \in Seq(Steps) /\ b \in Seq(Steps) /\ Len(a) \in Nat /\ Len(b) \in Nat
  BY LenProperties DEF IsTitles
<1>2. PICK s : s = a \o b
  OBVIOUS
<1>3. /\ s \in Seq(Steps) /\ Len(s) = Len(a) + Len(b)
      /\ \A i \in 1 .. Len(a) + Len(b) : s[i] = IF i <= Len(a) THEN a[i] ELSE b[i - Len(a)]
  BY <1>1, <1>2, ConcatProperties
<1> DEFINE more(i) == i < Len(a) + Len(b)
           Fits(i) == IF s[i] = <<"details", "movie">>
                      THEN more(i) /\ s[i + 1] = <<"genre", "movie">>
                      ELSE more(i) => s[i + 1][1] # "genre"
<1>4. ASSUME NEW i \in 1 .. Len(a) + Len(b)
      PROVE  Fits(i)
  <2>1. CASE i < Len(a)
    <3>1. i \in 1 .. Len(a) /\ s[i] = a[i] /\ s[i + 1] = a[i + 1] /\ more(i)
      BY <1>1, <1>3, <1>4, <2>1
    <3>2. IF a[i] = <<"details", "movie">> THEN a[i + 1] = <<"genre", "movie">>
          ELSE a[i + 1][1] # "genre"
      BY <2>1, <3>1 DEF IsTitles
    <3>3. QED
      BY <3>1, <3>2
  <2>2. CASE i = Len(a)
    <3>1. i \in 1 .. Len(a) /\ s[i] = a[i] /\ (more(i) => Len(b) > 0 /\ s[i + 1] = b[1])
      BY <1>1, <1>3, <1>4, <2>2
    <3>2. a[i] # <<"details", "movie">>
      BY <1>1, <2>2, <3>1 DEF IsTitles
    <3>3. QED
      BY <3>1, <3>2 DEF Fresh
  <2>3. CASE i > Len(a)
    <3> DEFINE k == i - Len(a)
    <3>1. k \in 1 .. Len(b) /\ s[i] = b[k]
      BY <1>1, <1>3, <1>4, <2>3
    <3>2. more(i) => k < Len(b) /\ s[i + 1] = b[k + 1]
      BY <1>1, <1>3, <1>4, <2>3
    <3>3. k < Len(b) => more(i)
      BY <1>1, <1>4
    <3>4. IF b[k] = <<"details", "movie">>
          THEN k < Len(b) /\ b[k + 1] = <<"genre", "movie">>
          ELSE k < Len(b) => b[k + 1][1] # "genre"
      BY <3>1 DEF IsTitles
    <3> HIDE DEF k, more
    <3>5. QED
      BY <3>1, <3>2, <3>3, <3>4
  <2>4. QED
    BY <1>1, <1>4, <2>1, <2>2, <2>3
<1>5. Fresh(s)
  <2>1. CASE Len(a) > 0
    BY <1>1, <1>3, <2>1 DEF Fresh
  <2>2. CASE Len(a) = 0
    BY <1>1, <1>3, <2>2 DEF Fresh
  <2>3. QED
    BY <1>1, <2>1, <2>2
<1>6. IsTitles(s)
  BY <1>3, <1>4 DEF IsTitles
<1>7. QED
  BY <1>2, <1>5, <1>6

\* The equation UpToTitle is defined by, and that it has a solution.
SolvesTitles(f) ==
    \A i \in 0 .. Len(FoundKinds) :
        f[i] = IF i = 0 THEN <<>> ELSE f[i - 1] \o TitleLookups(FoundKinds[i])

LEMMA UpToTitleDef == SolvesTitles(UpToTitle)
<1> DEFINE More(a, i) == a \o TitleLookups(FoundKinds[i])
           Eq(g, n) == g = [i \in 0 .. n |-> IF i = 0 THEN <<>> ELSE More(g[i - 1], i)]
           T == {n \in Nat : \E g : Eq(g, n)}
<1>1. 0 \in T
  <2>1. Eq([i \in 0 .. 0 |-> <<>>], 0)
    OBVIOUS
  <2>2. QED
    BY <2>1
<1>2. ASSUME NEW n \in Nat, n \in T PROVE n + 1 \in T
  <2>1. PICK g : Eq(g, n)
    BY <1>2
  <2> HIDE DEF More
  <2> DEFINE more == More(g[n], n + 1)
             h == [i \in 0 .. n + 1 |-> IF i = n + 1 THEN more ELSE g[i]]
  <2>2. ASSUME NEW i \in 0 .. n + 1
        PROVE  h[i] = IF i = 0 THEN <<>> ELSE More(h[i - 1], i)
    <3>1. CASE i = n + 1
      <4>1. h[i] = More(g[n], n + 1) /\ i # 0
        BY <3>1
      <4>2. h[i - 1] = g[n]
        BY <3>1
      <4> HIDE DEF h
      <4>3. QED
        BY <3>1, <4>1, <4>2
    <3>2. CASE i # n + 1
      <4>1. i \in 0 .. n
        BY <3>2
      <4>2. g[i] = IF i = 0 THEN <<>> ELSE More(g[i - 1], i)
        BY <2>1, <4>1
      <4>3. h[i] = g[i] /\ (i # 0 => h[i - 1] = g[i - 1])
        BY <3>2, <4>1
      <4>4. QED
        BY <4>2, <4>3
    <3>3. QED
      BY <3>1, <3>2
  <2>3. Eq(h, n + 1)
    BY <2>2
  <2> HIDE DEF Eq, h
  <2>4. QED
    BY <2>3
<1> HIDE DEF T
<1>3. Len(FoundKinds) \in T
  BY <1>1, <1>2, NumbersAreIn, LenProperties, RequestsAssumption
<1>4. PICK g : Eq(g, Len(FoundKinds))
  BY <1>3 DEF T
<1>5. PICK f : f = UpToTitle /\ Eq(f, Len(FoundKinds))
  BY <1>4 DEF UpToTitle
<1>6. SolvesTitles(f)
  <2>1. \A i \in 0 .. Len(FoundKinds) : f[i] = IF i = 0 THEN <<>> ELSE More(f[i - 1], i)
    <3> HIDE DEF More
    <3>1. QED
      BY <1>5
  <2>2. QED
    BY <2>1 DEF SolvesTitles
<1>7. QED
  BY <1>5, <1>6

\* The lookups of n titles: each two at most that wait long.
LEMMA TitlesLookupsTyped ==
    ASSUME NEW n \in Nat
    PROVE  /\ IsTitles(TitlesLookups(n)) /\ Fresh(TitlesLookups(n))
           /\ Len(Kept(TitlesLookups(n), Slow)) = 2 * LesserOf(n, Len(FoundKinds))
           /\ n = 0 => TitlesLookups(n) = <<>>
<1> DEFINE N == Len(FoundKinds)
           Good(i) == IsTitles(UpToTitle[i]) /\ Fresh(UpToTitle[i])
                      /\ Len(Kept(UpToTitle[i], Slow)) = 2 * i
           T == {i \in Nat : i <= N => Good(i)}
<1>1. N \in Nat /\ \A i \in 1 .. N : FoundKinds[i] \in Kinds
  BY RequestsAssumption, LenProperties, ElementOfSeq
<1>2. /\ UpToTitle[0] = <<>>
      /\ \A i \in Nat : i + 1 <= N =>
            UpToTitle[i + 1] = UpToTitle[i] \o TitleLookups(FoundKinds[i + 1])
  <2>1. \A i \in 0 .. N : UpToTitle[i] =
           IF i = 0 THEN <<>> ELSE UpToTitle[i - 1] \o TitleLookups(FoundKinds[i])
    BY UpToTitleDef DEF SolvesTitles
  <2>2. UpToTitle[0] = <<>>
    BY <1>1, <2>1
  <2>3. ASSUME NEW i \in Nat, i + 1 <= N
        PROVE  UpToTitle[i + 1] = UpToTitle[i] \o TitleLookups(FoundKinds[i + 1])
    <3>1. i + 1 \in 0 .. N /\ i + 1 # 0 /\ (i + 1) - 1 = i
      BY <1>1, <2>3
    <3>2. UpToTitle[i + 1] = IF i + 1 = 0 THEN <<>>
                             ELSE UpToTitle[(i + 1) - 1] \o TitleLookups(FoundKinds[i + 1])
      BY <2>1, <3>1, Zenon
    <3>3. QED
      BY <3>1, <3>2, Zenon
  <2>4. QED
    BY <2>2, <2>3
<1> HIDE DEF N
<1>3. 0 \in T
  <2>1. IsTitles(<<>>) /\ Fresh(<<>>)
    BY EmptySeq DEF IsTitles, Fresh
  <2>2. Len(Kept(<<>>, Slow)) = 0
    BY KeptEmpty
  <2>3. QED
    BY <1>2, <2>1, <2>2
<1>4. ASSUME NEW i \in Nat, i \in T PROVE i + 1 \in T
  <2> SUFFICES ASSUME i + 1 <= N PROVE Good(i + 1)
    OBVIOUS
  <2>1. Good(i) /\ FoundKinds[i + 1] \in Kinds
    BY <1>1, <1>4
  <2>2. PICK a, b : /\ a = UpToTitle[i] /\ b = TitleLookups(FoundKinds[i + 1])
                    /\ UpToTitle[i + 1] = a \o b
    BY <1>2
  <2>3. IsTitles(a) /\ IsTitles(b) /\ Fresh(a) /\ Fresh(b)
        /\ Len(Kept(a, Slow)) = 2 * i /\ Len(Kept(b, Slow)) = 2
    BY <2>1, <2>2, TitleLookupsTyped
  <2>4. a \in Seq(Steps) /\ b \in Seq(Steps)
    BY <2>3 DEF IsTitles
  <2>5. Kept(a \o b, Slow) = Kept(a, Slow) \o Kept(b, Slow)
    BY <2>4, KeptConcat
  <2>6. Kept(a, Slow) \in Seq(Steps) /\ Kept(b, Slow) \in Seq(Steps)
    BY <2>4, KeptTypedToo
  <2>7. Len(Kept(a \o b, Slow)) = 2 * (i + 1)
    <3>1. Len(Kept(a, Slow) \o Kept(b, Slow)) = Len(Kept(a, Slow)) + Len(Kept(b, Slow))
      BY <2>6, ConcatProperties
    <3>2. QED
      BY <2>3, <2>5, <3>1
  <2>8. IsTitles(a \o b) /\ Fresh(a \o b)
    BY <2>3, IsTitlesConcat
  <2>9. QED
    BY <2>2, <2>7, <2>8
<1> HIDE DEF T
<1>5. Nat \subseteq T
  BY <1>3, <1>4, NumbersAreIn
<1>6. LesserOf(n, N) \in Nat /\ LesserOf(n, N) <= N /\ (n = 0 => LesserOf(n, N) = 0)
  BY <1>1 DEF LesserOf
<1>7. Good(LesserOf(n, N))
  BY <1>5, <1>6 DEF T
<1>8. QED
  BY <1>2, <1>6, <1>7 DEF TitlesLookups, N


-----------------------------------------------------------------------------
(* What a lookup leaves to do                                              *)

LEMMA WaitsTyped == Short \in Nat /\ Long \in Nat /\ Short <= Long
  BY WaitsAssumption, DeadlinesAssumption

LEMMA RequestTyped ==
    ASSUME NEW req \in Requests
    PROVE  /\ req.op \in {"row", "text", "card"}
           /\ req.op = "row" => req.kind \in Kinds /\ req.pages \in Nat
           /\ req.op = "text" => req.n \in Nat
           /\ req.op = "card" => req.kind \in Kinds
  BY RequestsAssumption

\* A row's lookup is its genre table or a page, and pages follow.
LEMMA RowLook ==
    ASSUME NEW kind \in Kinds, NEW left, IsRow(left, kind), left # <<>>
    PROVE  /\ Head(left) \in {<<"genre", kind>>, <<"page", kind>>}
           /\ Len(left) \in Nat /\ Len(Tail(left)) = Len(left) - 1
           /\ IsRow(Tail(left), kind)
           /\ Tail(left) # <<>> => Head(Tail(left)) = <<"page", kind>>
<1> DEFINE S == {"genre", "page"} \X {kind}
<1>1. left \in Seq(S) /\ \A i \in 2 .. Len(left) : left[i] = <<"page", kind>>
  BY DEF IsRow
<1>2. PICK rest \in Seq(S) : rest = Tail(left)
  BY <1>1, HeadTailProperties
<1>3. /\ Len(left) \in Nat /\ Len(rest) = Len(left) - 1 /\ Len(rest) \in Nat
      /\ Head(left) \in S /\ \A i \in 1 .. Len(rest) : rest[i] = left[i + 1]
  BY <1>1, <1>2, HeadTailProperties, LenProperties
<1>4. \A i \in 1 .. Len(rest) : rest[i] = <<"page", kind>>
  BY <1>1, <1>3
<1>5. IsRow(rest, kind)
  BY <1>3, <1>4 DEF IsRow
<1>6. rest # <<>> => Head(rest) = <<"page", kind>>
  <2> SUFFICES ASSUME rest # <<>> PROVE Head(rest) = <<"page", kind>>
    OBVIOUS
  <2>1. Head(rest) = rest[1] /\ Len(rest) > 0
    BY HeadTailProperties, <1>3
  <2>2. QED
    BY <1>3, <1>4, <2>1
<1>7. QED
  BY <1>2, <1>3, <1>5, <1>6

LEMMA TitleLook ==
    ASSUME NEW left, IsTitles(left), left # <<>>
    PROVE  /\ Head(left) = left[1] /\ Head(left) \in Steps
           /\ Len(left) \in Nat /\ Len(Tail(left)) = Len(left) - 1
           /\ Tail(left) \in Seq(Steps) /\ IsTitles(Tail(left))
           /\ IF Head(left) = <<"details", "movie">>
              THEN Tail(left) # <<>> /\ Head(Tail(left)) = <<"genre", "movie">>
                   /\ ~Fresh(Tail(left))
              ELSE Fresh(Tail(left))
<1>1. left \in Seq(Steps)
  BY DEF IsTitles
<1>2. PICK rest \in Seq(Steps) : rest = Tail(left)
  BY <1>1, HeadTailProperties
<1>3. /\ Len(left) \in Nat /\ Len(rest) = Len(left) - 1 /\ Len(rest) \in Nat
      /\ Head(left) = left[1] /\ Head(left) \in Steps
      /\ \A i \in 1 .. Len(rest) : rest[i] = left[i + 1]
  BY <1>1, <1>2, HeadTailProperties, LenProperties
<1>4. \A i \in 1 .. Len(left) :
          IF left[i] = <<"details", "movie">>
          THEN i < Len(left) /\ left[i + 1] = <<"genre", "movie">>
          ELSE i < Len(left) => left[i + 1][1] # "genre"
  BY DEF IsTitles
<1>5. IsTitles(rest)
  <2> SUFFICES ASSUME NEW i \in 1 .. Len(rest)
               PROVE  IF rest[i] = <<"details", "movie">>
                      THEN i < Len(rest) /\ rest[i + 1] = <<"genre", "movie">>
                      ELSE i < Len(rest) => rest[i + 1][1] # "genre"
    BY DEF IsTitles
  <2>1. i + 1 \in 1 .. Len(left) /\ rest[i] = left[i + 1]
        /\ (i < Len(rest) => rest[i + 1] = left[(i + 1) + 1])
        /\ (i < Len(rest) <=> i + 1 < Len(left))
    BY <1>3
  <2>2. IF left[i + 1] = <<"details", "movie">>
        THEN i + 1 < Len(left) /\ left[(i + 1) + 1] = <<"genre", "movie">>
        ELSE i + 1 < Len(left) => left[(i + 1) + 1][1] # "genre"
    BY <1>4, <2>1
  <2>3. QED
    BY <2>1, <2>2
<1>6. Len(left) > 0
  BY <1>1
<1>7. IF left[1] = <<"details", "movie">>
      THEN Len(rest) > 0 /\ rest[1] = <<"genre", "movie">>
      ELSE Len(rest) > 0 => rest[1][1] # "genre"
  BY <1>3, <1>4, <1>6
<1>8. ASSUME left[1] = <<"details", "movie">>
      PROVE  rest # <<>> /\ Head(rest) = <<"genre", "movie">> /\ ~Fresh(rest)
  <2>1. Len(rest) > 0 /\ rest[1] = <<"genre", "movie">>
    BY <1>7, <1>8
  <2>2. rest # <<>>
    BY <2>1
  <2>3. Head(rest) = rest[1]
    BY <2>2, HeadTailProperties
  <2>4. QED
    BY <2>1, <2>2, <2>3 DEF Fresh
<1>9. ASSUME left[1] # <<"details", "movie">> PROVE Fresh(rest)
  BY <1>7, <1>9 DEF Fresh
<1>10. QED
  BY <1>2, <1>3, <1>5, <1>8, <1>9

\* A lookup of a title that is given up takes its wait with it, and what it was
\* for.
LEMMA TitleWaitsFall ==
    ASSUME NEW left, IsTitles(left), left # <<>>
    PROVE  /\ TitleWaits(left) \in Nat /\ TitleWaits(Tail(left)) \in Nat
           /\ Deadline(Head(left)[1]) <= TitleWaits(left)
           /\ TitleWaits(Tail(left)) <= TitleWaits(left)
           /\ IF Head(left) = <<"details", "movie">>
              THEN TitleWaits(Tail(Tail(left))) = TitleWaits(left) - Deadline(Head(left)[1])
              ELSE TitleWaits(Tail(left)) = TitleWaits(left) - Deadline(Head(left)[1])
<1> DEFINE K(s) == Len(Kept(s, Slow))
<1>1. left \in Seq(Steps) /\ Len(left) > 0
  BY DEF IsTitles
<1>2. /\ Head(left) = left[1] /\ Head(left) \in Steps /\ Tail(left) \in Seq(Steps)
      /\ IsTitles(Tail(left))
  BY TitleLook
<1>3. K(left) \in Nat /\ K(Tail(left)) \in Nat
      /\ K(left) = (IF Head(left) \in Slow THEN 1 ELSE 0) + K(Tail(left))
  BY <1>1, <1>2, KeptOfTail, LenProperties
<1>4. Long * (1 + K(Tail(left))) = Long + Long * K(Tail(left)) /\ Long * K(Tail(left)) \in Nat
  BY <1>3, WaitsTyped
<1>5. Head(left) \in Slow <=> Head(left)[1] # "genre"
  BY <1>2 DEF Slow, Steps
<1>6. Fresh(left) <=> Head(left)[1] # "genre"
  BY <1>1, <1>2 DEF Fresh
<1>7. Deadline(Head(left)[1]) = IF Head(left)[1] = "genre" THEN Short ELSE Long
  BY <1>2 DEF Deadline, Steps
<1> DEFINE w == Long * K(Tail(left))
<1>8. TitleWaits(left) = w + Deadline(Head(left)[1])
  <2>1. CASE Head(left)[1] = "genre"
    BY <1>3, <1>5, <1>6, <1>7, <2>1 DEF TitleWaits
  <2>2. CASE Head(left)[1] # "genre"
    <3>1. K(left) = 1 + K(Tail(left))
      BY <1>3, <1>5, <2>2
    <3>2. TitleWaits(left) = Long * K(left) + 0
      BY <1>6, <2>2 DEF TitleWaits
    <3>3. Long * K(left) = Long + w
      BY <1>4, <3>1
    <3>4. w \in Nat
      BY <1>4
    <3> HIDE DEF K, w
    <3>5. QED
      BY <1>7, <2>2, <3>2, <3>3, <3>4, WaitsTyped
  <2>3. QED
    BY <2>1, <2>2
<1>9. TitleWaits(Tail(left)) = w + IF Fresh(Tail(left)) THEN 0 ELSE Short
  BY DEF TitleWaits
<1>10. w \in Nat
  BY <1>4
<1> HIDE DEF w
<1>11. CASE Head(left) # <<"details", "movie">>
  <2>1. Fresh(Tail(left))
    BY <1>11, TitleLook
  <2>2. QED
    BY <1>7, <1>8, <1>9, <1>10, <1>11, <2>1, WaitsTyped
<1>12. CASE Head(left) = <<"details", "movie">>
  <2>1. PICK t : t = Tail(left)
    OBVIOUS
  <2>2. /\ ~Fresh(t) /\ t # <<>> /\ IsTitles(t) /\ Head(t) = <<"genre", "movie">>
        /\ t \in Seq(Steps)
    BY <1>12, <2>1, TitleLook
  <2>3. Fresh(Tail(t)) /\ Tail(t) \in Seq(Steps)
    BY <2>2, TitleLook
  <2>4. Head(t) \notin Slow
    BY <2>2 DEF Slow
  <2>5. K(t) = K(Tail(t))
    <3>1. K(t) = (IF Head(t) \in Slow THEN 1 ELSE 0) + K(Tail(t))
      BY <2>2, KeptOfTail
    <3>2. K(Tail(t)) \in Nat
      BY <2>2, KeptOfTail, LenProperties
    <3>3. QED
      BY <2>4, <3>1, <3>2
  <2>6. TitleWaits(Tail(t)) = Long * K(t)
    <3>1. Long * K(t) \in Nat
      BY <1>4, <2>1
    <3>2. TitleWaits(Tail(t)) = Long * K(Tail(t)) + 0
      BY <2>3 DEF TitleWaits
    <3>3. QED
      BY <2>5, <3>1, <3>2
  <2>7. TitleWaits(Tail(Tail(left))) = w
    BY <2>1, <2>6 DEF w
  <2>8. Deadline(Head(left)[1]) = Long
    BY <1>7, <1>12
  <2>9. TitleWaits(Tail(left)) = w + Short
    BY <1>9, <2>1, <2>2
  <2>10. QED
    BY <1>8, <1>10, <1>12, <2>7, <2>8, <2>9, WaitsTyped
<1>13. QED
  BY <1>11, <1>12

\* k is j after its first lookup, found or not.
After(j, k, found) ==
    /\ j.left # <<>>
    /\ k.left \in Left(j, found)
    /\ k = [j EXCEPT !.left = k.left]

\* What a lookup does to the shape of what is left, to its calls and to its waits.
Eased(j, k, found) ==
    /\ Shape(k) /\ ~IsSearch(k.left)
    /\ Worth(k) <= Worth(j) - IF Free(j) THEN 0 ELSE 1
    /\ IF IsSearch(j.left) /\ found THEN StillWaits(k) <= Patience(j.req)
       ELSE StillWaits(k) <= StillWaits(j)
    /\ ~found => StillWaits(k) <= StillWaits(j) - Deadline(Head(j.left)[1])

\* Every number that speaks of a request is one, and covers its next lookup.
Numbered(j) ==
    /\ Worth(j) \in Nat /\ StillWaits(j) \in Nat
    /\ j.left # <<>> => /\ Deadline(Head(j.left)[1]) \in Nat
                        /\ Deadline(Head(j.left)[1]) <= StillWaits(j)
                        /\ Free(j) \/ Worth(j) > 0

LEMMA LimitTyped ==
    ASSUME NEW j \in Jobs
    PROVE  Lookups(j.req) \in Nat /\ Limit(j) \in Int /\ Patience(j.req) \in Nat
<1>1. j.req \in Requests /\ j.knew \in BOOLEAN
  BY DEF Jobs
<1>2. CASE j.req.op = "row"
  <2>1. j.req.pages \in Nat
    BY <1>1, <1>2, RequestTyped
  <2>2. QED
    BY <1>2, <2>1, WaitsTyped DEF Limit, Lookups, Patience
<1>3. CASE j.req.op = "text"
  <2>1. j.req.n \in Nat
    BY <1>1, <1>3, RequestTyped
  <2>2. Len(TitlesLookups(j.req.n)) \in Nat
    BY <2>1, TitlesLookupsTyped, LenProperties DEF IsTitles
  <2>3. GreaterOf(1, LesserOf(j.req.n, Len(FoundKinds))) \in Nat
    BY <2>1, RequestsAssumption, LenProperties DEF GreaterOf, LesserOf
  <2>4. 2 * Long * GreaterOf(1, LesserOf(j.req.n, Len(FoundKinds))) \in Nat
    BY <2>3, WaitsTyped
  <2>5. QED
    BY <1>3, <2>2, <2>4 DEF Limit, Lookups, Patience
<1>4. CASE j.req.op = "card"
  <2>1. j.req.kind \in Kinds
    BY <1>1, <1>4, RequestTyped
  <2>2. Len(TitleLookups(j.req.kind)) \in Nat
    BY <2>1, TitleLookupsTyped, LenProperties DEF IsTitles
  <2>3. QED
    BY <1>4, <2>2, WaitsTyped DEF Limit, Lookups, Patience
<1>5. QED
  BY <1>1, <1>2, <1>3, <1>4, RequestTyped

LEMMA SearchAlone ==
    ASSUME NEW left, IsSearch(left)
    PROVE  /\ left # <<>> /\ Len(left) = 1 /\ left \in Seq(Looks)
           /\ Head(left) = <<"search", "any">> /\ Tail(left) = <<>>
  BY DEF IsSearch, Looks

LEMMA RowIsNoSearch ==
    ASSUME NEW kind \in Kinds, NEW left, IsRow(left, kind)
    PROVE  left \in Seq(Looks) /\ ~IsSearch(left)
<1>1. left \in Seq({"genre", "page"} \X {kind})
  BY DEF IsRow
<1>2. {"genre", "page"} \X {kind} \subseteq Looks
  BY DEF Looks
<1>3. left \in Seq(Looks)
  BY <1>1, <1>2
<1>4. ASSUME IsSearch(left) PROVE FALSE
  <2>1. left # <<>> /\ Head(left) = <<"search", "any">>
    BY <1>4, SearchAlone
  <2>2. QED
    BY <2>1, RowLook
<1>5. QED
  BY <1>3, <1>4

LEMMA TitlesAreNoSearch ==
    ASSUME NEW left, IsTitles(left)
    PROVE  left \in Seq(Looks) /\ ~IsSearch(left)
<1>1. left \in Seq(Steps)
  BY DEF IsTitles
<1>2. Steps \subseteq Looks
  BY DEF Looks, Steps
<1>3. left \in Seq(Looks)
  BY <1>1, <1>2
<1>4. ASSUME IsSearch(left) PROVE FALSE
  <2>1. left # <<>> /\ Head(left) = <<"search", "any">>
    BY <1>4, SearchAlone
  <2>2. Head(left) \in Steps
    BY <2>1, TitleLook
  <2>3. QED
    BY <2>1, <2>2 DEF Steps
<1>5. QED
  BY <1>3, <1>4

\* The three kinds of work that can be left.
Working(j) ==
    \/ j.req.op = "row" /\ j.req.kind \in Kinds /\ IsRow(j.left, j.req.kind)
    \/ j.req.op # "row" /\ j.req.op \in {"text", "card"} /\ ~j.knew /\ IsTitles(j.left)
    \/ j.req.op = "text" /\ ~j.knew /\ IsSearch(j.left) /\ j.req.n \in Nat

LEMMA ShapeIsWork ==
    ASSUME NEW j, Shape(j)
    PROVE  Working(j)
<1>1. j.req \in Requests /\ j.knew \in BOOLEAN
  BY DEF Shape, Jobs
<1>2. QED
  BY <1>1, RequestTyped DEF Shape, Working

LEMMA ShapeIsNumbered ==
    ASSUME NEW j, Shape(j)
    PROVE  Numbered(j)
<1>0. Working(j) /\ j.knew \in BOOLEAN /\ j.left \in Seq(Looks)
  BY ShapeIsWork DEF Shape, Jobs
<1>1. CASE j.left = <<>>
  BY <1>1 DEF Numbered, Worth, StillWaits
<1>2. ASSUME j.left # <<>>, j.req.op = "row", j.req.kind \in Kinds,
             IsRow(j.left, j.req.kind)
      PROVE  Numbered(j)
  <2>1. /\ Head(j.left) \in {<<"genre", j.req.kind>>, <<"page", j.req.kind>>}
        /\ Len(j.left) \in Nat /\ Len(j.left) > 0 /\ ~IsSearch(j.left)
    <3>1. Len(j.left) \in Nat /\ Len(j.left) > 0
      BY <1>0, <1>2
    <3>2. Head(j.left) \in {<<"genre", j.req.kind>>, <<"page", j.req.kind>>}
      BY <1>2, RowLook
    <3>3. ~IsSearch(j.left)
      BY <1>2, RowIsNoSearch
    <3>4. QED
      BY <3>1, <3>2, <3>3
  <2>2. Worth(j) = Len(j.left) - IF Free(j) THEN 1 ELSE 0
    BY <1>2, <2>1 DEF Worth
  <2>3. StillWaits(j) = IF Head(j.left)[1] = "genre" THEN 2 * Short ELSE Short
    BY <1>2, <2>1 DEF StillWaits
  <2>4. Deadline(Head(j.left)[1]) = Short
    BY <2>1 DEF Deadline
  <2>5. Worth(j) \in Nat /\ (Free(j) \/ Worth(j) > 0)
    <3>1. CASE Free(j)
      BY <2>1, <2>2, <3>1
    <3>2. CASE ~Free(j)
      BY <2>1, <2>2, <3>2
    <3>3. QED
      BY <3>1, <3>2
  <2>6. StillWaits(j) \in Nat /\ Short <= StillWaits(j)
    BY <2>3, WaitsTyped
  <2>7. QED
    BY <2>4, <2>5, <2>6, WaitsTyped DEF Numbered
<1>3. ASSUME j.left # <<>>, j.req.op # "row", ~j.knew, IsTitles(j.left)
      PROVE  Numbered(j)
  <2>1. /\ Head(j.left) \in Steps /\ Len(j.left) \in Nat /\ Len(j.left) > 0
        /\ ~IsSearch(j.left)
    BY <1>0, <1>3, TitleLook, TitlesAreNoSearch
  <2>2. Worth(j) = Len(j.left)
    BY <1>3, <2>1 DEF Worth, Free
  <2>3. StillWaits(j) = TitleWaits(j.left)
    BY <1>3, <2>1 DEF StillWaits
  <2>4. Deadline(Head(j.left)[1]) \in Nat
    BY <2>1, WaitsTyped DEF Deadline, Steps
  <2>5. TitleWaits(j.left) \in Nat /\ Deadline(Head(j.left)[1]) <= TitleWaits(j.left)
    BY <1>3, TitleWaitsFall
  <2>6. QED
    BY <2>1, <2>2, <2>3, <2>4, <2>5 DEF Numbered
<1>4. ASSUME IsSearch(j.left), j.req.n \in Nat PROVE Numbered(j)
  <2>1. /\ j.left # <<>> /\ Head(j.left) = <<"search", "any">>
    BY <1>4, SearchAlone
  <2>2. Len(TitlesLookups(j.req.n)) \in Nat
    BY <1>4, TitlesLookupsTyped, LenProperties DEF IsTitles
  <2>3. Worth(j) = 1 + Len(TitlesLookups(j.req.n))
    BY <1>4, <2>1 DEF Worth
  <2>4. StillWaits(j) = Long
    BY <1>4, <2>1 DEF StillWaits
  <2>5. Deadline(Head(j.left)[1]) = Long
    BY <2>1 DEF Deadline
  <2>6. QED
    BY <2>2, <2>3, <2>4, <2>5, WaitsTyped DEF Numbered
<1>5. QED
  BY <1>0, <1>1, <1>2, <1>3, <1>4 DEF Working

\* The fields a lookup leaves alone.
LEMMA AfterFields ==
    ASSUME NEW j \in Jobs, NEW k, NEW found, After(j, k, found), k.left \in Seq(Looks)
    PROVE  /\ k \in Jobs /\ k.req = j.req /\ k.knew = j.knew
           /\ k.calls = j.calls /\ k.dry = j.dry
  BY DEF After, Jobs

LEMMA RowEased ==
    ASSUME NEW j, NEW k, NEW found \in BOOLEAN, Shape(j), After(j, k, found),
           j.req.op = "row", j.req.kind \in Kinds, IsRow(j.left, j.req.kind)
    PROVE  Eased(j, k, found)
<1> DEFINE kind == j.req.kind
<1>1. /\ Head(j.left) \in {<<"genre", kind>>, <<"page", kind>>}
      /\ Len(j.left) \in Nat /\ Len(Tail(j.left)) = Len(j.left) - 1
      /\ IsRow(Tail(j.left), kind)
      /\ Tail(j.left) # <<>> => Head(Tail(j.left)) = <<"page", kind>>
  BY RowLook DEF After
<1>2. k.left \in {Tail(j.left), <<>>}
  BY <1>1 DEF After, Left
<1>3. IsRow(<<>>, kind)
  BY EmptySeq DEF IsRow
<1>4. IsRow(k.left, kind)
  BY <1>1, <1>2, <1>3
<1>5. k.left \in Seq(Looks) /\ ~IsSearch(k.left) /\ ~IsSearch(j.left)
  BY <1>4, RowIsNoSearch
<1>6. k \in Jobs /\ k.req = j.req /\ k.knew = j.knew
  BY <1>5, AfterFields DEF Shape
<1>7. Shape(k)
  BY <1>4, <1>6 DEF Shape
<1>8. k.left # <<>> => Head(k.left) = <<"page", kind>>
  BY <1>1, <1>2
<1>9. ~(k.left # <<>> /\ Free(k))
  BY <1>8 DEF Free
<1>10. j.left # <<>>
  BY DEF After
<1>11. Worth(j) = Len(j.left) - IF Free(j) THEN 1 ELSE 0
  BY <1>5, <1>10 DEF Worth
<1>12. Worth(k) \in Nat /\ Worth(k) <= Len(j.left) - 1
  <2>1. CASE k.left = <<>>
    <3>1. Len(j.left) > 0
      BY <1>1, <1>10 DEF Shape, Jobs
    <3>2. QED
      BY <1>1, <2>1, <3>1 DEF Worth
  <2>2. CASE k.left # <<>>
    <3>1. Worth(k) = Len(k.left) - 0
      BY <1>5, <1>9, <2>2 DEF Worth
    <3>2. Len(k.left) = Len(j.left) - 1 /\ Len(k.left) \in Nat
      BY <1>1, <1>2, <1>5, <2>2, LenProperties
    <3>3. QED
      BY <3>1, <3>2
  <2>3. QED
    BY <2>1, <2>2
<1>13. Worth(k) <= Worth(j) - IF Free(j) THEN 0 ELSE 1
  <2>1. CASE Free(j)
    BY <1>1, <1>11, <1>12, <2>1
  <2>2. CASE ~Free(j)
    BY <1>1, <1>11, <1>12, <2>2
  <2>3. QED
    BY <2>1, <2>2
<1>14. StillWaits(j) = IF Head(j.left)[1] = "genre" THEN 2 * Short ELSE Short
  BY <1>5, <1>10 DEF StillWaits
<1>15. StillWaits(k) = IF k.left = <<>> THEN 0 ELSE Short
  BY <1>5, <1>6, <1>8 DEF StillWaits
<1>16. Deadline(Head(j.left)[1]) = Short
  BY <1>1 DEF Deadline
<1>17. ~found /\ Head(j.left)[1] # "genre" => k.left = <<>>
  BY <1>1 DEF After, Left
<1>18. StillWaits(k) <= StillWaits(j)
  BY <1>14, <1>15, WaitsTyped
<1>19. ~found => StillWaits(k) <= StillWaits(j) - Short
  BY <1>14, <1>15, <1>17, WaitsTyped
<1>20. QED
  BY <1>5, <1>7, <1>13, <1>16, <1>18, <1>19 DEF Eased

LEMMA TitlesEased ==
    ASSUME NEW j, NEW k, NEW found \in BOOLEAN, Shape(j), After(j, k, found),
           j.req.op \in {"text", "card"}, ~j.knew, IsTitles(j.left)
    PROVE  Eased(j, k, found)
<1> DEFINE rest == Tail(j.left)
<1>1. j.left # <<>>
  BY DEF After
<1>2. /\ Head(j.left) \in Steps /\ Len(j.left) \in Nat /\ Len(rest) = Len(j.left) - 1
      /\ IsTitles(rest)
  BY <1>1, TitleLook
<1>3. /\ TitleWaits(j.left) \in Nat /\ TitleWaits(rest) \in Nat
      /\ Deadline(Head(j.left)[1]) \in Nat
      /\ TitleWaits(rest) <= TitleWaits(j.left)
  BY <1>1, <1>2, TitleWaitsFall, WaitsTyped DEF Deadline
<1>4. /\ IsTitles(k.left) /\ Len(k.left) \in Nat /\ Len(k.left) <= Len(j.left) - 1
      /\ TitleWaits(k.left) <= TitleWaits(j.left)
      /\ ~found => TitleWaits(k.left) <= TitleWaits(j.left) - Deadline(Head(j.left)[1])
  <2>1. CASE ~found /\ Head(j.left) = <<"details", "movie">>
    <3>1. k.left = Tail(rest)
      <4>1. Head(j.left)[1] = "details" /\ Head(j.left)[2] = "movie" /\ ~found
        BY <2>1
      <4>2. QED
        BY <4>1 DEF After, Left
    <3>2. rest # <<>>
      BY <1>1, <2>1, TitleLook
    <3>3. /\ IsTitles(Tail(rest)) /\ Len(rest) \in Nat /\ Len(Tail(rest)) = Len(rest) - 1
      BY <1>2, <3>2, TitleLook
    <3>4. Len(rest) > 0
      BY <1>2, <3>2 DEF IsTitles
    <3>5. TitleWaits(Tail(rest)) = TitleWaits(j.left) - Deadline(Head(j.left)[1])
      BY <1>1, <2>1, TitleWaitsFall
    <3>6. Len(Tail(rest)) \in Nat /\ Len(Tail(rest)) <= Len(j.left) - 1
      <4>1. Len(rest) = Len(j.left) - 1 /\ Len(j.left) \in Nat
        BY <1>2
      <4>2. Len(Tail(rest)) = Len(rest) - 1 /\ Len(rest) \in Nat
        BY <3>3
      <4> HIDE DEF rest
      <4>3. QED
        BY <3>4, <4>1, <4>2
    <3>7. TitleWaits(Tail(rest)) <= TitleWaits(j.left)
      BY <1>3, <3>5
    <3>8. TitleWaits(Tail(rest)) <= TitleWaits(j.left) - Deadline(Head(j.left)[1])
      BY <1>3, <3>5
    <3>9. QED
      BY <3>1, <3>3, <3>6, <3>7, <3>8
  <2>2. CASE found \/ Head(j.left) # <<"details", "movie">>
    <3>1. k.left = rest
      <4>1. Head(j.left)[1] \in {"ext", "details", "genre"} /\ Head(j.left)[2] \in Kinds
        BY <1>2 DEF Steps
      <4>2. Head(j.left)[1] = "details" => found \/ Head(j.left)[2] = "tv"
        BY <1>2, <2>2 DEF Steps, Kinds
      <4>3. QED
        BY <4>1, <4>2 DEF After, Left
    <3>2. Len(rest) \in Nat
      BY <1>2, LenProperties DEF IsTitles
    <3>3. ~found => TitleWaits(rest) = TitleWaits(j.left) - Deadline(Head(j.left)[1])
      BY <1>1, <2>2, TitleWaitsFall
    <3>4. QED
      BY <1>2, <1>3, <3>1, <3>2, <3>3
  <2>3. QED
    BY <2>1, <2>2
<1>5. k.left \in Seq(Looks) /\ ~IsSearch(k.left) /\ ~IsSearch(j.left)
  BY <1>4, TitlesAreNoSearch
<1>6. k \in Jobs /\ k.req = j.req /\ k.knew = j.knew
  BY <1>5, AfterFields DEF Shape
<1>7. Shape(k)
  BY <1>4, <1>6 DEF Shape
<1>8. Worth(j) = Len(j.left) /\ ~Free(j)
  BY <1>1, <1>2, <1>5 DEF Worth, Free
<1>9. Worth(k) <= Len(j.left) - 1
  <2>1. CASE k.left = <<>>
    BY <1>4, <2>1 DEF Worth
  <2>2. CASE k.left # <<>>
    BY <1>4, <1>5, <1>6, <2>2 DEF Worth, Free
  <2>3. QED
    BY <2>1, <2>2
<1>10. StillWaits(j) = TitleWaits(j.left)
  BY <1>1, <1>5 DEF StillWaits
<1>11. StillWaits(k) = IF k.left = <<>> THEN 0 ELSE TitleWaits(k.left)
  BY <1>5, <1>6 DEF StillWaits
<1>12. TitleWaits(<<>>) = 0
  <2>1. Len(Kept(<<>>, Slow)) = 0 /\ Fresh(<<>>)
    <3>1. Len(<<>>) = 0
      OBVIOUS
    <3>2. Len(Kept(<<>>, Slow)) = 0
      BY <3>1, KeptEmpty, Zenon
    <3>3. Fresh(<<>>)
      BY <3>1 DEF Fresh
    <3>4. QED
      BY <3>2, <3>3
  <2>2. QED
    BY <2>1, WaitsTyped DEF TitleWaits
<1>13. StillWaits(k) = TitleWaits(k.left)
  BY <1>11, <1>12
<1>14. QED
  BY <1>4, <1>5, <1>7, <1>8, <1>9, <1>10, <1>13 DEF Eased

LEMMA SearchEased ==
    ASSUME NEW j, NEW k, NEW found \in BOOLEAN, Shape(j), After(j, k, found),
           j.req.op = "text", j.req.n \in Nat, ~j.knew, IsSearch(j.left)
    PROVE  Eased(j, k, found)
<1> DEFINE n == IF found THEN j.req.n ELSE 0
           titles == TitlesLookups(n)
<1>1. j.left # <<>> /\ Head(j.left) = <<"search", "any">>
  BY SearchAlone
<1>2. k.left = titles
  BY <1>1 DEF After, Left
<1>3. n \in Nat /\ LesserOf(n, Len(FoundKinds)) \in Nat
  BY RequestsAssumption, LenProperties DEF LesserOf
<1>4. /\ IsTitles(titles) /\ Fresh(titles)
      /\ Len(Kept(titles, Slow)) = 2 * LesserOf(n, Len(FoundKinds))
      /\ n = 0 => titles = <<>>
  BY <1>3, TitlesLookupsTyped
<1> HIDE DEF titles
<1>5. titles \in Seq(Looks) /\ ~IsSearch(titles) /\ Len(titles) \in Nat
  BY <1>4, TitlesAreNoSearch, LenProperties
<1>6. k \in Jobs /\ k.req = j.req /\ k.knew = j.knew
  BY <1>2, <1>5, AfterFields DEF Shape
<1>7. Shape(k)
  BY <1>2, <1>4, <1>6 DEF Shape
<1>8. Worth(j) = 1 + Len(TitlesLookups(j.req.n)) /\ ~Free(j)
  BY <1>1 DEF Worth, Free
<1>9. Worth(k) = IF titles = <<>> THEN 0 ELSE Len(titles)
  BY <1>2, <1>5, <1>6 DEF Worth, Free
<1>10. Worth(k) <= Worth(j) - 1
  <2>1. Len(TitlesLookups(j.req.n)) \in Nat
    BY TitlesLookupsTyped, LenProperties DEF IsTitles
  <2>2. CASE found
    <3>1. Len(titles) = Len(TitlesLookups(j.req.n))
      BY <2>2 DEF titles
    <3>2. QED
      BY <1>5, <1>8, <1>9, <2>1, <3>1
  <2>3. CASE ~found
    BY <1>4, <1>8, <1>9, <2>1, <2>3
  <2>4. QED
    BY <2>2, <2>3
<1>11. StillWaits(j) = Long
  BY <1>1 DEF StillWaits
<1>12. StillWaits(k) = IF titles = <<>> THEN 0 ELSE TitleWaits(titles)
  BY <1>2, <1>5, <1>6 DEF StillWaits
<1>13. Deadline(Head(j.left)[1]) = Long
  BY <1>1 DEF Deadline
<1>14. ~found => StillWaits(k) = 0
  BY <1>4, <1>12
<1>15. found => StillWaits(k) <= Patience(j.req)
  <2> SUFFICES ASSUME found PROVE StillWaits(k) <= Patience(j.req)
    OBVIOUS
  <2> DEFINE m == LesserOf(j.req.n, Len(FoundKinds))
             g == GreaterOf(1, m)
  <2>1. m \in Nat /\ g \in Nat /\ m <= g
    BY <1>3 DEF GreaterOf
  <2>2. Patience(j.req) = 2 * Long * g
    BY DEF Patience
  <2>3. TitleWaits(titles) = Long * (2 * m)
    <3>1. TitleWaits(titles) = Long * (2 * m) + 0
      BY <1>4 DEF TitleWaits
    <3> HIDE DEF m
    <3>2. QED
      BY <2>1, <3>1, WaitsTyped
  <2> HIDE DEF m, g
  <2>4. Long * (2 * m) <= 2 * Long * g
    <3>1. PICK d \in Nat : g = m + d
      BY <2>1
    <3>2. Long * d \in Nat /\ Long * m \in Nat
      BY <2>1, WaitsTyped
    <3>3. 2 * Long * g = Long * (2 * m) + 2 * (Long * d)
      BY <2>1, <3>1, WaitsTyped
    <3>4. Long * (2 * m) \in Int
      BY <2>1, WaitsTyped
    <3>5. QED
      BY <3>2, <3>3, <3>4
  <2>5. 0 <= 2 * Long * g
    BY <2>1, WaitsTyped
  <2>6. QED
    BY <1>12, <2>2, <2>3, <2>4, <2>5
<1>16. QED
  BY <1>2, <1>5, <1>7, <1>8, <1>10, <1>11, <1>13, <1>14, <1>15, WaitsTyped DEF Eased

LEMMA LookupEases ==
    ASSUME NEW j, NEW k, NEW found \in BOOLEAN, Shape(j), After(j, k, found)
    PROVE  Eased(j, k, found)
<1>1. Working(j)
  BY ShapeIsWork
<1>2. QED
  BY <1>1, RowEased, TitlesEased, SearchEased DEF Working

-----------------------------------------------------------------------------
(* The budget of a request, from its plan to its answer                    *)

LEMMA FineStart ==
    ASSUME NEW req \in Requests, NEW tables, NEW t, NEW knew \in BOOLEAN,
           knew => req.op = "row" /\ req.kind \in tables
    PROVE  Fine([req |-> req, left |-> Plan(req), calls |-> 0, dry |-> 0,
                 flight |-> 0, knew |-> knew], "idle", t, tables)
<1> DEFINE j == [req |-> req, left |-> Plan(req), calls |-> 0, dry |-> 0,
                 flight |-> 0, knew |-> knew]
<1>1. /\ j.req = req /\ j.left = Plan(req) /\ j.calls = 0 /\ j.dry = 0 /\ j.knew = knew
      /\ Plan(req) \in Seq(Looks) => j \in Jobs
  BY DEF Jobs
<1>2. Knows(j, "idle", tables)
  BY <1>1 DEF Knows
<1> HIDE DEF j
<1>3. SUFFICES ASSUME Plan(req) \in Seq(Looks)
               PROVE  Shape(j) /\ j.calls + Worth(j) <= Limit(j) /\ StillWaits(j) <= Patience(req)
  <2>1. Plan(req) \in Seq(Looks)
    <3>1. CASE req.op = "row"
      <4>1. req.kind \in Kinds /\ req.pages \in Nat
        BY <3>1, RequestTyped
      <4>2. Plan(req) = <<<<"genre", req.kind>>>> \o [p \in 1 .. req.pages |-> <<"page", req.kind>>]
        BY <3>1 DEF Plan
      <4>3. [p \in 1 .. req.pages |-> <<"page", req.kind>>] \in Seq(Looks)
        BY <4>1 DEF Looks
      <4>4. <<<<"genre", req.kind>>>> \in Seq(Looks)
        BY <4>1 DEF Looks
      <4>5. QED
        BY <4>2, <4>3, <4>4, ConcatProperties
    <3>2. CASE req.op = "text"
      <4>1. IsSearch(Plan(req))
        BY <3>2 DEF Plan, IsSearch
      <4>2. QED
        BY <4>1, SearchAlone
    <3>3. CASE req.op = "card"
      <4>1. Plan(req) = TitleLookups(req.kind) /\ req.kind \in Kinds
        BY <3>3, RequestTyped DEF Plan
      <4>2. QED
        BY <4>1, TitleLookupsTyped, TitlesAreNoSearch
    <3>4. QED
      BY <3>1, <3>2, <3>3, RequestTyped
  <2>2. ASSUME Shape(j), j.calls + Worth(j) <= Limit(j), StillWaits(j) <= Patience(req)
        PROVE  Fine(j, "idle", t, tables)
    <3>1. Counted(j, "idle")
      BY <2>2 DEF Counted, InCall
    <3>2. StillWaits(j) \in Nat
      BY <2>2, ShapeIsNumbered DEF Numbered
    <3>3. Patient(j, "idle", t)
      BY <1>1, <2>2, <3>2 DEF Patient, Waiting, InCall
    <3>4. QED
      BY <1>2, <2>2, <3>1, <3>3 DEF Fine
  <2>3. QED
    BY <2>1, <2>2 DEF j
<1>4. CASE req.op = "row"
  <2> DEFINE pages == [p \in 1 .. req.pages |-> <<"page", req.kind>>]
             first == <<"genre", req.kind>>
             S == {"genre", "page"} \X {req.kind}
  <2>1. req.kind \in Kinds /\ req.pages \in Nat
    BY <1>4, RequestTyped
  <2>2. PICK plan : plan = Plan(req)
    OBVIOUS
  <2>3. plan = <<first>> \o pages
    BY <1>4, <2>2 DEF Plan
  <2>4. pages \in Seq(S) /\ Len(pages) = req.pages
        /\ \A i \in 1 .. req.pages : pages[i] = <<"page", req.kind>>
    BY <2>1
  <2>5. <<first>> \in Seq(S) /\ Len(<<first>>) = 1 /\ <<first>>[1] = first
    OBVIOUS
  <2> HIDE DEF pages
  <2>6. /\ plan \in Seq(S) /\ Len(plan) = 1 + req.pages
        /\ \A i \in 1 .. 1 + req.pages :
              plan[i] = IF i <= 1 THEN <<first>>[i] ELSE pages[i - 1]
    BY <2>1, <2>3, <2>4, <2>5, ConcatProperties
  <2>7. plan[1] = first /\ \A i \in 2 .. 1 + req.pages : plan[i] = <<"page", req.kind>>
    BY <2>1, <2>4, <2>5, <2>6
  <2>8. IsRow(plan, req.kind)
    BY <2>6, <2>7 DEF IsRow
  <2>9. plan # <<>> /\ Head(plan) = first /\ ~IsSearch(plan)
    <3>1. Len(plan) > 0
      BY <2>1, <2>6
    <3>2. plan # <<>>
      BY <3>1
    <3>3. Head(plan) = plan[1]
      BY <2>6, <3>2, HeadTailProperties
    <3>4. ~IsSearch(plan)
      BY <2>1, <2>8, RowIsNoSearch
    <3>5. QED
      BY <2>7, <3>2, <3>3, <3>4
  <2>10. j.left = plan /\ j \in Jobs
    BY <1>1, <1>3, <2>2
  <2>11. Shape(j)
    BY <1>1, <1>4, <2>8, <2>10 DEF Shape
  <2>12. Worth(j) = (1 + req.pages) - IF knew THEN 1 ELSE 0
    BY <1>1, <2>6, <2>9, <2>10 DEF Worth, Free
  <2>13. Limit(j) = (1 + req.pages) - IF knew THEN 1 ELSE 0
    BY <1>1, <1>4 DEF Limit, Lookups
  <2>14. j.calls + Worth(j) <= Limit(j)
    BY <1>1, <2>1, <2>12, <2>13
  <2>15. StillWaits(j) = 2 * Short
    BY <1>1, <1>4, <2>9, <2>10 DEF StillWaits
  <2>16. Patience(req) = 2 * Short
    BY <1>4 DEF Patience
  <2>17. QED
    BY <2>11, <2>14, <2>15, <2>16, WaitsTyped
<1>5. CASE req.op = "text"
  <2>1. req.n \in Nat
    BY <1>5, RequestTyped
  <2>2. IsSearch(Plan(req))
    BY <1>5 DEF Plan, IsSearch
  <2>3. Shape(j) /\ ~knew
    BY <1>1, <1>3, <1>5, <2>2 DEF Shape
  <2>4. j.left # <<>>
    BY <1>1, <2>2, SearchAlone
  <2>5. Worth(j) = 1 + Len(TitlesLookups(req.n)) /\ StillWaits(j) = Long
    BY <1>1, <2>2, <2>4 DEF Worth, StillWaits
  <2>6. Limit(j) = 1 + Len(TitlesLookups(req.n)) - 0
    BY <1>1, <1>5, <2>3 DEF Limit, Lookups
  <2>7. Len(TitlesLookups(req.n)) \in Nat
    BY <2>1, TitlesLookupsTyped, LenProperties DEF IsTitles
  <2> DEFINE g == GreaterOf(1, LesserOf(req.n, Len(FoundKinds)))
  <2>8. g \in Nat /\ g >= 1
    BY <2>1, RequestsAssumption, LenProperties DEF GreaterOf, LesserOf
  <2>9. Patience(req) = 2 * Long * g
    BY <1>5 DEF Patience
  <2> HIDE DEF g
  <2>10. Long <= 2 * Long * g
    <3>1. PICK h \in Nat : g = 1 + h
      BY <2>8
    <3>2. Long * h \in Nat
      BY WaitsTyped
    <3>3. 2 * Long * g = 2 * Long + 2 * (Long * h)
      BY <3>1, WaitsTyped
    <3>4. QED
      BY <3>2, <3>3, WaitsTyped
  <2>11. QED
    BY <1>1, <2>3, <2>5, <2>6, <2>7, <2>9, <2>10
<1>6. CASE req.op = "card"
  <2>1. req.kind \in Kinds
    BY <1>6, RequestTyped
  <2>2. PICK plan : plan = Plan(req)
    OBVIOUS
  <2>3. plan = TitleLookups(req.kind)
    BY <1>6, <2>2 DEF Plan
  <2>4. IsTitles(plan) /\ Fresh(plan) /\ Len(Kept(plan, Slow)) = 2 /\ Len(plan) \in Nat
    BY <2>1, <2>3, TitleLookupsTyped, LenProperties DEF IsTitles
  <2>5. ~IsSearch(plan)
    BY <2>4, TitlesAreNoSearch
  <2>6. j.left = plan /\ j \in Jobs /\ ~knew
    BY <1>1, <1>3, <1>6, <2>2
  <2>7. Shape(j)
    BY <1>1, <1>6, <2>4, <2>6 DEF Shape
  <2>8. Limit(j) = Len(plan) - 0
    BY <1>1, <1>6, <2>3, <2>6 DEF Limit, Lookups
  <2>9. Worth(j) = 0 \/ Worth(j) = Len(plan) - 0
    BY <1>1, <2>5, <2>6 DEF Worth, Free
  <2>10. StillWaits(j) = 0 \/ StillWaits(j) = TitleWaits(plan)
    BY <1>1, <1>6, <2>5, <2>6 DEF StillWaits
  <2>11. TitleWaits(plan) = 2 * Long
    BY <2>4, WaitsTyped DEF TitleWaits
  <2>12. Patience(req) = 2 * Long
    BY <1>6 DEF Patience
  <2>13. QED
    BY <1>1, <2>4, <2>7, <2>8, <2>9, <2>10, <2>11, <2>12, WaitsTyped
<1>7. QED
  BY <1>4, <1>5, <1>6, RequestTyped

LEMMA FineTyped ==
    ASSUME NEW j, NEW p, NEW t, NEW tables, Fine(j, p, t, tables)
    PROVE  /\ j \in Jobs /\ j.calls \in Nat /\ j.dry \in Nat /\ j.req \in Requests
           /\ j.knew \in BOOLEAN
           /\ Lookups(j.req) \in Nat /\ Limit(j) \in Int /\ Patience(j.req) \in Nat
           /\ Numbered(j)
<1>1. Shape(j) /\ j \in Jobs
  BY DEF Fine, Shape
<1>2. j.calls \in Nat /\ j.dry \in Nat /\ j.req \in Requests /\ j.knew \in BOOLEAN
  BY <1>1 DEF Jobs
<1>3. QED
  BY <1>1, <1>2, LimitTyped, ShapeIsNumbered

LEMMA FineLookup ==
    ASSUME NEW j, NEW k, NEW p \in {"idle", "expired"} \cup InCall, NEW t, NEW t2,
           NEW tables, NEW tables2, NEW found \in BOOLEAN,
           tables \subseteq tables2, Fine(j, p, t, tables), After(j, k, found),
           p = "idle" => found, p = "expired" => ~found
    PROVE  Fine(k, "idle", t2, tables2)
<1>1. /\ j \in Jobs /\ j.calls \in Nat /\ j.dry \in Nat
      /\ Limit(j) \in Int /\ Patience(j.req) \in Nat /\ Numbered(j)
  BY FineTyped
<1>2. Shape(j) /\ Counted(j, p) /\ Patient(j, p, t) /\ Knows(j, p, tables)
  BY DEF Fine
<1>3. Eased(j, k, found)
  BY <1>2, LookupEases
<1>4. Shape(k) /\ k.left \in Seq(Looks)
  BY <1>3 DEF Eased, Shape, Jobs
<1>5. k.req = j.req /\ k.knew = j.knew /\ k.calls = j.calls /\ k.dry = j.dry
  BY <1>1, <1>4, AfterFields
<1>6. Limit(k) = Limit(j)
  BY <1>5 DEF Limit
<1>7. Worth(j) \in Nat /\ Worth(k) \in Nat /\ StillWaits(j) \in Nat /\ StillWaits(k) \in Nat
  BY <1>1, <1>4, ShapeIsNumbered DEF Numbered
<1>8. j.left # <<>> /\ Deadline(Head(j.left)[1]) \in Nat
  BY <1>1 DEF After, Numbered
<1>9. p # "idle" => ~Free(j)
  BY <1>2, <1>8 DEF Knows, Free
<1>10. Worth(k) <= Worth(j) /\ (p # "idle" => Worth(k) <= Worth(j) - 1)
  BY <1>3, <1>7, <1>9 DEF Eased
<1>11. Counted(k, "idle")
  <2>1. CASE p \in InCall
    <3>1. p # "idle"
      BY <2>1 DEF InCall
    <3>2. j.calls + Worth(j) <= Limit(j) + 1
      BY <1>2, <2>1 DEF Counted
    <3>3. j.calls + Worth(k) <= Limit(j)
      BY <1>1, <1>7, <1>10, <3>1, <3>2
    <3>4. QED
      BY <1>5, <1>6, <3>3 DEF Counted, InCall
  <2>2. CASE p \notin InCall
    <3>1. j.calls + Worth(j) <= Limit(j)
      BY <1>2, <2>2 DEF Counted
    <3>2. j.calls + Worth(k) <= Limit(j)
      BY <1>1, <1>7, <1>10, <3>1
    <3>3. QED
      BY <1>5, <1>6, <3>2 DEF Counted, InCall
  <2>3. QED
    BY <2>1, <2>2
<1>12. StillWaits(j) <= Patience(j.req)
  BY <1>2 DEF Patient
<1>13. StillWaits(k) <= Patience(j.req)
  BY <1>1, <1>3, <1>7, <1>12 DEF Eased
<1>14. j.dry + StillWaits(k) <= Patience(j.req)
  <2>1. CASE p \in InCall
    <3>1. j.dry = 0
      BY <1>2, <2>1 DEF Patient
    <3>2. QED
      BY <1>7, <1>13, <3>1
  <2>2. CASE p = "idle"
    <3>1. /\ j.dry + StillWaits(j) <= Patience(j.req)
          /\ IsSearch(j.left) => j.dry = 0
      BY <1>2, <2>2 DEF Patient
    <3>2. IsSearch(j.left) \/ StillWaits(k) <= StillWaits(j)
      BY <1>3 DEF Eased
    <3>3. QED
      BY <1>1, <1>7, <1>13, <3>1, <3>2
  <2>3. CASE p = "expired"
    <3>1. j.dry + StillWaits(j) - Deadline(Head(j.left)[1]) <= Patience(j.req)
      BY <1>2, <2>3 DEF Patient
    <3>2. StillWaits(k) <= StillWaits(j) - Deadline(Head(j.left)[1])
      BY <1>3, <2>3 DEF Eased
    <3>3. QED
      BY <1>1, <1>7, <1>8, <3>1, <3>2
  <2>4. QED
    BY <2>1, <2>2, <2>3
<1>15. Patient(k, "idle", t2)
  BY <1>3, <1>5, <1>13, <1>14 DEF Patient, Eased, Waiting, InCall
<1>16. Knows(k, "idle", tables2)
  BY <1>2, <1>5 DEF Knows
<1>17. QED
  BY <1>4, <1>11, <1>15, <1>16 DEF Fine

\* The lookup asks for a permit; a row that knew its table is past it.
LEMMA FineAsk ==
    ASSUME NEW j, NEW t, NEW tables, Fine(j, "idle", t, tables), j.left # <<>>,
           Head(j.left)[1] = "genre" => Head(j.left)[2] \notin tables
    PROVE  Fine(j, "attempt", Deadline(Head(j.left)[1]), tables)
<1>1. /\ j \in Jobs /\ j.dry \in Nat /\ Patience(j.req) \in Nat /\ Numbered(j)
      /\ Shape(j) /\ Counted(j, "idle") /\ Patient(j, "idle", t) /\ Knows(j, "idle", tables)
  BY FineTyped DEF Fine
<1>2. Counted(j, "attempt")
  BY <1>1 DEF Counted, InCall
<1>3. StillWaits(j) \in Nat /\ Deadline(Head(j.left)[1]) \in Nat
  BY <1>1 DEF Numbered
<1>4. StillWaits(j) <= Patience(j.req) /\ j.dry + StillWaits(j) <= Patience(j.req)
  BY <1>1 DEF Patient
<1> DEFINE d == Deadline(Head(j.left)[1])
<1>5. d >= 0 /\ j.dry + d + StillWaits(j) - d <= Patience(j.req)
  BY <1>1, <1>3, <1>4
<1>6. Patient(j, "attempt", d)
  BY <1>4, <1>5 DEF Patient, InCall, Waiting
<1>7. j.knew => ~Free(j)
  <2> SUFFICES ASSUME j.knew, Head(j.left)[1] = "genre" PROVE FALSE
    BY DEF Free
  <2>1. j.req.op = "row" /\ IsRow(j.left, j.req.kind) /\ j.req.kind \in tables
    BY <1>1 DEF Shape, Knows
  <2>2. j.req.kind \in Kinds
    BY <1>1, <2>1, RequestTyped DEF Jobs
  <2>3. Head(j.left) = <<"genre", j.req.kind>>
    BY <2>1, <2>2, RowLook
  <2>4. QED
    BY <2>1, <2>3
<1>8. Knows(j, "attempt", tables)
  BY <1>1, <1>7 DEF Knows
<1>9. QED
  BY <1>1, <1>2, <1>6, <1>8 DEF Fine

LEMMA FineGrant ==
    ASSUME NEW j, NEW t, NEW t2, NEW tables, Fine(j, "attempt", t, tables)
    PROVE  Fine([j EXCEPT !.calls = @ + 1, !.dry = 0, !.flight = 0], "granted", t2, tables)
<1> DEFINE k == [j EXCEPT !.calls = @ + 1, !.dry = 0, !.flight = 0]
<1>1. /\ j \in Jobs /\ j.calls \in Nat /\ Limit(j) \in Int /\ Numbered(j)
      /\ Shape(j) /\ Counted(j, "attempt") /\ Patient(j, "attempt", t)
      /\ Knows(j, "attempt", tables) /\ j.left # <<>>
  BY FineTyped DEF Fine
<1>2. /\ k \in Jobs /\ k.req = j.req /\ k.left = j.left /\ k.knew = j.knew
      /\ k.calls = j.calls + 1 /\ k.dry = 0
  <2> DEFINE one == [j EXCEPT !.calls = @ + 1]
             two == [one EXCEPT !.dry = 0]
             three == [two EXCEPT !.flight = 0]
  <2>1. j \in Jobs /\ j.calls \in Nat
    BY <1>1
  <2>2. one \in Jobs
    BY <2>1 DEF Jobs
  <2>3. two \in Jobs /\ three \in Jobs
    <3> HIDE DEF one
    <3>1. two \in Jobs
      BY <2>2 DEF Jobs
    <3> HIDE DEF two
    <3>2. QED
      BY <3>1 DEF Jobs
  <2>4. three = k
    BY <2>1 DEF Jobs
  <2>5. /\ one.req = j.req /\ one.left = j.left /\ one.knew = j.knew /\ one.calls = j.calls + 1
    BY <2>1 DEF Jobs
  <2> HIDE DEF one
  <2>6. /\ two.req = j.req /\ two.left = j.left /\ two.knew = j.knew
        /\ two.calls = j.calls + 1 /\ two.dry = 0
    BY <2>2, <2>5 DEF Jobs
  <2> HIDE DEF two
  <2>7. QED
    BY <2>3, <2>4, <2>6 DEF Jobs
<1> HIDE DEF k
<1>3. Shape(k)
  BY <1>1, <1>2 DEF Shape
<1>4. Limit(k) = Limit(j) /\ Worth(k) = Worth(j) /\ StillWaits(k) = StillWaits(j)
      /\ (Free(k) <=> Free(j))
  BY <1>2 DEF Limit, Worth, StillWaits, Free
<1>5. Worth(j) \in Nat /\ j.calls + Worth(j) <= Limit(j)
  BY <1>1 DEF Numbered, Counted, InCall
<1>6. Counted(k, "granted")
  BY <1>1, <1>2, <1>4, <1>5 DEF Counted, InCall
<1>7. Patient(k, "granted", t2)
  BY <1>1, <1>2, <1>4 DEF Patient, Waiting
<1>8. Knows(k, "granted", tables)
  BY <1>1, <1>2, <1>4 DEF Knows
<1>9. QED
  BY <1>1, <1>2, <1>3, <1>6, <1>7, <1>8 DEF Fine, k

\* A waiter moves on to wait, and gives up when its deadline has passed.
LEMMA FineWait ==
    ASSUME NEW j, NEW p \in Waiting, NEW q \in Waiting \cup {"expired"}, NEW t \in Int,
           NEW tables, NEW tables2, tables \subseteq tables2,
           Fine(j, p, t, tables), q = "expired" => t <= 0
    PROVE  Fine(j, q, t, tables2)
<1>1. /\ j \in Jobs /\ j.dry \in Nat /\ Patience(j.req) \in Nat /\ Numbered(j)
      /\ Shape(j) /\ Counted(j, p) /\ Patient(j, p, t) /\ Knows(j, p, tables)
      /\ j.left # <<>>
  BY FineTyped DEF Fine, Waiting
<1>2. p \notin InCall /\ q \notin InCall /\ q # "idle" /\ p # "idle"
  BY DEF Waiting, InCall
<1>3. Counted(j, q)
  BY <1>1, <1>2 DEF Counted
<1>4. Knows(j, q, tables2)
  BY <1>1, <1>2 DEF Knows
<1> DEFINE d == Deadline(Head(j.left)[1])
<1>5. StillWaits(j) <= Patience(j.req) /\ t >= 0
      /\ j.dry + t + StillWaits(j) - d <= Patience(j.req)
  BY <1>1 DEF Patient
<1>6. StillWaits(j) \in Nat /\ d \in Nat
  BY <1>1 DEF Numbered
<1>7. q = "expired" => j.dry + StillWaits(j) - d <= Patience(j.req)
  BY <1>1, <1>5, <1>6
<1>8. Patient(j, q, t)
  BY <1>2, <1>5, <1>7 DEF Patient, Waiting
<1>9. QED
  BY <1>1, <1>3, <1>4, <1>8 DEF Fine

\* A request that is not waiting does not look at its deadline.
LEMMA FineElsewhere ==
    ASSUME NEW j, NEW p \in PCs, NEW q \in PCs, p = q \/ {p, q} \subseteq InCall,
           p \notin Waiting, NEW t, NEW t2, NEW tables, NEW tables2,
           tables \subseteq tables2, Fine(j, p, t, tables)
    PROVE  Fine(j, q, t2, tables2)
<1>1. /\ Shape(j) /\ Counted(j, p) /\ Patient(j, p, t) /\ Knows(j, p, tables)
      /\ p # "idle" => j.left # <<>>
  BY DEF Fine
<1>2. q \notin Waiting /\ (q = "idle" <=> p = "idle") /\ (q = "expired" <=> p = "expired")
      /\ (q \in InCall <=> p \in InCall)
  BY DEF InCall, Waiting
<1>3. Counted(j, q) /\ Patient(j, q, t2) /\ Knows(j, q, tables2)
  BY <1>1, <1>2 DEF Counted, Patient, Knows
<1>4. QED
  BY <1>1, <1>2, <1>3 DEF Fine

\* A tick of a wait and of a call.
LEMMA FineTick ==
    ASSUME NEW j, NEW t \in Int, NEW tables, Fine(j, "sleeping", t, tables), t > 0
    PROVE  Fine([j EXCEPT !.dry = @ + 1], "sleeping", t - 1, tables)
<1> DEFINE k == [j EXCEPT !.dry = @ + 1]
<1>1. /\ j \in Jobs /\ j.dry \in Nat /\ Patience(j.req) \in Nat /\ Numbered(j)
      /\ Shape(j) /\ Counted(j, "sleeping") /\ Patient(j, "sleeping", t)
      /\ Knows(j, "sleeping", tables) /\ j.left # <<>>
  BY FineTyped DEF Fine
<1>2. /\ k \in Jobs /\ k.req = j.req /\ k.left = j.left /\ k.knew = j.knew
      /\ k.calls = j.calls /\ k.dry = j.dry + 1
  BY <1>1 DEF Jobs
<1> HIDE DEF k
<1>3. Limit(k) = Limit(j) /\ Worth(k) = Worth(j) /\ StillWaits(k) = StillWaits(j)
      /\ (Free(k) <=> Free(j))
  BY <1>2 DEF Limit, Worth, StillWaits, Free
<1>4. Shape(k) /\ Counted(k, "sleeping") /\ Knows(k, "sleeping", tables)
  BY <1>1, <1>2, <1>3 DEF Shape, Counted, Knows
<1> DEFINE d == Deadline(Head(j.left)[1])
<1>5. StillWaits(j) \in Nat /\ d \in Nat
  BY <1>1 DEF Numbered
<1>6. StillWaits(j) <= Patience(j.req) /\ j.dry + t + StillWaits(j) - d <= Patience(j.req)
  BY <1>1 DEF Patient, Waiting
<1>7. t - 1 >= 0 /\ (j.dry + 1) + (t - 1) + StillWaits(j) - d <= Patience(j.req)
  BY <1>1, <1>5, <1>6
<1>8. Patient(k, "sleeping", t - 1)
  BY <1>2, <1>3, <1>6, <1>7 DEF Patient, InCall
<1>9. QED
  BY <1>1, <1>2, <1>4, <1>8 DEF Fine, k

LEMMA FineFlight ==
    ASSUME NEW j, NEW t, NEW t2, NEW tables, Fine(j, "granted", t, tables)
    PROVE  Fine([j EXCEPT !.flight = @ + 1], "granted", t2, tables)
<1> DEFINE k == [j EXCEPT !.flight = @ + 1]
<1>1. /\ j \in Jobs /\ Shape(j) /\ Counted(j, "granted") /\ Patient(j, "granted", t)
      /\ Knows(j, "granted", tables) /\ j.left # <<>>
  BY FineTyped DEF Fine
<1>2. /\ k \in Jobs /\ k.req = j.req /\ k.left = j.left /\ k.knew = j.knew
      /\ k.calls = j.calls /\ k.dry = j.dry
  BY <1>1 DEF Jobs
<1> HIDE DEF k
<1>3. Limit(k) = Limit(j) /\ Worth(k) = Worth(j) /\ StillWaits(k) = StillWaits(j)
      /\ (Free(k) <=> Free(j))
  BY <1>2 DEF Limit, Worth, StillWaits, Free
<1>4. Shape(k) /\ Counted(k, "granted") /\ Knows(k, "granted", tables)
  BY <1>1, <1>2, <1>3 DEF Shape, Counted, Knows
<1>5. Patient(k, "granted", t2)
  BY <1>1, <1>2, <1>3 DEF Patient, Waiting
<1>6. QED
  BY <1>1, <1>2, <1>4, <1>5 DEF Fine, k

-----------------------------------------------------------------------------
(* The invariant is kept                                                   *)

\* A step of one caller leaves the others where they are, or wakes them.
Undisturbed(c) ==
    /\ now' = now
    /\ held \subseteq held' /\ held' \subseteq Kinds
    /\ job' \in [Callers -> Jobs \cup {Nobody}]
    /\ \A d \in Callers \ {c} :
          /\ job'[d] = job[d] /\ give_up_at'[d] = give_up_at[d]
          /\ pc'[d] = pc[d] \/ {pc[d], pc'[d]} \subseteq Waiting

LEMMA OthersStayFine ==
    ASSUME TypeOK, RequestInv, NEW c \in Callers, Undisturbed(c), FineAt(c)'
    PROVE  RequestInv'
<1>1. SUFFICES ASSUME NEW d \in Callers, d # c PROVE FineAt(d)'
  BY DEF RequestInv, Undisturbed
<1>2. /\ FineAt(d) /\ now' = now /\ held \subseteq held'
      /\ job'[d] = job[d] /\ give_up_at'[d] = give_up_at[d]
      /\ pc'[d] = pc[d] \/ {pc[d], pc'[d]} \subseteq Waiting
  BY <1>1 DEF Undisturbed, RequestInv
<1>3. CASE job[d] = Nobody
  <2>1. pc[d] = "idle"
    BY <1>2, <1>3 DEF FineAt
  <2>2. pc'[d] = "idle"
    BY <1>2, <2>1 DEF Waiting
  <2>3. QED
    BY <1>2, <1>3, <2>2 DEF FineAt
<1>4. CASE job[d] # Nobody
  <2> DEFINE t == give_up_at[d] - now
  <2>1. t \in Int /\ pc[d] \in PCs
    BY DEF TypeOK
  <2>2. Fine(job[d], pc[d], t, held)
    BY <1>2, <1>4 DEF FineAt
  <2> HIDE DEF t
  <2>3. Fine(job[d], pc'[d], t, held')
    <3>1. CASE {pc[d], pc'[d]} \subseteq Waiting
      <4>1. pc[d] \in Waiting /\ pc'[d] \in Waiting /\ pc'[d] # "expired"
        BY <3>1 DEF Waiting
      <4>2. QED
        BY <1>2, <2>1, <2>2, <4>1, FineWait
    <3>2. CASE pc'[d] = pc[d] /\ pc[d] \notin Waiting
      BY <1>2, <2>1, <2>2, <3>2, FineElsewhere
    <3>3. QED
      BY <1>2, <3>1, <3>2
  <2>4. QED
    BY <1>2, <1>4, <2>3 DEF FineAt, t
<1>5. QED
  BY <1>3, <1>4

LEMMA HasJob ==
    ASSUME RequestInv, NEW c \in Callers, job[c] # Nobody
    PROVE  /\ job[c] \in Jobs /\ Fine(job[c], pc[c], give_up_at[c] - now, held)
           /\ Shape(job[c])
  BY DEF RequestInv, FineAt, Fine

LEMMA InBudgetHasJob ==
    ASSUME RequestInv, NEW c \in Callers, pc[c] # "idle"
    PROVE  job[c] # Nobody /\ job[c].left # <<>>
  BY DEF RequestInv, FineAt, Fine

\* A genre table is of a kind.
LEMMA GenreOfAKind ==
    ASSUME NEW j, Shape(j), j.left # <<>>, Head(j.left)[1] = "genre"
    PROVE  Head(j.left)[2] \in Kinds
<1>1. Working(j)
  BY ShapeIsWork
<1>2. ASSUME j.req.kind \in Kinds, IsRow(j.left, j.req.kind) PROVE Head(j.left)[2] \in Kinds
  <2>1. Head(j.left) \in {<<"genre", j.req.kind>>, <<"page", j.req.kind>>}
    BY <1>2, RowLook
  <2>2. QED
    BY <1>2, <2>1
<1>3. ASSUME IsTitles(j.left) PROVE Head(j.left)[2] \in Kinds
  <2>1. Head(j.left) \in Steps
    BY <1>3, TitleLook
  <2>2. QED
    BY <2>1 DEF Steps
<1>4. ~IsSearch(j.left)
  <2>1. ASSUME IsSearch(j.left) PROVE FALSE
    <3>1. Head(j.left) = <<"search", "any">>
      BY <2>1, SearchAlone
    <3>2. QED
      BY <3>1
  <2>2. QED
    BY <2>1
<1>5. QED
  BY <1>1, <1>2, <1>3, <1>4 DEF Working

\* A lookup that is over.
LEMMA LookedUpStep ==
    ASSUME TypeOK, RequestInv, NEW c \in Callers, NEW found \in BOOLEAN,
           job[c] # Nobody, job[c].left # <<>>,
           pc[c] \in {"idle", "expired"} \cup InCall,
           pc[c] = "idle" => found, pc[c] = "expired" => ~found,
           LookedUp(c, found), pc'[c] = "idle", now' = now,
           held \subseteq held', held' \subseteq Kinds,
           \A d \in Callers \ {c} :
              /\ give_up_at'[d] = give_up_at[d]
              /\ pc'[d] = pc[d] \/ {pc[d], pc'[d]} \subseteq Waiting
    PROVE  RequestInv'
<1>1. job[c] \in Jobs /\ Fine(job[c], pc[c], give_up_at[c] - now, held)
  BY HasJob
<1>2. job \in [Callers -> Jobs \cup {Nobody}]
  BY DEF RequestInv
<1>3. PICK left \in Left(job[c], found) : job' = [job EXCEPT ![c].left = left]
  BY DEF LookedUp
<1> DEFINE k == [job[c] EXCEPT !.left = left]
<1>4. job' = [job EXCEPT ![c] = k]
  BY <1>2, <1>3
<1>5. k.left = left
  BY <1>1 DEF Jobs
<1>6. After(job[c], k, found)
  BY <1>5 DEF After
<1> HIDE DEF k
<1> DEFINE p == pc[c]
           t == give_up_at[c] - now
<1>7. \A t2 : Fine(k, "idle", t2, held')
  <2>1. Fine(job[c], p, t, held)
    BY <1>1
  <2>2. p \in {"idle", "expired"} \cup InCall /\ (p = "idle" => found)
        /\ (p = "expired" => ~found)
    OBVIOUS
  <2> HIDE DEF p, t
  <2>3. QED
    BY <1>6, <2>1, <2>2, FineLookup
<1>8. k \in Jobs
  BY <1>7 DEF Fine, Shape
<1>9. job' \in [Callers -> Jobs \cup {Nobody}] /\ job'[c] = k
      /\ \A d \in Callers \ {c} : job'[d] = job[d]
  BY <1>2, <1>4, <1>8
<1>10. k # Nobody
  BY <1>8, NobodyAssumption
<1>11. FineAt(c)'
  BY <1>7, <1>9, <1>10 DEF FineAt
<1>12. Undisturbed(c)
  BY <1>9 DEF Undisturbed
<1>13. QED
  BY <1>11, <1>12, OthersStayFine

\* A step of the budget that leaves the request alone.
LEMMA MoveStep ==
    ASSUME TypeOK, RequestInv, NEW c \in Callers, UNCHANGED <<job, held>>, now' = now,
           job[c] # Nobody => Fine(job[c], pc'[c], give_up_at'[c] - now, held),
           job[c] = Nobody => pc'[c] = "idle",
           \A d \in Callers \ {c} : give_up_at'[d] = give_up_at[d] /\ pc'[d] = pc[d]
    PROVE  RequestInv'
<1>1. FineAt(c)'
  BY DEF FineAt
<1>2. Undisturbed(c)
  BY DEF Undisturbed, RequestInv
<1>3. QED
  BY <1>1, <1>2, OthersStayFine

\* A request that is dropped or answered.
LEMMA OverStep ==
    ASSUME TypeOK, RequestInv, NEW c \in Callers, job' = [job EXCEPT ![c] = Nobody],
           UNCHANGED held, now' = now, pc'[c] = "idle",
           \A d \in Callers \ {c} : give_up_at'[d] = give_up_at[d] /\ pc'[d] = pc[d]
    PROVE  RequestInv'
<1>1. job \in [Callers -> Jobs \cup {Nobody}]
  BY DEF RequestInv
<1>2. FineAt(c)'
  BY <1>1 DEF FineAt
<1>3. Undisturbed(c)
  BY <1>1 DEF Undisturbed, RequestInv
<1>4. QED
  BY <1>2, <1>3, OthersStayFine

LEMMA ArriveStep ==
    ASSUME TypeOK, RequestInv, NEW c \in Callers, Arrive(c)
    PROVE  RequestInv'
<1>1. job \in [Callers -> Jobs \cup {Nobody}] /\ held \subseteq Kinds
  BY DEF RequestInv
<1>2. PICK req \in Requests :
         job' = [job EXCEPT ![c] =
                    [req |-> req, left |-> Plan(req), calls |-> 0, dry |-> 0,
                     flight |-> 0, knew |-> req.op = "row" /\ req.kind \in held]]
  BY DEF Arrive
<1> DEFINE knew == req.op = "row" /\ req.kind \in held
           k == [req |-> req, left |-> Plan(req), calls |-> 0, dry |-> 0,
                 flight |-> 0, knew |-> knew]
<1>3. job' = [job EXCEPT ![c] = k]
  BY <1>2
<1>4. /\ now' = now /\ pc' = pc /\ give_up_at' = give_up_at /\ held' = held
      /\ pc[c] = "idle"
  BY DEF Arrive, vars
<1>5. knew \in BOOLEAN /\ (knew => req.op = "row" /\ req.kind \in held)
  OBVIOUS
<1> HIDE DEF knew
<1>6. Fine(k, "idle", give_up_at[c] - now, held)
  BY <1>5, FineStart
<1> HIDE DEF k
<1>7. k \in Jobs
  BY <1>6 DEF Fine, Shape
<1>8. k # Nobody
  BY <1>7, NobodyAssumption
<1>9. job' \in [Callers -> Jobs \cup {Nobody}] /\ job'[c] = k
      /\ \A d \in Callers \ {c} : job'[d] = job[d]
  BY <1>1, <1>3, <1>7
<1>10. FineAt(c)'
  BY <1>4, <1>6, <1>8, <1>9 DEF FineAt
<1>11. Undisturbed(c)
  BY <1>1, <1>4, <1>9 DEF Undisturbed
<1>12. QED
  BY <1>10, <1>11, OthersStayFine

LEMMA GrantedStep ==
    ASSUME TypeOK, RequestInv, NEW c \in Callers, Granted(c)
    PROVE  RequestInv'
<1>1. job \in [Callers -> Jobs \cup {Nobody}] /\ held \subseteq Kinds
  BY DEF RequestInv
<1>2. /\ now' = now /\ pc[c] = "attempt" /\ pc' = [pc EXCEPT ![c] = "granted"]
      /\ give_up_at' = give_up_at /\ held' = held
      /\ job' = [job EXCEPT ![c].calls = @ + 1, ![c].dry = 0, ![c].flight = 0]
  BY DEF Granted, Grant
<1>3. pc \in [Callers -> PCs]
  BY DEF TypeOK
<1>4. job[c] # Nobody
  BY <1>2, InBudgetHasJob
<1> DEFINE k == [job[c] EXCEPT !.calls = @ + 1, !.dry = 0, !.flight = 0]
<1>5. job' = [job EXCEPT ![c] = k]
  BY <1>1, <1>2
<1>6. Fine(job[c], "attempt", give_up_at[c] - now, held)
  BY <1>2, <1>4, HasJob
<1>7. Fine(k, "granted", give_up_at[c] - now, held)
  BY <1>6, FineGrant
<1> HIDE DEF k
<1>8. k \in Jobs
  BY <1>7 DEF Fine, Shape
<1>9. k # Nobody
  BY <1>8, NobodyAssumption
<1>10. job' \in [Callers -> Jobs \cup {Nobody}] /\ job'[c] = k
       /\ \A d \in Callers \ {c} : job'[d] = job[d]
  BY <1>1, <1>5, <1>8
<1>11. pc'[c] = "granted" /\ \A d \in Callers \ {c} : pc'[d] = pc[d]
  BY <1>2, <1>3
<1>12. FineAt(c)'
  BY <1>2, <1>7, <1>9, <1>10, <1>11 DEF FineAt
<1>13. Undisturbed(c)
  BY <1>1, <1>2, <1>10, <1>11 DEF Undisturbed
<1>14. QED
  BY <1>12, <1>13, OthersStayFine

LEMMA AskStep ==
    ASSUME TypeOK, RequestInv, NEW c \in Callers, Ask(c)
    PROVE  RequestInv'
<1>1. PICK d \in Deadlines : give_up_at' = [give_up_at EXCEPT ![c] = now + d]
  BY DEF Ask, Acquire
<1>2. /\ pc \in [Callers -> PCs] /\ give_up_at \in [Callers -> 0 .. MaxTime] /\ now \in Nat
  BY DEF TypeOK
<1>3. /\ now' = now /\ pc' = [pc EXCEPT ![c] = "attempt"] /\ UNCHANGED <<job, held>>
      /\ job[c] # Nobody /\ pc[c] = "idle" /\ job[c].left # <<>>
      /\ Head(job[c].left)[1] = "genre" => Head(job[c].left)[2] \notin held
      /\ give_up_at'[c] = now + Deadline(Head(job[c].left)[1])
  BY DEF Ask, Acquire, Serving
<1>4. Deadline(Head(job[c].left)[1]) \in Nat
  BY WaitsTyped DEF Deadline
<1>5. give_up_at'[c] - now = Deadline(Head(job[c].left)[1])
  BY <1>2, <1>3, <1>4
<1>6. Fine(job[c], "idle", give_up_at[c] - now, held)
  BY <1>3, HasJob
<1>7. Fine(job[c], "attempt", Deadline(Head(job[c].left)[1]), held)
  BY <1>3, <1>6, FineAsk
<1>8. pc'[c] = "attempt" /\ \A e \in Callers \ {c} :
         give_up_at'[e] = give_up_at[e] /\ pc'[e] = pc[e]
  BY <1>1, <1>2, <1>3
<1>9. Fine(job[c], pc'[c], give_up_at'[c] - now, held)
  BY <1>5, <1>7, <1>8
<1>10. QED
  BY <1>3, <1>8, <1>9, MoveStep

LEMMA WaitsStep ==
    ASSUME TypeOK, RequestInv, NEW c \in Callers, Waits(c)
    PROVE  RequestInv'
<1>1. /\ pc \in [Callers -> PCs] /\ give_up_at \in [Callers -> 0 .. MaxTime] /\ now \in Nat
  BY DEF TypeOK
<1>2. /\ now' = now /\ give_up_at' = give_up_at /\ UNCHANGED <<job, held>>
      /\ pc[c] \in Waiting
      /\ pc'[c] \in Waiting \cup {"expired"} /\ (pc'[c] = "expired" => now >= give_up_at[c])
      /\ \A d \in Callers \ {c} : pc'[d] = pc[d]
  <2>1. CASE Expire(c)
    BY <1>1, <2>1 DEF Waits, Expire, NoGrant, Waiting
  <2>2. CASE Compute(c)
    BY <1>1, <2>2 DEF Waits, Compute, NoGrant, Waiting
  <2>3. CASE Arm(c) \/ Listen(c)
    BY <1>1, <2>3 DEF Waits, Arm, Listen, Waiting
  <2>4. CASE Wake(c)
    BY <1>1, <2>4 DEF Waits, Wake, Waiting
  <2>5. QED
    BY <2>1, <2>2, <2>3, <2>4 DEF Waits
<1>3. job[c] # Nobody
  BY <1>2, InBudgetHasJob DEF Waiting
<1>4. Fine(job[c], pc[c], give_up_at[c] - now, held)
  BY <1>3, HasJob
<1> DEFINE t == give_up_at[c] - now
<1>5. t \in Int /\ (pc'[c] = "expired" => t <= 0)
  BY <1>1, <1>2 DEF Waiting
<1> HIDE DEF t
<1>6. Fine(job[c], pc'[c], t, held)
  <2>1. Fine(job[c], pc[c], t, held)
    BY <1>4 DEF t
  <2>2. QED
    BY <1>2, <1>5, <2>1, FineWait
<1>7. QED
  BY <1>2, <1>3, <1>6, MoveStep DEF t

\* What Leave leaves of the budget.
LEMMA LeaveFacts ==
    ASSUME TypeOK, NEW c \in Callers, Leave(c)
    PROVE  /\ now' = now /\ pc'[c] = "idle" /\ pc[c] \in Waiting \cup {"granted", "expired"}
           /\ \A d \in Callers \ {c} : give_up_at'[d] = give_up_at[d] /\ pc'[d] = pc[d]
  BY DEF Leave, TypeOK, Waiting

LEMMA AnswersStep ==
    ASSUME TypeOK, RequestInv, NEW c \in Callers,
           Refused(c) \/ Answered(c) \/ Missed(c)
    PROVE  RequestInv'
<1>1. /\ Leave(c) /\ pc[c] \in {"expired", "granted"}
      /\ \E found \in BOOLEAN : LookedUp(c, found) /\ (pc[c] = "expired" => ~found)
  BY DEF Refused, Answered, Missed
<1>2. PICK found \in BOOLEAN : LookedUp(c, found) /\ (pc[c] = "expired" => ~found)
  BY <1>1
<1>3. job[c] # Nobody /\ job[c].left # <<>>
  BY <1>1, InBudgetHasJob
<1>4. held \subseteq held' /\ held' \subseteq Kinds
  <2>1. held \subseteq Kinds
    BY DEF RequestInv
  <2>2. Head(job[c].left)[1] = "genre" => Head(job[c].left)[2] \in Kinds
    BY <1>3, HasJob, GenreOfAKind
  <2>3. QED
    BY <2>1, <2>2 DEF Refused, Answered, Missed
<1>5. pc[c] \in {"idle", "expired"} \cup InCall /\ pc[c] # "idle"
  BY <1>1 DEF InCall
<1>6. QED
  BY <1>1, <1>2, <1>3, <1>4, <1>5, LeaveFacts, LookedUpStep

LEMMA LimitedStep ==
    ASSUME TypeOK, RequestInv, NEW c \in Callers, Limited(c)
    PROVE  RequestInv'
<1>1. pc \in [Callers -> PCs] /\ give_up_at \in [Callers -> 0 .. MaxTime] /\ pc[c] \in PCs
  BY DEF TypeOK
<1>2. ASSUME Note429(c) \/ Pause(c), UNCHANGED <<job, held>> PROVE RequestInv'
  <2>1. /\ now' = now /\ pc[c] \in InCall /\ pc'[c] \in InCall
        /\ \A d \in Callers \ {c} : give_up_at'[d] = give_up_at[d] /\ pc'[d] = pc[d]
    BY <1>1, <1>2 DEF Note429, Pause, InCall
  <2>2. job[c] # Nobody
    BY <2>1, InBudgetHasJob DEF InCall
  <2>3. Fine(job[c], pc[c], give_up_at[c] - now, held)
    BY <2>2, HasJob
  <2>4. pc'[c] \in PCs /\ pc[c] \notin Waiting /\ {pc[c], pc'[c]} \subseteq InCall
    BY <2>1 DEF InCall, PCs, Waiting
  <2>5. Fine(job[c], pc'[c], give_up_at'[c] - now, held)
    BY <1>1, <2>3, <2>4, FineElsewhere
  <2>6. QED
    BY <1>2, <2>1, <2>2, <2>5, MoveStep
<1>3. ASSUME Notify(c), LookedUp(c, FALSE), UNCHANGED held PROVE RequestInv'
  <2>1. /\ now' = now /\ give_up_at' = give_up_at /\ pc[c] = "notifying" /\ pc'[c] = "idle"
        /\ \A d \in Callers \ {c} :
              pc'[d] = IF pc[d] = "sleeping" THEN "notified" ELSE pc[d]
    BY <1>3 DEF Notify
  <2>2. job[c] # Nobody /\ job[c].left # <<>>
    BY <2>1, InBudgetHasJob
  <2>3. pc[c] \in {"idle", "expired"} \cup InCall /\ pc[c] # "idle" /\ pc[c] # "expired"
    BY <2>1 DEF InCall
  <2>4. \A d \in Callers \ {c} :
           /\ give_up_at'[d] = give_up_at[d]
           /\ pc'[d] = pc[d] \/ {pc[d], pc'[d]} \subseteq Waiting
    BY <2>1 DEF Waiting
  <2>5. held \subseteq held' /\ held' \subseteq Kinds
    BY <1>3 DEF RequestInv
  <2>6. QED
    BY <1>3, <2>1, <2>2, <2>3, <2>4, <2>5, LookedUpStep
<1>4. QED
  BY <1>2, <1>3 DEF Limited

LEMMA CachedStep ==
    ASSUME TypeOK, RequestInv, NEW c \in Callers, Cached(c)
    PROVE  RequestInv'
<1>1. /\ job[c] # Nobody /\ pc[c] = "idle" /\ job[c].left # <<>> /\ LookedUp(c, TRUE)
      /\ now' = now /\ pc' = pc /\ give_up_at' = give_up_at /\ held' = held
  BY DEF Cached, Serving, vars
<1>2. held \subseteq held' /\ held' \subseteq Kinds
  BY <1>1 DEF RequestInv
<1>3. QED
  BY <1>1, <1>2, LookedUpStep

\* No task has lost time between the lock and its timer.
OnTime == \A c \in Callers : late[c] = 0

LEMMA PassStep ==
    ASSUME TypeOK, SleepNotTooLong, OnTime, RequestInv, Pass
    PROVE  RequestInv'
<1>1. /\ pc \in [Callers -> PCs] /\ give_up_at \in [Callers -> 0 .. MaxTime]
      /\ wake_at \in [Callers -> 0 .. MaxTime] /\ now \in Nat
  BY DEF TypeOK
<1>2. /\ now' = now + 1 /\ pc' = pc /\ give_up_at' = give_up_at /\ held' = held
      /\ \A c \in Callers : Idles(c)
      /\ job' = [c \in Callers |->
                    IF pc[c] = "sleeping" THEN [job[c] EXCEPT !.dry = @ + 1]
                    ELSE IF pc[c] = "granted" THEN [job[c] EXCEPT !.flight = @ + 1]
                    ELSE job[c]]
  BY DEF Pass, Tick
<1>3. held \subseteq Kinds
  BY DEF RequestInv
<1>4. ASSUME NEW c \in Callers
      PROVE  job'[c] \in Jobs \cup {Nobody} /\ FineAt(c)'
  <2>1. CASE job[c] = Nobody
    <3>1. pc[c] = "idle"
      BY <2>1 DEF RequestInv, FineAt
    <3>2. job'[c] = Nobody
      BY <1>2, <2>1, <3>1
    <3>3. QED
      BY <1>2, <3>1, <3>2 DEF FineAt
  <2>2. ASSUME job[c] # Nobody, pc[c] = "sleeping", now < wake_at[c]
        PROVE  job'[c] \in Jobs \cup {Nobody} /\ FineAt(c)'
    <3> DEFINE t == give_up_at[c] - now
               k == [job[c] EXCEPT !.dry = @ + 1]
    <3>1. Fine(job[c], "sleeping", t, held)
      BY <2>2, HasJob
    <3>2. wake_at[c] <= give_up_at[c]
      BY <2>2 DEF SleepNotTooLong, Due, OnTime, TypeOK
    <3>3. /\ t \in Int /\ t > 0 /\ give_up_at'[c] - now' = t - 1
      BY <1>1, <1>2, <2>2, <3>2
    <3> HIDE DEF t
    <3>4. Fine(k, "sleeping", t - 1, held)
      BY <3>1, <3>3, FineTick
    <3>5. job'[c] = k
      BY <1>2, <2>2
    <3> HIDE DEF k
    <3>6. k \in Jobs /\ k # Nobody
      BY <3>4, NobodyAssumption DEF Fine, Shape
    <3>7. QED
      BY <1>2, <2>2, <3>3, <3>4, <3>5, <3>6 DEF FineAt
  <2>3. ASSUME job[c] # Nobody, pc[c] = "granted"
        PROVE  job'[c] \in Jobs \cup {Nobody} /\ FineAt(c)'
    <3> DEFINE k == [job[c] EXCEPT !.flight = @ + 1]
    <3>1. Fine(job[c], "granted", give_up_at[c] - now, held)
      BY <2>3, HasJob
    <3>2. Fine(k, "granted", give_up_at'[c] - now', held)
      BY <3>1, FineFlight
    <3>3. job'[c] = k
      BY <1>2, <2>3
    <3> HIDE DEF k
    <3>4. k \in Jobs /\ k # Nobody
      BY <3>2, NobodyAssumption DEF Fine, Shape
    <3>5. QED
      BY <1>2, <2>3, <3>2, <3>3, <3>4 DEF FineAt
  <2>4. QED
    BY <1>2, <2>1, <2>2, <2>3 DEF Idles
<1>5. job' \in [Callers -> Jobs \cup {Nobody}]
  BY <1>2, <1>4
<1>6. QED
  BY <1>2, <1>3, <1>4, <1>5 DEF RequestInv

LEMMA RequestInvStep ==
    ASSUME TypeOK, SleepNotTooLong, OnTime, RequestInv, [RequestNext]_requestVars
    PROVE  RequestInv'
<1>1. ASSUME NEW c \in Callers, Drop(c) PROVE RequestInv'
  BY <1>1, LeaveFacts, OverStep DEF Drop
<1>2. ASSUME NEW c \in Callers, Reply(c) PROVE RequestInv'
  <2>1. /\ job' = [job EXCEPT ![c] = Nobody] /\ UNCHANGED held /\ now' = now
        /\ pc'[c] = "idle" /\ pc' = pc /\ give_up_at' = give_up_at
    BY <1>2 DEF Reply, Serving, vars
  <2>2. QED
    BY <2>1, OverStep
<1>3. ASSUME NEW c \in Callers, Serve(c) PROVE RequestInv'
  BY <1>2, <1>3, CachedStep, AskStep, GrantedStep, WaitsStep, AnswersStep, LimitedStep
     DEF Serve
<1>4. CASE UNCHANGED requestVars
  BY <1>4 DEF requestVars, vars, RequestInv, FineAt
<1>5. QED
  BY <1>1, <1>3, <1>4, ArriveStep, PassStep DEF RequestNext

\* What the properties take from the invariant.
LEMMA FineGives ==
    ASSUME NEW j, NEW p \in PCs, NEW t \in Int, NEW tables, Fine(j, p, t, tables)
    PROVE  /\ Len(j.left) <= Lookups(j.req)
           /\ j.calls <= Limit(j)
           /\ j.dry <= Patience(j.req)
<1>1. /\ Shape(j) /\ Counted(j, p) /\ Patient(j, p, t) /\ Knows(j, p, tables)
      /\ p # "idle" => j.left # <<>>
  BY DEF Fine
<1>2. /\ j \in Jobs /\ j.calls \in Nat /\ j.dry \in Nat /\ j.knew \in BOOLEAN
      /\ Lookups(j.req) \in Nat /\ Limit(j) \in Int /\ Patience(j.req) \in Nat
      /\ Worth(j) \in Nat /\ StillWaits(j) \in Nat
      /\ j.left # <<>> => /\ Deadline(Head(j.left)[1]) \in Nat
                          /\ Deadline(Head(j.left)[1]) <= StillWaits(j)
                          /\ Free(j) \/ Worth(j) > 0
  BY FineTyped DEF Numbered
<1>3. p \in InCall => p # "idle"
  BY DEF InCall
<1>4. \/ Worth(j) + j.calls <= Limit(j)
      \/ /\ j.calls > 0 /\ j.left # <<>> /\ ~Free(j)
         /\ Worth(j) + j.calls <= Limit(j) + 1
  <2>1. CASE p \in InCall
    <3>1. j.left # <<>> /\ ~Free(j)
      BY <1>1, <1>3, <2>1 DEF Knows, Free
    <3>2. j.calls > 0 /\ j.calls + Worth(j) <= Limit(j) + 1
      BY <1>1, <2>1 DEF Counted
    <3>3. QED
      BY <1>2, <2>1, <3>1, <3>2
  <2>2. CASE p \notin InCall
    <3>1. j.calls + Worth(j) <= Limit(j)
      BY <1>1, <2>2 DEF Counted
    <3>2. QED
      BY <1>2, <3>1
  <2>3. QED
    BY <2>1, <2>2
<1>5. j.calls <= Limit(j)
  <2>1. ASSUME j.left # <<>>, ~Free(j), Worth(j) + j.calls <= Limit(j) + 1
        PROVE  j.calls <= Limit(j)
    BY <1>2, <2>1
  <2>2. ASSUME Worth(j) + j.calls <= Limit(j) PROVE j.calls <= Limit(j)
    BY <1>2, <2>2
  <2>3. QED
    BY <1>4, <2>1, <2>2
<1>6. Worth(j) <= Limit(j)
  BY <1>2, <1>4
<1>7. Limit(j) = Lookups(j.req) - IF j.knew THEN 1 ELSE 0
  BY DEF Limit
<1>8. Len(j.left) <= Lookups(j.req)
  <2>1. CASE j.left = <<>>
    BY <1>2, <2>1
  <2>2. CASE IsSearch(j.left)
    <3>1. Len(j.left) = 1 /\ j.left # <<>> /\ Head(j.left) = <<"search", "any">>
      BY <2>2, SearchAlone
    <3>2. ~Free(j)
      BY <3>1 DEF Free
    <3>3. Worth(j) > 0
      BY <1>2, <3>1, <3>2
    <3>4. QED
      BY <1>2, <1>6, <1>7, <3>1, <3>3
  <2>3. CASE j.left # <<>> /\ ~IsSearch(j.left)
    <3>1. Worth(j) = Len(j.left) - IF Free(j) THEN 1 ELSE 0
      BY <2>3 DEF Worth
    <3>2. Len(j.left) \in Nat
      BY <1>2, LenProperties DEF Jobs
    <3>3. CASE Free(j)
      <4>1. j.knew
        BY <3>3 DEF Free
      <4>2. QED
        BY <1>2, <1>6, <1>7, <3>1, <3>2, <3>3, <4>1
    <3>4. CASE ~Free(j)
      BY <1>2, <1>6, <1>7, <3>1, <3>2, <3>4
    <3>5. QED
      BY <3>3, <3>4
  <2>4. QED
    BY <2>1, <2>2, <2>3
<1>9. j.dry <= Patience(j.req)
  <2>1. CASE p = "idle"
    <3>1. j.dry + StillWaits(j) <= Patience(j.req)
      BY <1>1, <2>1 DEF Patient
    <3>2. QED
      BY <1>2, <3>1
  <2>2. CASE p = "expired"
    <3>1. j.left # <<>> /\ j.dry + StillWaits(j) - Deadline(Head(j.left)[1]) <= Patience(j.req)
      BY <1>1, <2>2 DEF Patient
    <3>2. QED
      BY <1>2, <3>1
  <2>3. CASE p \in Waiting
    <3>1. t >= 0 /\ j.dry + t + StillWaits(j) - Deadline(Head(j.left)[1]) <= Patience(j.req)
      BY <1>1, <2>3 DEF Patient
    <3>2. j.left # <<>>
      BY <1>1, <2>3 DEF Waiting
    <3> DEFINE d == Deadline(Head(j.left)[1])
    <3>3. d \in Nat /\ d <= StillWaits(j)
      BY <1>2, <3>2
    <3>4. t \in Int
      OBVIOUS
    <3> HIDE DEF d
    <3>5. j.dry + t + StillWaits(j) - d <= Patience(j.req)
      BY <3>1 DEF d
    <3>6. QED
      BY <1>2, <3>1, <3>3, <3>4, <3>5
  <2>4. CASE p \in InCall
    <3>1. j.dry = 0
      BY <1>1, <2>4 DEF Patient
    <3>2. QED
      BY <1>2, <3>1
  <2>5. QED
    BY <2>1, <2>2, <2>3, <2>4 DEF PCs, InCall
<1>10. QED
  BY <1>5, <1>8, <1>9

-----------------------------------------------------------------------------
(* The budget is kept                                                      *)

\* Every step of the server is a step of the budget, or leaves it alone.
LEMMA RequestStep ==
    ASSUME [RequestNext]_requestVars
    PROVE  [Next]_vars
<1>1. CASE Pass
  BY <1>1 DEF Pass, Next
<1>2. ASSUME NEW c \in Callers, Arrive(c) \/ Cached(c) \/ Reply(c) PROVE UNCHANGED vars
  BY <1>2 DEF Arrive, Cached, Reply
<1>3. ASSUME NEW c \in Callers, Ask(c) PROVE Next
  BY <1>3 DEF Ask, Next
<1>4. ASSUME NEW c \in Callers, Granted(c) PROVE Next
  BY <1>4 DEF Granted, Next, Run
<1>5. ASSUME NEW c \in Callers, Waits(c) PROVE Next
  BY <1>5 DEF Waits, Next, Run
<1>6. ASSUME NEW c \in Callers, Refused(c) \/ Answered(c) \/ Missed(c) \/ Drop(c) PROVE Next
  BY <1>6 DEF Refused, Answered, Missed, Drop, Next
<1>7. ASSUME NEW c \in Callers, Limited(c) PROVE Next
  BY <1>7 DEF Limited, Next
<1>8. CASE UNCHANGED requestVars
  BY <1>8 DEF requestVars
<1>9. QED
  BY <1>1, <1>2, <1>3, <1>4, <1>5, <1>6, <1>7, <1>8 DEF RequestNext, Serve

\* The budget in the server is the budget: its initial states and its steps.
THEOREM RequestsKeepToTheBudget == RequestSpec => Init /\ [][Next]_vars
<1>1. RequestInit => Init
  BY DEF RequestInit
<1>2. [RequestNext]_requestVars => [Next]_vars
  BY RequestStep
<1>3. QED
  BY <1>1, <1>2, PTL DEF RequestSpec

\* The budget's variables stay in their types.
LEMMA BudgetTyped == RequestSpec => []TypeOK
<1>1. Init => TypeOK
  BY TypeAtStart
<1>2. TypeOK /\ [Next]_vars => TypeOK'
  BY TypeStep
<1>3. QED
  BY <1>1, <1>2, RequestsKeepToTheBudget, PTL

\* From any instant on, the TMDB calls of all requests together are at most the
\* burst plus what the rate brought since.
THEOREM RequestsWithinRate == RequestSpec => []RateBound
<1>1. Init => RateInv
  BY RateInvAtStart
<1>2. TypeOK /\ RateInv /\ [Next]_vars => RateInv'
  BY RateInvStep
<1>3. TypeOK /\ RateInv => RateBound
  BY RateInvBounds
<1>4. QED
  BY <1>1, <1>2, <1>3, BudgetTyped, RequestsKeepToTheBudget, PTL

\* A pause is in force for every request at once.
LEMMA PauseAlwaysLinked == RequestSpec => []PauseInv
<1>1. Init => PauseInv
  BY PauseInvAtStart
<1>2. TypeOK /\ PauseInv /\ [Next]_vars => PauseInv'
  BY PauseInvStep
<1>3. QED
  BY <1>1, <1>2, BudgetTyped, RequestsKeepToTheBudget, PTL

\* No request makes a TMDB call before the end of any pause a 429 asked for.
THEOREM RequestsRespectPauses == RequestSpec => GrantRespectsPause
<1> DEFINE Respects == \A c \in Callers :
               pc[c] # "granted" /\ pc'[c] = "granted" => now >= frozenUntil
<1>1. TypeOK /\ PauseInv /\ [Next]_vars => [Respects]_vars
  BY GrantAfterPause
<1>2. QED
  BY <1>1, BudgetTyped, PauseAlwaysLinked, RequestsKeepToTheBudget, PTL
     DEF GrantRespectsPause

\* No sleep of a request is computed too long, and none becomes too long.
LEMMA RequestsSleepNotTooLong == RequestSpec => []SleepNotTooLong
<1>1. Init => SleepNotTooLong
  BY NoSleepAtStart
<1>2. TypeOK /\ SleepNotTooLong /\ [Next]_vars => SleepNotTooLong'
  BY SleepNotTooLongStep
<1>3. QED
  BY <1>1, <1>2, BudgetTyped, RequestsKeepToTheBudget, PTL

\* The prompt executor starts every timer at the instant of its lock.
LEMMA RequestsAreOnTime == RequestSpec => []OnTime
<1>1. RequestInit => OnTime
  BY DEF RequestInit, Init, OnTime
<1>2. TypeOK /\ OnTime /\ [RequestNext]_requestVars => OnTime'
  <2> SUFFICES ASSUME TypeOK, OnTime, [RequestNext]_requestVars
               PROVE  OnTime'
    OBVIOUS
  <2>1. CASE Pass
    <3>1. \A c \in Callers : pc[c] # "computed"
      BY <2>1 DEF Pass, Idles
    <3>2. QED
      BY <2>1, <3>1 DEF Pass, Tick, OnTime
  <2>2. ASSUME ~Pass PROVE UNCHANGED late \/ \E c \in Callers : late' = [late EXCEPT ![c] = 0]
    BY <2>2 DEF RequestNext, requestVars, vars, timer, Arrive, Serve, Drop, Cached, Ask,
       Granted, Waits, Refused, Answered, Missed, Limited, Reply, Acquire, Grant, Expire,
       Compute, Arm, Listen, Wake, Leave, Note429, Pause, Notify
  <2>3. QED
    BY <2>1, <2>2 DEF OnTime, TypeOK
<1>3. QED
  BY <1>1, <1>2, BudgetTyped, PTL DEF RequestSpec

LEMMA RequestInvGives ==
    ASSUME TypeOK, RequestInv
    PROVE  RequestTypeOK /\ CallsAreBounded /\ NobodyIsPinned
<1>1. ASSUME NEW c \in Callers, job[c] # Nobody
      PROVE  /\ Len(job[c].left) <= Lookups(job[c].req)
             /\ job[c].calls <= Limit(job[c])
             /\ job[c].dry <= Patience(job[c].req)
             /\ pc[c] # "idle" => job[c].left # <<>>
  <2>1. Fine(job[c], pc[c], give_up_at[c] - now, held)
    BY <1>1, HasJob
  <2>2. pc[c] \in PCs /\ give_up_at[c] - now \in Int
    BY DEF TypeOK
  <2>3. QED
    BY <1>1, <2>1, <2>2, FineGives, InBudgetHasJob
<1>2. ASSUME NEW c \in Callers, job[c] = Nobody PROVE pc[c] = "idle"
  BY <1>2 DEF RequestInv, FineAt
<1>3. RequestTypeOK
  BY <1>1, <1>2 DEF RequestTypeOK, RequestInv
<1>4. CallsAreBounded
  BY <1>1 DEF CallsAreBounded, Limit
<1>5. NobodyIsPinned
  BY <1>1 DEF NobodyIsPinned
<1>6. QED
  BY <1>3, <1>4, <1>5

LEMMA RequestsKeepTheInvariant == RequestSpec => []RequestInv
<1>1. RequestInit => RequestInv
  <2> SUFFICES ASSUME RequestInit PROVE RequestInv
    OBVIOUS
  <2>1. job = [c \in Callers |-> Nobody] /\ held = {} /\ pc = [c \in Callers |-> "idle"]
    BY DEF RequestInit, Init
  <2>2. QED
    BY <2>1 DEF RequestInv, FineAt
<1>2. TypeOK /\ SleepNotTooLong /\ OnTime /\ RequestInv /\ [RequestNext]_requestVars => RequestInv'
  BY RequestInvStep
<1>3. QED
  BY <1>1, <1>2, BudgetTyped, RequestsSleepNotTooLong, RequestsAreOnTime,
     PTL DEF RequestSpec

\* Every variable of the server stays in its type, and a caller is in the budget
\* only for a request that has a lookup to make, in whatever order the caches,
\* TMDB and the waits answer.
THEOREM RequestsTypeCorrect == RequestSpec => []RequestTypeOK
<1>1. TypeOK /\ RequestInv => RequestTypeOK
  BY RequestInvGives
<1>2. QED
  BY <1>1, BudgetTyped, RequestsKeepTheInvariant, PTL

\* The price of an answer, for every plan: no request makes more TMDB calls than
\* it has lookups, and a row whose genre table is held pays for its pages only.
THEOREM CallsAreBoundedHolds == RequestSpec => []CallsAreBounded
<1>1. TypeOK /\ RequestInv => CallsAreBounded
  BY RequestInvGives
<1>2. QED
  BY <1>1, BudgetTyped, RequestsKeepTheInvariant, PTL

\* A request that gets no permit waits for no more than its patience, whatever
\* the other requests draw, however often it is woken and whatever is paused.
THEOREM NobodyIsPinnedHolds == RequestSpec => []NobodyIsPinned
<1>1. TypeOK /\ RequestInv => NobodyIsPinned
  BY RequestInvGives
<1>2. QED
  BY <1>1, BudgetTyped, RequestsKeepTheInvariant, PTL
=============================================================================
