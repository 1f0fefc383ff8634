-------------------------- MODULE DiscoveryProofs --------------------------
(***************************************************************************)
(* Theorems about Discovery, for any catalog, rankings and queries, any    *)
(* page size and any cap: what a row costs, what its pages are asked for   *)
(* with, which cards it may hold, and which it must.                       *)
(*                                                                         *)
(* The pages asked for are counted by `calls`, the loop counts `page`; the *)
(* invariant couples the two at each point of the walk (Counted) and the   *)
(* path with the query (Filtered).  While TMDB's catalog and the day stand *)
(* still, the row's cards are what can be shown of the first page - 1      *)
(* pages of that catalog (Faithful), which is what makes the answered row  *)
(* the top of the catalog.                                                 *)
(***************************************************************************)
EXTENDS Discovery, ListLemmas

Fields == {"pc", "req", "table", "genres", "page", "path", "out", "calls", "lost", "steady"}
Cards == [title : Titles, genres : SUBSET UNION Range(GenreTable)]

\* The cards a row for req may hold.
Fits(req) ==
    {c \in Cards :
        /\ About[c.title].shown
        /\ About[c.title].kind = req.kind
        /\ req.anime => About[c.title].anime
        /\ req.genres # {} => c.genres \cap req.genres # {}
        /\ About[c.title].adult =>
              Mode(req) = "trending" /\ req.genres = {} /\ ~req.anime}

\* Where the walk stands, by the calls it has made.
Counted(r) ==
    /\ r.page \in Nat \ {0} /\ r.calls \in Nat
    /\ r.page <= r.calls + 1
    /\ r.pc = "names" => r.page = 1 /\ r.calls = 0
    /\ r.pc = "walk" => r.calls = r.page - 1 /\ r.calls <= Pages(r.req.max)
    /\ r.pc = "page" => r.calls = r.page /\ r.calls <= Pages(r.req.max)
    /\ r.calls <= Pages(r.req.max)

\* Past the genre table, a query for genres has some of them left, and every
\* page is asked for with them.
Filtered(r) ==
    /\ r.out \in Seq(Fits(r.req))
    /\ r.pc \in {"names", "walk", "page"} => r.req.kind \in Kinds
    /\ r.pc = "names" => r.out = <<>> /\ r.path = None
    /\ r.pc \in {"walk", "page"} =>
          /\ r.table \in {{}, GenreTable[r.req.kind]}
          /\ ~r.lost => r.table = GenreTable[r.req.kind]
          /\ r.genres = r.req.genres \cap r.table
          /\ r.req.genres # {} => r.genres # {}
    /\ r.pc = "page" => \E day \in 0 .. LastDay : r.path = Path(r.req, r.genres, day)

\* What RowIsTheTop and RowFillsUp say of an answered row.
IsTheTop(order, r) ==
    r.path # None =>
        /\ Len(r.out) <= r.req.max
        /\ IsPrefix(TitlesOf(r.out), Shown(Catalog(order, r.path)))

Reach(max) == LesserOf(max + TMDB_PAGE_SIZE, DISCOVERY_MAX_PAGES * TMDB_PAGE_SIZE)

FillsUp(day, order, r) ==
    ~r.lost /\ r.req.kind # None
      /\ (r.req.genres = {} \/ r.req.genres \cap GenreTable[r.req.kind] # {})
    => LET asked == Path(r.req, r.req.genres \cap GenreTable[r.req.kind], day)
           there == Len(Shown(Take(Catalog(order, asked), Reach(r.req.max))))
       IN  Len(r.out) >= LesserOf(r.req.max, there)

\* While nothing changed under the row: it is what the pages so far hold.
Faithful(day, order, r) ==
    r.steady =>
        /\ r.pc \in {"walk", "page"} =>
              LET asked == Path(r.req, r.genres, day)
              IN  /\ r.path \in {None, asked}
                  /\ r.pc = "page" => r.path = asked
                  /\ TitlesOf(r.out) =
                        Shown(Take(Catalog(order, asked), (r.page - 1) * TMDB_PAGE_SIZE))
        /\ r.pc = "answered" => IsTheTop(order, r) /\ FillsUp(day, order, r)

\* What holds of the row, whatever the day and the ranking are.
Walked(r) ==
    /\ DOMAIN r = Fields
    /\ r.pc \in {"names", "walk", "page", "answered"}
    /\ r.req \in Requests
    /\ Counted(r) /\ Filtered(r)

WalkInv ==
    /\ today \in 0 .. LastDay
    /\ ranking \in Rankings
    /\ DOMAIN names = Kinds /\ \A k \in Kinds : names[k] \in {None, GenreTable[k]}
    /\ row # Idle => Walked(row) /\ Faithful(today, ranking, row)

-----------------------------------------------------------------------------
(* The number of pages                                                     *)

LEMMA PagesTyped ==
    ASSUME NEW max \in Nat \ {0}
    PROVE  Pages(max) \in Nat /\ Pages(max) <= DISCOVERY_MAX_PAGES
<1>1. PICK q \in Int : q = (max + TMDB_PAGE_SIZE - 1) \div TMDB_PAGE_SIZE /\ q >= 0
  BY PageAssumption, Z3
<1>2. QED
  BY <1>1, PageAssumption DEF Pages, LesserOf

\* All its pages reach as far as RowFillsUp asks.
LEMMA PagesReach ==
    ASSUME NEW max \in Nat \ {0}
    PROVE  /\ Reach(max) \in Nat
           /\ Pages(max) * TMDB_PAGE_SIZE >= Reach(max)
<1> DEFINE S == TMDB_PAGE_SIZE
           a == max + S - 1
<1>1. S \in Nat \ {0} /\ a \in Nat /\ DISCOVERY_MAX_PAGES \in Nat \ {0}
  BY PageAssumption
<1> HIDE DEF S, a
<1>2. PICK q \in Nat : q = a \div S /\ a < S * q + S
  BY <1>1, Z3
<1>3. Pages(max) = LesserOf(q + 1, DISCOVERY_MAX_PAGES)
  BY <1>2 DEF Pages, a, S
<1>4. (q + 1) * S = S * q + S
  BY <1>1, <1>2, Z3
<1>5. (q + 1) * S >= max + S
  BY <1>1, <1>2, <1>4 DEF a
<1>6. DISCOVERY_MAX_PAGES * S \in Nat
  BY <1>1
<1>7. QED
  BY <1>1, <1>3, <1>5, <1>6 DEF Reach, LesserOf, S

LEMMA PageOffsets ==
    ASSUME NEW p \in Nat \ {0}
    PROVE  /\ (p - 1) * TMDB_PAGE_SIZE \in Nat
           /\ p * TMDB_PAGE_SIZE \in Nat
           /\ (p - 1) * TMDB_PAGE_SIZE < p * TMDB_PAGE_SIZE
           /\ (p + 1 - 1) * TMDB_PAGE_SIZE = p * TMDB_PAGE_SIZE
<1>1. PICK S \in Nat \ {0} : S = TMDB_PAGE_SIZE
  BY PageAssumption
<1>2. PICK m \in Nat : m = p - 1 /\ p = m + 1
  BY Z3
<1>3. m * S \in Nat /\ (m + 1) * S = m * S + S
  BY <1>1, Z3
<1>4. QED
  BY <1>1, <1>2, <1>3

-----------------------------------------------------------------------------
(* TMDB's lists                                                            *)

Sorts == {"trending", "popularity", "rating"}
ListedTitles(path) == {t \in Titles : Listed(path, t)}
Showable == {t \in Titles : About[t].shown}

\* What a page is asked for with, whatever the day.
PathIsFor(path, req, genres) ==
    /\ path.sort \in Sorts
    /\ path.kind = req.kind
    /\ \/ /\ path.list = "trending"
          /\ Mode(req) = "trending" /\ ~req.anime /\ genres = {}
       \/ path.list = "discover" /\ path.anime = req.anime /\ path.genres = genres

LEMMA PathTyped ==
    ASSUME NEW req, NEW genres, NEW day
    PROVE  PathIsFor(Path(req, genres, day), req, genres)
BY DEF PathIsFor, Path, Sorts

LEMMA CatalogTyped ==
    ASSUME NEW order \in Rankings, NEW path, path.sort \in Sorts
    PROVE  /\ Catalog(order, path) \in Seq(ListedTitles(path))
           /\ Catalog(order, path) \in Seq(Titles)
<1>1. order[path.sort] \in Seq(Titles)
  BY CatalogAssumption DEF Sorts
<1>2. Titles \cap ListedTitles(path) = ListedTitles(path)
  BY DEF ListedTitles
<1>3. Kept(order[path.sort], ListedTitles(path)) \in Seq(ListedTitles(path))
  BY <1>1, <1>2, KeptTyped
<1>4. Kept(order[path.sort], ListedTitles(path)) \in Seq(Titles)
  BY <1>1, KeptTypedToo
<1>5. QED
  BY <1>3, <1>4 DEF Catalog, ListedTitles

\* A page follows the pages before it, and an empty one ends the catalog.
LEMMA PageIsNext ==
    ASSUME NEW order \in Rankings, NEW path, path.sort \in Sorts, NEW p \in Nat \ {0},
           NEW S, Catalog(order, path) \in Seq(S)
    PROVE  /\ Page(order, path, p) \in Seq(S)
           /\ Take(Catalog(order, path), (p - 1) * TMDB_PAGE_SIZE) \o Page(order, path, p)
                 = Take(Catalog(order, path), p * TMDB_PAGE_SIZE)
           /\ Page(order, path, p) = <<>> =>
                 Len(Catalog(order, path)) <= (p - 1) * TMDB_PAGE_SIZE
<1> DEFINE c == Catalog(order, path)
           m == (p - 1) * TMDB_PAGE_SIZE
           n == p * TMDB_PAGE_SIZE
           last == LesserOf(n, Len(c))
<1>1. c \in Seq(S) /\ Len(c) \in Nat
  BY LenProperties
<1>2. m \in Nat /\ n \in Nat /\ m < n
  BY PageOffsets
<1>3. Page(order, path, p) = SubSeq(c, m + 1, last)
  BY DEF Page
<1> HIDE DEF c, m, n
<1>4. last \in Nat /\ last <= n /\ last <= Len(c) /\ (last = n \/ last = Len(c))
  BY <1>1, <1>2 DEF LesserOf
<1> HIDE DEF last
<1>5. /\ SubSeq(c, m + 1, last) \in Seq(S)
      /\ Take(c, m) \o SubSeq(c, m + 1, last) = Take(c, n)
      /\ SubSeq(c, m + 1, last) = <<>> => Len(c) <= m
  BY <1>1, <1>2, <1>4, TakeTheNext
<1>6. QED
  BY <1>3, <1>5, Zenon DEF c, m, n

-----------------------------------------------------------------------------
(* Cards and their titles                                                  *)

LEMMA TitlesOfTyped ==
    ASSUME NEW cards \in Seq(Cards)
    PROVE  /\ TitlesOf(cards) \in Seq(Titles)
           /\ Len(TitlesOf(cards)) = Len(cards)
           /\ \A i \in 1 .. Len(cards) : TitlesOf(cards)[i] = cards[i].title
<1>1. Len(cards) \in Nat
  BY LenProperties
<1>2. \A i \in 1 .. Len(cards) : cards[i].title \in Titles
  <2> SUFFICES ASSUME NEW i \in 1 .. Len(cards) PROVE cards[i].title \in Titles
    OBVIOUS
  <2>1. cards[i] \in Cards
    BY ElementOfSeq
  <2>2. QED
    BY <2>1 DEF Cards
<1>3. QED
  BY <1>1, <1>2, IsASeq DEF TitlesOf

LEMMA TitlesOfConcat ==
    ASSUME NEW a \in Seq(Cards), NEW b \in Seq(Cards)
    PROVE  TitlesOf(a \o b) = TitlesOf(a) \o TitlesOf(b)
<1> DEFINE s == TitlesOf(a \o b)
           t == TitlesOf(a) \o TitlesOf(b)
<1>1. /\ a \o b \in Seq(Cards) /\ Len(a \o b) = Len(a) + Len(b)
      /\ \A i \in 1 .. Len(a) + Len(b) :
            (a \o b)[i] = IF i <= Len(a) THEN a[i] ELSE b[i - Len(a)]
  BY ConcatProperties
<1>2. /\ s \in Seq(Titles) /\ Len(s) = Len(a) + Len(b)
      /\ \A i \in 1 .. Len(a) + Len(b) : s[i] = (a \o b)[i].title
  BY <1>1, TitlesOfTyped
<1>3. /\ t \in Seq(Titles) /\ Len(t) = Len(a) + Len(b)
      /\ \A i \in 1 .. Len(a) + Len(b) :
            t[i] = IF i <= Len(a) THEN TitlesOf(a)[i] ELSE TitlesOf(b)[i - Len(a)]
  <2>1. PICK u, v : u = TitlesOf(a) /\ v = TitlesOf(b)
    OBVIOUS
  <2>2. /\ u \in Seq(Titles) /\ Len(u) = Len(a)
        /\ v \in Seq(Titles) /\ Len(v) = Len(b)
    BY <2>1, TitlesOfTyped
  <2>3. /\ u \o v \in Seq(Titles) /\ Len(u \o v) = Len(u) + Len(v)
        /\ \A i \in 1 .. Len(u) + Len(v) :
              (u \o v)[i] = IF i <= Len(u) THEN u[i] ELSE v[i - Len(u)]
    BY <2>2, ConcatProperties
  <2>4. QED
    BY <2>1, <2>2, <2>3
<1>4. Len(a) \in Nat /\ Len(b) \in Nat
  BY LenProperties
<1> HIDE DEF s, t
<1>5. \A i \in 1 .. Len(s) : s[i] = t[i]
  <2> SUFFICES ASSUME NEW i \in 1 .. Len(a) + Len(b) PROVE s[i] = t[i]
    BY <1>2
  <2>1. CASE i <= Len(a)
    <3>1. i \in 1 .. Len(a)
      BY <1>4, <2>1
    <3>2. TitlesOf(a)[i] = a[i].title
      BY <3>1, TitlesOfTyped
    <3>3. QED
      BY <1>1, <1>2, <1>3, <2>1, <3>2
  <2>2. CASE ~(i <= Len(a))
    <3>1. i - Len(a) \in 1 .. Len(b)
      BY <1>4, <2>2
    <3>2. TitlesOf(b)[i - Len(a)] = b[i - Len(a)].title
      BY <3>1, TitlesOfTyped
    <3>3. QED
      BY <1>1, <1>2, <1>3, <2>2, <3>2
  <2>3. QED
    BY <2>1, <2>2
<1>6. s = t
  BY <1>2, <1>3, <1>5, SeqEqual
<1>7. QED
  BY <1>6 DEF s, t

LEMMA TitlesOfTake ==
    ASSUME NEW cards \in Seq(Cards), NEW n \in Nat
    PROVE  TitlesOf(Take(cards, n)) = Take(TitlesOf(cards), n)
<1> DEFINE s == TitlesOf(Take(cards, n))
           t == Take(TitlesOf(cards), n)
           k == IF n < Len(cards) THEN n ELSE Len(cards)
<1>1. /\ Take(cards, n) \in Seq(Cards) /\ Len(Take(cards, n)) = k
      /\ \A i \in 1 .. k : Take(cards, n)[i] = cards[i]
  BY TakeTyped
<1>2. /\ s \in Seq(Titles) /\ Len(s) = k
      /\ \A i \in 1 .. k : s[i] = Take(cards, n)[i].title
  BY <1>1, TitlesOfTyped
<1>3. /\ TitlesOf(cards) \in Seq(Titles) /\ Len(TitlesOf(cards)) = Len(cards)
      /\ \A i \in 1 .. Len(cards) : TitlesOf(cards)[i] = cards[i].title
  BY TitlesOfTyped
<1>4. /\ t \in Seq(Titles) /\ Len(t) = k
      /\ \A i \in 1 .. k : t[i] = TitlesOf(cards)[i]
  BY <1>3, TakeTyped
<1>5. \A i \in 1 .. k : i \in 1 .. Len(cards)
  BY LenProperties
<1> HIDE DEF s, t, k
<1>6. \A i \in 1 .. Len(s) : s[i] = t[i]
  BY <1>1, <1>2, <1>3, <1>4, <1>5
<1>7. s = t
  BY <1>2, <1>4, <1>6, SeqEqual
<1>8. QED
  BY <1>7 DEF s, t

LEMMA CardsOfPage ==
    ASSUME NEW S, S \subseteq Titles, NEW hits \in Seq(S), NEW table,
           NEW C, C \subseteq Cards,
           \A t \in S \cap Showable : [title |-> t, genres |-> About[t].genres \cap table] \in C
    PROVE  /\ CardsOf(hits, table) \in Seq(C)
           /\ TitlesOf(CardsOf(hits, table)) = Shown(hits)
<1> DEFINE s == Shown(hits)
           cards == CardsOf(hits, table)
<1>1. s \in Seq(S \cap Showable)
  BY KeptTyped DEF Shown, Showable
<1>2. cards = [i \in 1 .. Len(s) |-> [title |-> s[i], genres |-> About[s[i]].genres \cap table]]
  BY DEF CardsOf
<1> HIDE DEF s, cards
<1>3. Len(s) \in Nat /\ \A i \in 1 .. Len(s) : s[i] \in S \cap Showable
  BY <1>1, LenProperties, ElementOfSeq
<1>4. \A i \in 1 .. Len(s) : [title |-> s[i], genres |-> About[s[i]].genres \cap table] \in C
  BY <1>3
<1>5. cards \in Seq(C) /\ Len(cards) = Len(s)
  BY <1>2, <1>3, <1>4, IsASeq
<1>6. cards \in Seq(Cards)
  BY <1>5
<1>7. \A i \in 1 .. Len(s) : cards[i].title = s[i]
  BY <1>2
<1>8. s \in Seq(Titles)
  BY <1>1
<1>9. TitlesOf(cards) = s
  <2>1. TitlesOf(cards) \in Seq(Titles) /\ Len(TitlesOf(cards)) = Len(s)
        /\ \A i \in 1 .. Len(s) : TitlesOf(cards)[i] = s[i]
    BY <1>5, <1>6, <1>7, TitlesOfTyped
  <2>2. QED
    BY <1>8, <2>1, SeqEqual
<1>10. QED
  BY <1>5, <1>9 DEF s, cards

\* What is left of a query's genres by a genre table, or by none.
AreLeft(genres, req, table) ==
    /\ req \in Requests /\ req.kind \in Kinds
    /\ table \in {{}, GenreTable[req.kind]}
    /\ genres \subseteq req.genres \cap table
    /\ req.genres # {} => genres # {}

\* The cards of a page fit the row the page was asked for.
LEMMA CardsFit ==
    ASSUME NEW order \in Rankings, NEW req, NEW table, NEW genres, AreLeft(genres, req, table),
           NEW path, PathIsFor(path, req, genres), NEW p \in Nat \ {0}
    PROVE  /\ CardsOf(Page(order, path, p), table) \in Seq(Fits(req))
           /\ TitlesOf(CardsOf(Page(order, path, p), table)) = Shown(Page(order, path, p))
<1> DEFINE L == ListedTitles(path)
<1>0. /\ req \in Requests /\ req.kind \in Kinds
      /\ table \in {{}, GenreTable[req.kind]} /\ genres \subseteq req.genres \cap table
      /\ req.genres # {} => genres # {}
  BY DEF AreLeft
<1>1. /\ path.sort \in Sorts /\ path.kind = req.kind
      /\ \/ path.list = "trending" /\ Mode(req) = "trending" /\ ~req.anime /\ genres = {}
         \/ path.list = "discover" /\ path.anime = req.anime /\ path.genres = genres
  BY DEF PathIsFor
<1>2. Page(order, path, p) \in Seq(L)
  BY <1>1, CatalogTyped, PageIsNext
<1>3. L \subseteq Titles
  BY DEF ListedTitles
<1>4. table \subseteq UNION Range(GenreTable)
  BY <1>0, CatalogAssumption DEF Range
<1>5. \A t \in L \cap Showable :
         [title |-> t, genres |-> About[t].genres \cap table] \in Fits(req)
  <2> SUFFICES ASSUME NEW t \in L \cap Showable,
                      NEW c, c = [title |-> t, genres |-> About[t].genres \cap table]
               PROVE  c \in Fits(req)
    OBVIOUS
  <2>1. /\ t \in Titles /\ About[t].shown /\ About[t].kind = req.kind
        /\ path.list = "discover" =>
              /\ ~About[t].adult
              /\ path.anime => About[t].anime
              /\ path.genres # {} => About[t].genres \cap path.genres # {}
    BY <1>1 DEF ListedTitles, Listed, Showable
  <2>2. c \in Cards /\ c.title = t /\ c.genres = About[t].genres \cap table
    BY <1>4, <2>1 DEF Cards
  <2>3. req.genres # {} => c.genres \cap req.genres # {}
    BY <1>0, <1>1, <2>1, <2>2
  <2>4. req.anime => About[t].anime
    BY <1>1, <2>1
  <2>5. About[t].adult => Mode(req) = "trending" /\ req.genres = {} /\ ~req.anime
    BY <1>0, <1>1, <2>1
  <2>6. QED
    BY <2>1, <2>2, <2>3, <2>4, <2>5 DEF Fits
<1>6. Fits(req) \subseteq Cards
  BY DEF Fits
<1> HIDE DEF L
<1>7. QED
  BY <1>2, <1>3, <1>5, <1>6, CardsOfPage

-----------------------------------------------------------------------------
(* The answered row                                                        *)

\* A row that is cut off is the top of the catalog, and as long as it could be
\* when no call was lost.
LEMMA FinishedIsTheTop ==
    ASSUME NEW order \in Rankings, NEW day, NEW r, r.req.max \in Nat \ {0},
           r.out \in Seq(Cards), NEW asked, asked.sort \in Sorts, NEW k \in Nat,
           TitlesOf(r.out) = Shown(Take(Catalog(order, asked), k)),
           NEW s, s.out = Take(r.out, r.req.max)
    PROVE  /\ Len(s.out) <= r.req.max
           /\ IsPrefix(TitlesOf(s.out), Shown(Catalog(order, asked)))
           /\ Len(r.out) >= r.req.max \/ k >= Reach(r.req.max) \/ Len(Catalog(order, asked)) <= k
              => Len(s.out) >= LesserOf(r.req.max,
                                        Len(Shown(Take(Catalog(order, asked), Reach(r.req.max)))))
<1> DEFINE C == Catalog(order, asked)
           T == TitlesOf(r.out)
           max == r.req.max
           reach == Reach(r.req.max)
           out == s.out
           len == Len(r.out)
           there == Len(Kept(Take(C, reach), Showable))
<1>1. C \in Seq(Titles) /\ Len(C) \in Nat
  BY CatalogTyped, LenProperties
<1>2. max \in Nat \ {0} /\ reach \in Nat
  BY PagesReach
<1>3. T \in Seq(Titles) /\ Len(T) = len /\ len \in Nat
  BY TitlesOfTyped, LenProperties
<1>4. T = Kept(Take(C, k), Showable)
  BY DEF Shown, Showable
<1>5. out \in Seq(Cards) /\ Len(out) = IF max < len THEN max ELSE len
  BY <1>2, TakeTyped
<1>6. TitlesOf(out) = Take(T, max)
  BY <1>2, TitlesOfTake
<1>7. Kept(C, Showable) \in Seq(Titles) /\ Take(C, k) \in Seq(Titles)
      /\ Take(C, reach) \in Seq(Titles)
  BY <1>1, <1>2, KeptTypedToo, TakeTyped
<1>8. there \in Nat
  BY <1>7, KeptTypedToo, LenProperties
<1>9. IsPrefix(T, Kept(C, Showable)) /\ IsPrefix(Take(T, max), T)
  BY <1>1, <1>2, <1>3, <1>4, KeptOfTake, TakePrefix
<1>10. Take(T, max) \in Seq(Titles)
  BY <1>2, <1>3, TakeTyped
<1> HIDE DEF C, T, max, reach, out, len, there
<1>11. IsPrefix(Take(T, max), Kept(C, Showable))
  BY <1>3, <1>7, <1>9, <1>10, PrefixTransitive
<1>12. ASSUME len >= max \/ k >= reach \/ Len(C) <= k
       PROVE  Len(out) >= LesserOf(max, there)
  <2>1. CASE len >= max
    BY <1>2, <1>3, <1>5, <1>8, <2>1 DEF LesserOf
  <2>2. CASE k >= reach
    <3>1. there <= Len(T)
      BY <1>1, <1>2, <1>4, <2>2, KeptOfMore DEF there
    <3>2. QED
      BY <1>2, <1>3, <1>5, <1>8, <3>1 DEF LesserOf
  <2>3. CASE Len(C) <= k
    <3>1. T = Kept(C, Showable)
      BY <1>1, <1>4, <2>3, TakeAll
    <3>2. there <= Len(T)
      BY <1>1, <1>2, <3>1, KeptOfTake DEF there
    <3>3. QED
      BY <1>2, <1>3, <1>5, <1>8, <3>2 DEF LesserOf
  <2>4. QED
    BY <1>12, <2>1, <2>2, <2>3
<1>13. Shown(Take(C, reach)) = Kept(Take(C, reach), Showable) /\ Shown(C) = Kept(C, Showable)
  BY DEF Shown, Showable
<1>14. Len(out) <= max
  BY <1>2, <1>3, <1>5
<1>15. QED
  BY <1>6, <1>11, <1>12, <1>13, <1>14 DEF C, T, max, reach, out, len, there

\* A row that is answered has asked for no more than it had.
IsAnswer(s, r, out) ==
    /\ s # Idle /\ Walked(s) /\ s.pc = "answered" /\ s.req = r.req
    /\ s.out = out /\ s.path = r.path /\ s.lost = r.lost /\ s.steady = r.steady

LEMMA AnsweredKeeps ==
    ASSUME NEW r, DOMAIN r = Fields, r.req \in Requests, Counted(r),
           NEW out \in Seq(Fits(r.req))
    PROVE  IsAnswer(Answered(r, out), r, out)
<1> DEFINE s == Answered(r, out)
<1>1. /\ DOMAIN s = Fields /\ s.pc = "answered" /\ s.req = r.req
      /\ s.page = r.page /\ s.calls = r.calls /\ s.out = out /\ s.path = r.path
      /\ s.lost = r.lost /\ s.steady = r.steady
  BY DEF Answered, Fields
<1> HIDE DEF s
<1>2. s # Idle
  <2>1. DOMAIN Idle = {"pc"}
    BY DEF Idle
  <2>2. QED
    BY <1>1, <2>1 DEF Fields
<1>3. Counted(s) /\ Filtered(s)
  BY <1>1 DEF Counted, Filtered
<1>4. IsAnswer(s, r, out)
  BY <1>1, <1>2, <1>3 DEF Walked, IsAnswer
<1>5. QED
  BY <1>4 DEF s

\* An empty row that no page was asked for.
LEMMA EmptyKeeps ==
    ASSUME NEW order, NEW day, NEW r, DOMAIN r = Fields, r.req \in Requests, Counted(r),
           r.path = None,
           \/ r.lost \/ r.req.kind = None
           \/ r.req.genres # {} /\ r.req.genres \cap GenreTable[r.req.kind] = {}
    PROVE  /\ Answered(r, <<>>) # Idle /\ Walked(Answered(r, <<>>))
           /\ Faithful(day, order, Answered(r, <<>>))
<1>1. PICK out \in Seq(Fits(r.req)) : out = <<>>
  BY EmptySeq
<1>2. PICK s : s = Answered(r, out)
  OBVIOUS
<1>3. IsAnswer(s, r, out)
  BY <1>2, AnsweredKeeps
<1>4. /\ s # Idle /\ Walked(s) /\ s.pc = "answered" /\ s.req = r.req
      /\ s.path = r.path /\ s.lost = r.lost
  BY <1>3 DEF IsAnswer
<1>5. IsTheTop(order, s)
  BY <1>4 DEF IsTheTop
<1>6. FillsUp(day, order, s)
  BY <1>4 DEF FillsUp
<1>7. Faithful(day, order, s)
  BY <1>4, <1>5, <1>6 DEF Faithful
<1>8. QED
  BY <1>1, <1>2, <1>4, <1>7

\* The row at the end of its walk.
LEMMA FinishKeeps ==
    ASSUME NEW order \in Rankings, NEW day, NEW r, Walked(r), r.pc \in {"walk", "page"},
           Faithful(day, order, r), NEW s, s = Finish(r),
           NEW asked, asked = Path(r.req, r.genres, day),
           \/ r.lost \/ Len(r.out) >= r.req.max
           \/ r.page > Pages(r.req.max)
           \/ ~r.steady
           \/ Len(Catalog(order, asked)) <= (r.page - 1) * TMDB_PAGE_SIZE
    PROVE  s # Idle /\ Walked(s) /\ Faithful(day, order, s)
<1> DEFINE out == Take(r.out, r.req.max)
           k == (r.page - 1) * TMDB_PAGE_SIZE
<1>1. /\ r.req.max \in Nat \ {0} /\ r.out \in Seq(Fits(r.req)) /\ r.page \in Nat \ {0}
      /\ r.req.kind \in Kinds
  BY RequestsAssumption DEF Walked, Filtered, Counted
<1>2. out \in Seq(Fits(r.req))
  BY <1>1, TakeTyped
<1>3. r.out \in Seq(Cards)
  BY <1>1 DEF Fits
<1>4. /\ s # Idle /\ Walked(s) /\ s.pc = "answered" /\ s.req = r.req
      /\ s.out = out /\ s.path = r.path /\ s.lost = r.lost /\ s.steady = r.steady
  BY <1>2, AnsweredKeeps DEF Walked, Finish, IsAnswer
<1>5. ASSUME r.steady PROVE IsTheTop(order, s) /\ FillsUp(day, order, s)
  <2>1. r.path \in {None, asked} /\ TitlesOf(r.out) = Shown(Take(Catalog(order, asked), k))
    BY <1>5 DEF Faithful
  <2>2. k \in Nat /\ asked.sort \in Sorts
    BY <1>1, PageOffsets, PathTyped DEF PathIsFor
  <2>3. /\ Len(s.out) <= r.req.max
        /\ IsPrefix(TitlesOf(s.out), Shown(Catalog(order, asked)))
        /\ Len(r.out) >= r.req.max \/ k >= Reach(r.req.max) \/ Len(Catalog(order, asked)) <= k
           => Len(s.out) >= LesserOf(r.req.max,
                                     Len(Shown(Take(Catalog(order, asked), Reach(r.req.max)))))
    <3>1. s.out = Take(r.out, r.req.max)
      BY <1>4
    <3> HIDE DEF out, k
    <3>2. QED
      BY <1>1, <1>3, <2>1, <2>2, <3>1, FinishedIsTheTop DEF k
  <2>4. IsTheTop(order, s)
    BY <1>4, <2>1, <2>3 DEF IsTheTop
  <2>5. r.page > Pages(r.req.max) => k >= Reach(r.req.max)
    <3>1. /\ r.page \in Nat /\ r.calls \in Nat
          /\ r.page <= r.calls + 1 /\ r.calls <= Pages(r.req.max)
      BY DEF Walked, Counted
    <3>2. Pages(r.req.max) \in Nat
      BY <1>1, PagesTyped
    <3>3. r.page > Pages(r.req.max) => r.page - 1 = Pages(r.req.max)
      BY <3>1, <3>2
    <3>4. Pages(r.req.max) * TMDB_PAGE_SIZE >= Reach(r.req.max)
      BY <1>1, PagesReach
    <3>5. QED
      BY <3>3, <3>4
  <2>6. FillsUp(day, order, s)
    <3> SUFFICES ASSUME ~r.lost PROVE FillsUp(day, order, s)
      BY <1>4 DEF FillsUp
    <3>1. r.genres = r.req.genres \cap GenreTable[r.req.kind]
      BY DEF Walked, Filtered
    <3>2. Len(s.out) >= LesserOf(r.req.max,
                                 Len(Shown(Take(Catalog(order, asked), Reach(r.req.max)))))
      BY <1>5, <2>3, <2>5
    <3>3. QED
      BY <1>4, <3>1, <3>2 DEF FillsUp
  <2>7. QED
    BY <2>4, <2>6
<1>6. QED
  BY <1>4, <1>5 DEF Faithful

-----------------------------------------------------------------------------
(* The walk                                                                *)

\* With whatever genre table, the walk starts at its first page, filtered.
LEMMA AfterNamesReady ==
    ASSUME NEW order \in Rankings, NEW day, NEW r, Walked(r), r.pc = "names",
           NEW table \in {{}, GenreTable[r.req.kind]},
           ~r.lost => table = GenreTable[r.req.kind],
           NEW s, s = AfterNames(r, table)
    PROVE  s # Idle /\ Walked(s) /\ Faithful(day, order, s)
<1>1. /\ DOMAIN r = Fields /\ r.req \in Requests /\ r.req.max \in Nat \ {0}
      /\ Counted(r) /\ r.out = <<>> /\ r.path = None /\ r.req.kind \in Kinds
      /\ r.page = 1 /\ r.calls = 0
  BY RequestsAssumption DEF Walked, Filtered, Counted
<1>2. CASE r.req.genres # {} /\ r.req.genres \cap table = {}
  <2>1. r.lost \/ r.req.genres \cap GenreTable[r.req.kind] = {}
    BY <1>2
  <2>2. s = Answered(r, <<>>)
    BY <1>2 DEF AfterNames
  <2>3. QED
    BY <1>1, <1>2, <2>1, <2>2, EmptyKeeps
<1>3. CASE ~(r.req.genres # {} /\ r.req.genres \cap table = {})
  <2>1. s = [r EXCEPT !.pc = "walk", !.table = table, !.genres = r.req.genres \cap table]
    BY <1>3 DEF AfterNames
  <2>2. /\ DOMAIN s = Fields /\ s.pc = "walk" /\ s.req = r.req /\ s.table = table
        /\ s.genres = r.req.genres \cap table /\ s.page = 1 /\ s.calls = 0
        /\ s.out = r.out /\ s.path = None /\ s.lost = r.lost
    BY <1>1, <2>1 DEF Fields
  <2>3. Counted(s)
    BY <1>1, <2>2, PagesTyped DEF Counted
  <2>4. Filtered(s)
    BY <1>1, <1>3, <2>2 DEF Walked, Filtered
  <2>5. s # Idle
    BY <2>2 DEF Idle
  <2>6. ASSUME NEW asked, asked.sort \in Sorts
        PROVE  TitlesOf(s.out) = Shown(Take(Catalog(order, asked), (s.page - 1) * TMDB_PAGE_SIZE))
    <3>1. PICK none \in Seq(Cards) : none = s.out /\ Len(none) = 0
      BY <1>1, <2>2, EmptySeq
    <3>2. TitlesOf(none) = <<>>
      BY <3>1, TitlesOfTyped, EmptySeq
    <3>3. (s.page - 1) * TMDB_PAGE_SIZE = 0
      BY <2>2, PageAssumption
    <3>4. Take(Catalog(order, asked), 0) = <<>>
      BY <2>6, CatalogTyped, TakeNothing
    <3>5. Shown(<<>>) = <<>>
      BY KeptEmpty DEF Shown
    <3>6. QED
      BY <3>1, <3>2, <3>3, <3>4, <3>5
  <2>7. Path(s.req, s.genres, day).sort \in Sorts
    BY PathTyped DEF PathIsFor
  <2>8. Faithful(day, order, s)
    BY <2>2, <2>6, <2>7 DEF Faithful
  <2>9. QED
    BY <2>2, <2>3, <2>4, <2>5, <2>8 DEF Walked, Fields
<1>4. QED
  BY <1>2, <1>3

\* One page more is gathered.
LEMMA PageGathered ==
    ASSUME NEW order \in Rankings, NEW asked, asked.sort \in Sorts, NEW p \in Nat \ {0},
           NEW out \in Seq(Cards), NEW cards \in Seq(Cards),
           TitlesOf(cards) = Shown(Page(order, asked, p)),
           TitlesOf(out) = Shown(Take(Catalog(order, asked), (p - 1) * TMDB_PAGE_SIZE))
    PROVE  TitlesOf(out \o cards)
              = Shown(Take(Catalog(order, asked), (p + 1 - 1) * TMDB_PAGE_SIZE))
<1> DEFINE C == Catalog(order, asked)
           hits == Page(order, asked, p)
           m == (p - 1) * TMDB_PAGE_SIZE
           n == p * TMDB_PAGE_SIZE
<1>1. C \in Seq(Titles) /\ m \in Nat /\ n \in Nat /\ (p + 1 - 1) * TMDB_PAGE_SIZE = n
  BY CatalogTyped, PageOffsets
<1>2. hits \in Seq(Titles) /\ Take(C, m) \o hits = Take(C, n)
  BY <1>1, PageIsNext
<1>3. TitlesOf(out \o cards) = TitlesOf(out) \o TitlesOf(cards)
  BY TitlesOfConcat
<1>4. TitlesOf(cards) = Kept(hits, Showable) /\ TitlesOf(out) = Kept(Take(C, m), Showable)
  BY DEF Shown, Showable
<1>5. Take(C, m) \in Seq(Titles)
  BY <1>1, TakeTyped
<1> HIDE DEF C, hits, m, n
<1>6. Kept(Take(C, m) \o hits, Showable) = Kept(Take(C, m), Showable) \o Kept(hits, Showable)
  BY <1>2, <1>5, KeptConcat
<1>7. TitlesOf(out \o cards) = Kept(Take(C, n), Showable)
  BY <1>2, <1>3, <1>4, <1>6
<1>8. QED
  BY <1>1, <1>7 DEF Shown, Showable, C

\* The next page of a row that is walked.
LEMMA WalkKeeps ==
    ASSUME NEW order \in Rankings, NEW day \in 0 .. LastDay, NEW r, Walked(r), r.pc = "walk",
           Faithful(day, order, r), r.page <= Pages(r.req.max),
           NEW s, s = [r EXCEPT !.pc = "page", !.calls = r.calls + 1,
                                !.path = Path(r.req, r.genres, day)]
    PROVE  s # Idle /\ Walked(s) /\ Faithful(day, order, s)
<1>1. /\ DOMAIN s = Fields /\ s.pc = "page" /\ s.req = r.req /\ s.genres = r.genres
      /\ s.page = r.page /\ s.calls = r.calls + 1 /\ s.table = r.table /\ s.out = r.out
      /\ s.path = Path(r.req, r.genres, day) /\ s.lost = r.lost /\ s.steady = r.steady
  BY DEF Walked, Fields
<1>2. r.req.max \in Nat \ {0}
  BY RequestsAssumption DEF Walked
<1>3. Counted(s)
  BY <1>1, <1>2, PagesTyped DEF Walked, Counted
<1>4. Filtered(s)
  BY <1>1 DEF Walked, Filtered
<1>5. Faithful(day, order, s)
  BY <1>1 DEF Faithful
<1>6. s # Idle
  BY <1>1 DEF Idle
<1>7. QED
  BY <1>1, <1>3, <1>4, <1>5, <1>6 DEF Walked

\* A page that comes.
AfterPage(r, hits) ==
    IF hits = <<>> THEN Finish(r)
    ELSE [r EXCEPT !.pc = "walk", !.page = r.page + 1, !.out = r.out \o CardsOf(hits, r.table)]

LEMMA PageKeeps ==
    ASSUME NEW order \in Rankings, NEW day, NEW r, Walked(r), r.pc = "page",
           Faithful(day, order, r),
           NEW hits, hits = Page(order, r.path, r.page),
           NEW s, s = AfterPage(r, hits)
    PROVE  s # Idle /\ Walked(s) /\ Faithful(day, order, s)
<1> DEFINE asked == Path(r.req, r.genres, day)
           cards == CardsOf(hits, r.table)
<1>1. /\ r.req \in Requests /\ r.req.kind \in Kinds /\ r.page \in Nat \ {0}
      /\ r.table \in {{}, GenreTable[r.req.kind]} /\ r.genres \subseteq r.req.genres \cap r.table
      /\ r.req.genres # {} => r.genres # {}
      /\ r.out \in Seq(Fits(r.req))
  BY DEF Walked, Filtered, Counted
<1>2. PICK then \in 0 .. LastDay : r.path = Path(r.req, r.genres, then)
  BY DEF Walked, Filtered
<1>3. r.path.sort \in Sorts /\ asked.sort \in Sorts
  BY <1>2, PathTyped DEF PathIsFor
<1>4. CASE hits = <<>>
  <2>1. r.steady => Len(Catalog(order, asked)) <= (r.page - 1) * TMDB_PAGE_SIZE
    <3> SUFFICES ASSUME r.steady
                 PROVE  Len(Catalog(order, asked)) <= (r.page - 1) * TMDB_PAGE_SIZE
      OBVIOUS
    <3>1. Page(order, asked, r.page) = <<>>
      BY <1>4 DEF Faithful
    <3>2. QED
      BY <1>1, <1>3, <3>1, CatalogTyped, PageIsNext
  <2>2. QED
    BY <1>4, <2>1, FinishKeeps DEF AfterPage
<1>5. CASE hits # <<>>
  <2>1. /\ DOMAIN s = Fields /\ s.pc = "walk" /\ s.req = r.req /\ s.genres = r.genres
        /\ s.page = r.page + 1 /\ s.calls = r.calls /\ s.table = r.table
        /\ s.out = r.out \o cards
        /\ s.path = r.path /\ s.lost = r.lost /\ s.steady = r.steady
    BY <1>5 DEF Walked, Fields, AfterPage
  <2>2. cards \in Seq(Fits(r.req)) /\ TitlesOf(cards) = Shown(hits)
    <3>1. AreLeft(r.genres, r.req, r.table)
      BY <1>1 DEF AreLeft
    <3>2. PathIsFor(r.path, r.req, r.genres)
      BY <1>2, PathTyped
    <3>3. /\ CardsOf(Page(order, r.path, r.page), r.table) \in Seq(Fits(r.req))
          /\ TitlesOf(CardsOf(Page(order, r.path, r.page), r.table))
                = Shown(Page(order, r.path, r.page))
      BY <1>1, <3>1, <3>2, CardsFit
    <3>4. QED
      BY <3>3
  <2>3. Counted(s)
    BY <2>1 DEF Walked, Counted
  <2>4. Filtered(s)
    <3>1. s.out \in Seq(Fits(s.req))
      BY <1>1, <2>1, <2>2, ConcatProperties
    <3>2. QED
      BY <2>1, <3>1 DEF Walked, Filtered
  <2>5. Faithful(day, order, s)
    <3> SUFFICES ASSUME r.steady PROVE Faithful(day, order, s)
      BY <2>1 DEF Faithful
    <3>1. /\ r.path = asked
          /\ TitlesOf(r.out)
                = Shown(Take(Catalog(order, asked), (r.page - 1) * TMDB_PAGE_SIZE))
      BY DEF Faithful
    <3>2. r.out \in Seq(Cards) /\ cards \in Seq(Cards)
      BY <1>1, <2>2 DEF Fits
    <3>3. TitlesOf(r.out \o cards)
             = Shown(Take(Catalog(order, asked), (r.page + 1 - 1) * TMDB_PAGE_SIZE))
      <4>1. TitlesOf(cards) = Shown(Page(order, asked, r.page))
        BY <2>2, <3>1
      <4> HIDE DEF cards, asked
      <4>2. QED
        BY <1>1, <1>3, <3>1, <3>2, <4>1, PageGathered
    <3>4. /\ Path(s.req, s.genres, day) = asked /\ s.path = asked
          /\ TitlesOf(s.out) = Shown(Take(Catalog(order, asked), (s.page - 1) * TMDB_PAGE_SIZE))
      <4>1. Path(s.req, s.genres, day) = asked
        BY <2>1
      <4>2. s.path = asked
        BY <2>1, <3>1
      <4>3. s.out = r.out \o cards /\ s.page = r.page + 1
        BY <2>1
      <4> HIDE DEF cards, asked
      <4>4. TitlesOf(s.out)
               = Shown(Take(Catalog(order, asked), (s.page - 1) * TMDB_PAGE_SIZE))
        <5>1. TitlesOf(s.out) = TitlesOf(r.out \o cards)
          BY <4>3
        <5>2. s.page - 1 = r.page + 1 - 1
          BY <1>1, <4>3
        <5>3. QED
          BY <3>3, <5>1, <5>2
      <4>5. QED
        BY <4>1, <4>2, <4>4
    <3>5. s.pc = "walk"
      BY <2>1
    <3> HIDE DEF asked
    <3>6. QED
      BY <3>4, <3>5 DEF Faithful
  <2>6. s # Idle
    BY <2>1 DEF Idle
  <2>7. QED
    BY <2>1, <2>3, <2>4, <2>5, <2>6 DEF Walked
<1>6. QED
  BY <1>4, <1>5

\* One step keeps the invariant.
LEMMA WalkInvStep ==
    ASSUME WalkInv, [Next]_vars
    PROVE  WalkInv'
<1> DEFINE Fine == row' # Idle => Walked(row') /\ Faithful(today', ranking', row')
<1>0. /\ today \in 0 .. LastDay /\ ranking \in Rankings
      /\ DOMAIN names = Kinds /\ \A k \in Kinds : names[k] \in {None, GenreTable[k]}
      /\ row # Idle => Walked(row) /\ Faithful(today, ranking, row)
  BY DEF WalkInv
<1>1. CASE Start
  <2> DEFINE New(req) == [pc |-> "names", req |-> req, table |-> {}, genres |-> {},
                         page |-> 1, path |-> None, out |-> <<>>,
                         calls |-> 0, lost |-> FALSE, steady |-> TRUE]
  <2>1. PICK req \in Requests :
           row' = IF req.kind = None THEN Answered(New(req), <<>>) ELSE New(req)
    BY <1>1 DEF Start
  <2> DEFINE r == New(req)
  <2>2. /\ DOMAIN r = Fields /\ r.pc = "names" /\ r.req = req /\ r.page = 1 /\ r.calls = 0
        /\ r.path = None /\ r.out = <<>>
    BY DEF Fields
  <2> HIDE DEF New
  <2>3. req.max \in Nat \ {0} /\ req.kind \in Kinds \cup {None}
    BY RequestsAssumption
  <2>4. Counted(r)
    BY <2>2, <2>3, PagesTyped DEF Counted
  <2>5. ASSUME req.kind = None PROVE Fine
    BY <2>1, <2>2, <2>4, <2>5, EmptyKeeps
  <2>6. ASSUME req.kind # None PROVE Fine
    <3>1. r.out \in Seq(Fits(r.req))
      BY <2>2, EmptySeq
    <3>2. Filtered(r)
      BY <2>2, <2>3, <2>6, <3>1 DEF Filtered
    <3>3. Walked(r) /\ Faithful(today', ranking', r)
      BY <2>2, <2>4, <3>2 DEF Walked, Faithful
    <3>4. QED
      BY <2>1, <2>6, <3>3
  <2>7. Fine
    BY <2>1, <2>5, <2>6
  <2>8. QED
    BY <1>0, <1>1, <2>7 DEF Start, WalkInv
<1>2. CASE NamesHeld \/ NamesFetched \/ NamesLost
  <2>1. row # Idle /\ row.pc = "names" /\ Walked(row) /\ row.req.kind \in Kinds
    BY <1>0, <1>2 DEF NamesHeld, NamesFetched, NamesLost, Idle, Walked, Filtered
  <2>2. PICK r, table :
           /\ Walked(r) /\ r.pc = "names" /\ table \in {{}, GenreTable[r.req.kind]}
           /\ ~r.lost => table = GenreTable[r.req.kind]
           /\ row' = AfterNames(r, table)
    <3>1. CASE NamesHeld \/ NamesFetched
      <4>1. row' = AfterNames(row, GenreTable[row.req.kind])
        BY <1>0, <2>1, <3>1 DEF NamesHeld, NamesFetched
      <4>2. QED
        BY <2>1, <4>1
    <3>2. CASE NamesLost
      <4>1. PICK r : r = [row EXCEPT !.lost = TRUE] /\ row' = AfterNames(r, {})
        BY <3>2 DEF NamesLost
      <4>2. /\ DOMAIN r = Fields /\ r.pc = row.pc /\ r.req = row.req
            /\ r.page = row.page /\ r.calls = row.calls /\ r.lost
            /\ r.out = row.out /\ r.path = row.path
        BY <2>1, <4>1 DEF Walked, Fields
      <4>3. Counted(r) /\ Filtered(r)
        BY <2>1, <4>2 DEF Walked, Counted, Filtered
      <4>4. Walked(r)
        BY <2>1, <4>2, <4>3 DEF Walked
      <4>5. QED
        BY <2>1, <4>1, <4>2, <4>4
    <3>3. QED
      BY <1>2, <3>1, <3>2
  <2>3. Fine
    BY <1>0, <1>2, <2>2, AfterNamesReady DEF NamesHeld, NamesFetched, NamesLost
  <2>4. /\ today' = today /\ ranking' = ranking
        /\ DOMAIN names' = Kinds /\ \A k \in Kinds : names'[k] \in {None, GenreTable[k]}
    BY <1>0, <1>2, <2>1 DEF NamesHeld, NamesFetched, NamesLost
  <2>5. QED
    BY <1>0, <2>3, <2>4 DEF WalkInv
<1>3. CASE Walk
  <2>1. /\ row # Idle /\ row.pc = "walk" /\ Walked(row) /\ Faithful(today, ranking, row)
        /\ UNCHANGED <<today, ranking, names>>
    BY <1>0, <1>3 DEF Walk, Idle
  <2>2. /\ row.page \in Nat /\ Pages(row.req.max) \in Nat
    BY <2>1, PagesTyped, RequestsAssumption DEF Walked, Counted
  <2>3. CASE row.page > Pages(row.req.max) \/ Len(row.out) >= row.req.max
    <3>1. row' = Finish(row)
      BY <1>3, <2>3 DEF Walk
    <3>2. Fine
      BY <1>0, <2>1, <2>3, <3>1, FinishKeeps
    <3>3. QED
      BY <1>0, <2>1, <3>2 DEF WalkInv
  <2>4. CASE ~(row.page > Pages(row.req.max) \/ Len(row.out) >= row.req.max)
    <3>1. row' = [row EXCEPT !.pc = "page", !.calls = row.calls + 1,
                             !.path = Path(row.req, row.genres, today)]
      BY <1>3, <2>4 DEF Walk
    <3>2. row.page <= Pages(row.req.max)
      BY <2>2, <2>4
    <3>3. Fine
      BY <1>0, <2>1, <3>1, <3>2, WalkKeeps
    <3>4. QED
      BY <1>0, <2>1, <3>3 DEF WalkInv
  <2>5. QED
    BY <2>3, <2>4
<1>4. CASE PageHit
  <2>1. /\ row # Idle /\ row.pc = "page" /\ Walked(row) /\ Faithful(today, ranking, row)
        /\ UNCHANGED <<today, ranking, names>>
    BY <1>0, <1>4 DEF PageHit, Idle
  <2>2. PICK hits : /\ hits = Page(ranking, row.path, row.page)
                    /\ row' = AfterPage(row, hits)
    BY <1>4 DEF PageHit, AfterPage
  <2>3. Fine
    BY <1>0, <2>1, <2>2, PageKeeps
  <2>4. QED
    BY <1>0, <2>1, <2>3 DEF WalkInv
<1>5. CASE PageLost
  <2>1. /\ row # Idle /\ row.pc = "page" /\ Walked(row) /\ Faithful(today, ranking, row)
        /\ UNCHANGED <<today, ranking, names>>
    BY <1>0, <1>5 DEF PageLost, Idle
  <2>2. PICK r : r = [row EXCEPT !.lost = TRUE] /\ row' = Finish(r)
    BY <1>5 DEF PageLost
  <2>3. /\ DOMAIN r = Fields /\ r.pc = "page" /\ r.req = row.req /\ r.genres = row.genres
        /\ r.page = row.page /\ r.calls = row.calls /\ r.table = row.table /\ r.out = row.out
        /\ r.path = row.path /\ r.lost /\ r.steady = row.steady
    BY <2>1, <2>2 DEF Walked, Fields
  <2>4. Counted(r) /\ Filtered(r) /\ Faithful(today, ranking, r)
    BY <2>1, <2>3 DEF Walked, Counted, Filtered, Faithful
  <2>5. Walked(r)
    BY <2>1, <2>3, <2>4 DEF Walked
  <2>6. Fine
    BY <1>0, <2>1, <2>2, <2>3, <2>4, <2>5, FinishKeeps
  <2>7. QED
    BY <1>0, <2>1, <2>6 DEF WalkInv
<1>6. CASE Return
  BY <1>0, <1>6 DEF Return, WalkInv
<1>7. CASE Rerank \/ Midnight
  <2>1. today' \in 0 .. LastDay /\ ranking' \in Rankings /\ names' = names
    BY <1>0, <1>7, LastDayAssumption DEF Rerank, Midnight
  <2>2. CASE row = Idle
    BY <1>0, <1>7, <2>1, <2>2 DEF Rerank, Midnight, Disturbed, WalkInv
  <2>3. CASE row # Idle
    <3>1. row' = [row EXCEPT !.steady = FALSE]
      BY <1>7, <2>3 DEF Rerank, Midnight, Disturbed
    <3> DEFINE r == row'
    <3>2. /\ DOMAIN r = Fields /\ r.pc = row.pc /\ r.req = row.req /\ r.genres = row.genres
          /\ r.page = row.page /\ r.calls = row.calls /\ r.path = row.path
          /\ r.table = row.table /\ r.out = row.out /\ r.lost = row.lost /\ ~r.steady
      BY <1>0, <2>3, <3>1 DEF Walked, Fields
    <3> HIDE DEF r
    <3>3. Counted(r) /\ Filtered(r)
      BY <1>0, <2>3, <3>2 DEF Walked, Counted, Filtered
    <3>4. Walked(r) /\ Faithful(today', ranking', r)
      BY <1>0, <2>3, <3>2, <3>3 DEF Walked, Faithful
    <3>5. QED
      BY <1>0, <2>1, <3>4 DEF WalkInv, r
  <2>4. QED
    BY <2>2, <2>3
<1>8. CASE UNCHANGED vars
  BY <1>0, <1>8 DEF vars, WalkInv
<1>9. QED
  BY <1>1, <1>2, <1>3, <1>4, <1>5, <1>6, <1>7, <1>8 DEF Next, Run

LEMMA WalkInvAlways == Spec => []WalkInv
<1>1. Init => WalkInv
  BY LastDayAssumption DEF Init, WalkInv
<1>2. QED
  BY <1>1, WalkInvStep, PTL DEF Spec

-----------------------------------------------------------------------------
(* The theorems                                                            *)

\* The day, TMDB's order, the genre tables and the row stay in their types, and
\* no page is asked for beyond the cap.
THEOREM DiscoveryTypeCorrect == Spec => []TypeOK
<1>1. WalkInv => TypeOK
  <2> SUFFICES ASSUME WalkInv PROVE TypeOK
    OBVIOUS
  <2>1. ASSUME row # Idle
        PROVE  /\ row.pc \in {"names", "walk", "page", "answered"}
               /\ row.req \in Requests
               /\ row.calls \in 0 .. DISCOVERY_MAX_PAGES
               /\ row.page \in 1 .. DISCOVERY_MAX_PAGES + 1
               /\ row.out \in Seq(Cards)
    <3>1. Walked(row) /\ row.req.max \in Nat \ {0}
      BY <2>1, RequestsAssumption DEF WalkInv, Walked
    <3>2. Pages(row.req.max) \in Nat /\ Pages(row.req.max) <= DISCOVERY_MAX_PAGES
      BY <3>1, PagesTyped
    <3>3. Fits(row.req) \subseteq Cards
      BY DEF Fits
    <3>4. row.out \in Seq(Cards)
      BY <3>1, <3>3 DEF Walked, Filtered
    <3>5. QED
      BY <3>1, <3>2, <3>4, PageAssumption DEF Walked, Counted
  <2>2. QED
    BY <2>1 DEF WalkInv, TypeOK, Cards
<1>2. QED
  BY <1>1, WalkInvAlways, PTL

\* A row answered while TMDB's catalog stood still is the top of that catalog, in
\* its order, without the entries that cannot be shown, whichever calls were lost.
THEOREM RowIsTheTopHolds == Spec => []RowIsTheTop
<1>1. WalkInv => RowIsTheTop
  <2> SUFFICES ASSUME WalkInv, row.pc = "answered", row.steady, row.path # None
               PROVE  /\ Len(row.out) <= row.req.max
                      /\ IsPrefix(TitlesOf(row.out), Shown(Catalog(ranking, row.path)))
    BY DEF RowIsTheTop
  <2>1. row # Idle
    BY DEF Idle
  <2>2. QED
    BY <2>1 DEF WalkInv, Faithful, IsTheTop
<1>2. QED
  BY <1>1, WalkInvAlways, PTL

\* A row for which every call was answered is as long as was asked for whenever
\* the pages it may walk have enough entries to show.
THEOREM RowFillsUpHolds == Spec => []RowFillsUp
<1>1. WalkInv => RowFillsUp
  <2>1. WalkInv /\ row.pc = "answered" /\ row.steady => FillsUp(today, ranking, row)
    BY DEF WalkInv, Idle, Faithful
  <2>2. QED
    BY <2>1 DEF RowFillsUp, FillsUp, Reach
<1>2. QED
  BY <1>1, WalkInvAlways, PTL

\* Whatever changes while it is walked, a row holds only cards that can be shown
\* and that belong to it.
THEOREM RowInScopeHolds == Spec => []RowInScope
<1>1. WalkInv => RowInScope
  <2> SUFFICES ASSUME WalkInv, row # Idle, NEW i \in 1 .. Len(row.out)
               PROVE  LET card == row.out[i]
                          about == About[card.title]
                      IN  /\ about.shown
                          /\ about.kind = row.req.kind
                          /\ row.req.anime => about.anime
                          /\ row.req.genres # {} => card.genres \cap row.req.genres # {}
                          /\ about.adult =>
                                /\ Mode(row.req) = "trending"
                                /\ row.req.genres = {} /\ ~row.req.anime
    BY DEF RowInScope
  <2>1. row.out \in Seq(Fits(row.req))
    BY DEF WalkInv, Walked, Filtered
  <2>2. row.out[i] \in Fits(row.req)
    BY <2>1, ElementOfSeq
  <2>3. QED
    BY <2>2 DEF Fits
<1>2. QED
  BY <1>1, WalkInvAlways, PTL

\* Whatever TMDB answers, loses or reranks, a row asks for no more pages than the
\* query needs with one to spare, and never for more than the cap.
THEOREM PagesAreCapped ==
    Spec => [](row # Idle => row.calls <= Pages(row.req.max)
                             /\ row.calls <= DISCOVERY_MAX_PAGES)
<1>1. WalkInv => (row # Idle => row.calls <= Pages(row.req.max)
                                /\ row.calls <= DISCOVERY_MAX_PAGES)
  <2> SUFFICES ASSUME WalkInv, row # Idle
               PROVE  row.calls <= Pages(row.req.max) /\ row.calls <= DISCOVERY_MAX_PAGES
    OBVIOUS
  <2>1. row.calls \in Nat /\ row.calls <= Pages(row.req.max) /\ row.req.max \in Nat \ {0}
    BY RequestsAssumption DEF WalkInv, Walked, Counted
  <2>2. QED
    BY <2>1, PagesTyped, PageAssumption
<1>2. QED
  BY <1>1, WalkInvAlways, PTL

\* A row of genres is never walked unfiltered, also when the genre table is lost:
\* every page is asked for with some of the genres of the query and no others.
THEOREM GenreRowsStayFiltered ==
    Spec => [](row # Idle /\ row.pc = "page" /\ row.req.genres # {} =>
                  row.path.genres # {} /\ row.path.genres \subseteq row.req.genres)
<1>1. WalkInv => (row # Idle /\ row.pc = "page" /\ row.req.genres # {} =>
                     row.path.genres # {} /\ row.path.genres \subseteq row.req.genres)
  <2> SUFFICES ASSUME WalkInv, row # Idle, row.pc = "page", row.req.genres # {}
               PROVE  row.path.genres # {} /\ row.path.genres \subseteq row.req.genres
    OBVIOUS
  <2>1. /\ row.genres = row.req.genres \cap row.table /\ row.genres # {}
        /\ \E day \in 0 .. LastDay : row.path = Path(row.req, row.genres, day)
    BY DEF WalkInv, Walked, Filtered
  <2>2. row.path.genres = row.genres
    BY <2>1, PathTyped DEF PathIsFor
  <2>3. QED
    BY <2>1, <2>2
<1>2. QED
  BY <1>1, WalkInvAlways, PTL
=============================================================================
