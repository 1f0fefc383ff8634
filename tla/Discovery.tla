------------------------------ MODULE Discovery ------------------------------
(***************************************************************************)
(* discovery.rs: a keyword-less catalog query (a home row) is answered by  *)
(* walking TMDB's catalog page by page until the row is full.              *)
(*                                                                         *)
(* The walk awaits TMDB once for the genre table, unless it is held, and   *)
(* once per page.  While it waits TMDB ranks its catalog anew and the day  *)
(* changes: every page is asked for with the date of that moment and       *)
(* answered from the ranking of that moment.  A call may also be left      *)
(* without an answer, by the budget, a timeout or a 429.  One row at a     *)
(* time is enough: rows share nothing but the genre table, whose           *)
(* concurrent fetches TmdbResolver models.                                 *)
(*                                                                         *)
(* A catalog entry is abstracted to what decides whether it is in a row.   *)
(***************************************************************************)
EXTENDS Integers, FiniteSets, Lists, SequencesExt

CONSTANTS Titles,             \* TMDB's catalog
          About,              \* title -> kind, genres, days, votes, adult, anime,
                              \*   broadcast (a daily talk, news, ... show), shown
                              \*   (it has an overview and a poster)
          GenreTable,         \* kind -> the genres TMDB files the kind under
          Rankings,           \* the orders TMDB may serve its catalog in
          Requests,           \* the queries that may arrive
          TMDB_PAGE_SIZE,
          DISCOVERY_MAX_PAGES,
          DISCOVERY_MIN_VOTES,
          TOP_RATED_VOTES,    \* build_path_and_query's floor for top_rated
          AIRING_MOVIE_WINDOW_DAYS,
          LastDay,            \* bound: the last midnight
          None                \* no value

Kinds == {"movie", "tv"}
Modes == {"airing", "trending", "popular", "top_rated"}

ASSUME PageAssumption ==
    /\ TMDB_PAGE_SIZE \in Nat \ {0}
    /\ DISCOVERY_MAX_PAGES \in Nat \ {0}
ASSUME CatalogAssumption ==
    /\ DOMAIN GenreTable = Kinds
    /\ \A t \in Titles : /\ About[t].kind \in Kinds
                         /\ About[t].genres \subseteq GenreTable[About[t].kind]
    /\ \A r \in Rankings, sort \in {"trending", "popularity", "rating"} :
          r[sort] \in Seq(Titles) /\ IsInjective(r[sort]) /\ ToSet(r[sort]) = Titles
ASSUME LastDayAssumption == LastDay \in Nat
ASSUME RequestsAssumption ==
    \A req \in Requests : req.kind \in Kinds \cup {None} /\ req.max \in Nat \ {0}

VARIABLES today,    \* today_utc_days()
          ranking,  \* sort -> the order TMDB serves now
          names,    \* Resolver.genre_names: kind -> the table held, or None
          row       \* the row being answered and how far it got

vars == <<today, ranking, names, row>>

Idle == [pc |-> "idle"]

LesserOf(a, b) == IF a <= b THEN a ELSE b

-----------------------------------------------------------------------------
(* The query                                                               *)

\* discovery_mode(): the first marker that is set, airing before trending
\* before popular before top_rated.
Mode(req) ==
    LET order == <<"airing", "trending", "popular", "top_rated">>
    IN  SelectSeq(order, LAMBDA m : m \in req.modes)[1]

\* build_path_and_query(): what a page is asked for with.  The trending list
\* takes no filter, so only a row without any uses it.
Dates(req, day) ==
    IF Mode(req) # "airing" THEN None
    ELSE IF req.kind = "tv" THEN {day}
    ELSE (day - AIRING_MOVIE_WINDOW_DAYS) .. day

Path(req, genres, day) ==
    IF Mode(req) = "trending" /\ ~req.anime /\ genres = {}
    THEN [list |-> "trending", sort |-> "trending", kind |-> req.kind]
    ELSE [list |-> "discover", kind |-> req.kind, anime |-> req.anime,
          genres |-> genres, dates |-> Dates(req, day),
          sort |-> IF Mode(req) = "top_rated" THEN "rating" ELSE "popularity",
          votes |-> CASE Mode(req) = "top_rated" -> TOP_RATED_VOTES
                      [] Mode(req) = "airing"    -> 0
                      [] OTHER                   -> DISCOVERY_MIN_VOTES]

\* One page more than the row needs if every entry can be shown.
PagesExact(max) ==
    LesserOf((max + TMDB_PAGE_SIZE - 1) \div TMDB_PAGE_SIZE, DISCOVERY_MAX_PAGES)
PagesUncapped(max) == (max + TMDB_PAGE_SIZE - 1) \div TMDB_PAGE_SIZE + 1
Pages(max) ==
    LesserOf((max + TMDB_PAGE_SIZE - 1) \div TMDB_PAGE_SIZE + 1, DISCOVERY_MAX_PAGES)

-----------------------------------------------------------------------------
(* TMDB's side                                                             *)

Listed(path, t) ==
    /\ About[t].kind = path.kind
    /\ path.list = "discover" =>
          /\ ~About[t].adult
          /\ About[t].votes >= path.votes
          /\ path.anime => About[t].anime
          /\ path.genres # {} => About[t].genres \cap path.genres # {}
          /\ path.dates # None => About[t].days \cap path.dates # {}
          /\ path.dates # None /\ path.kind = "tv" => ~About[t].broadcast

Catalog(order, path) == Kept(order[path.sort], {t \in Titles : Listed(path, t)})

Page(order, path, p) ==
    LET c == Catalog(order, path)
        first == (p - 1) * TMDB_PAGE_SIZE + 1
        last == LesserOf(p * TMDB_PAGE_SIZE, Len(c))
    IN  SubSeq(c, first, last)

-----------------------------------------------------------------------------
(* cards_for_discovery()                                                   *)

Answered(r, out) == [r EXCEPT !.pc = "answered", !.out = out]

\* The loop's head, and the row when the loop ends.
FinishUntruncated(r) == Answered(r, r.out)
Finish(r) == Answered(r, Take(r.out, r.req.max))

\* is_displayable(): the hits that have an overview and a poster.
Shown(hits) == Kept(hits, {t \in Titles : About[t].shown})

\* card_from_hit(): a card names the genres the table has.
CardsOf(hits, table) ==
    LET shown == Shown(hits)
    IN  [i \in 1 .. Len(shown) |->
            [title |-> shown[i], genres |-> About[shown[i]].genres \cap table]]

\* With the genre table, or with an empty one if it could not be had: a row of
\* genres the kind does not have is left empty.
AfterNamesUnfiltered(r, table) ==
    [r EXCEPT !.pc = "walk", !.table = table, !.genres = r.req.genres \cap table]
AfterNames(r, table) ==
    IF r.req.genres # {} /\ r.req.genres \cap table = {} THEN Answered(r, <<>>)
    ELSE [r EXCEPT !.pc = "walk", !.table = table,
                   !.genres = r.req.genres \cap table]

Init ==
    /\ today = 0
    /\ ranking \in Rankings
    /\ names = [k \in Kinds |-> None]
    /\ row = Idle

\* A row is asked for.  `calls`, `lost` and `steady` are history: the pages
\* asked for, whether a call was left without an answer, and whether TMDB's
\* ranking and the day stayed what they were.
Start ==
    /\ row = Idle
    /\ \E req \in Requests :
          LET r == [pc |-> "names", req |-> req, table |-> {}, genres |-> {},
                    page |-> 1, path |-> None, out |-> <<>>,
                    calls |-> 0, lost |-> FALSE, steady |-> TRUE]
          IN  row' = IF req.kind = None THEN Answered(r, <<>>) ELSE r
    /\ UNCHANGED <<today, ranking, names>>

\* Resolver::genre_names(): the table is held, or TMDB is asked for it.  An
\* answer that does not come is not remembered.
NamesHeld ==
    /\ row.pc = "names"
    /\ names[row.req.kind] # None
    /\ row' = AfterNames(row, names[row.req.kind])
    /\ UNCHANGED <<today, ranking, names>>

NamesFetched ==
    /\ row.pc = "names"
    /\ names[row.req.kind] = None
    /\ names' = [names EXCEPT ![row.req.kind] = GenreTable[row.req.kind]]
    /\ row' = AfterNames(row, GenreTable[row.req.kind])
    /\ UNCHANGED <<today, ranking>>

NamesLost ==
    /\ row.pc = "names"
    /\ names[row.req.kind] = None
    /\ row' = AfterNames([row EXCEPT !.lost = TRUE], {})
    /\ UNCHANGED <<today, ranking, names>>

\* The next page is asked for, or the row is full or at its last page.
Walk ==
    /\ row.pc = "walk"
    /\ row' = IF row.page > Pages(row.req.max) \/ Len(row.out) >= row.req.max
              THEN Finish(row)
              ELSE [row EXCEPT !.pc = "page", !.calls = row.calls + 1,
                               !.path = Path(row.req, row.genres, today)]
    /\ UNCHANGED <<today, ranking, names>>

\* The page comes: an empty one ends the catalog.
PageHit ==
    /\ row.pc = "page"
    /\ \E hits \in {Page(ranking, row.path, row.page)} :
          row' = IF hits = <<>> THEN Finish(row)
                 ELSE [row EXCEPT !.pc = "walk", !.page = row.page + 1,
                                  !.out = row.out \o CardsOf(hits, row.table)]
    /\ UNCHANGED <<today, ranking, names>>

\* The page does not come: the row is what was gathered so far.
PageLostRetried ==
    /\ row.pc = "page"
    /\ row' = [row EXCEPT !.pc = "walk", !.calls = 0, !.lost = TRUE]
    /\ UNCHANGED <<today, ranking, names>>

PageLost ==
    /\ row.pc = "page"
    /\ row' = Finish([row EXCEPT !.lost = TRUE])
    /\ UNCHANGED <<today, ranking, names>>

Return ==
    /\ row.pc = "answered"
    /\ row' = Idle
    /\ UNCHANGED <<today, ranking, names>>

Disturbed == IF row = Idle THEN row ELSE [row EXCEPT !.steady = FALSE]

\* TMDB ranks its catalog anew.
Rerank ==
    /\ row.pc # "answered"
    /\ ranking' \in Rankings \ {ranking}
    /\ row' = Disturbed
    /\ UNCHANGED <<today, names>>

Midnight ==
    /\ row.pc # "answered"
    /\ today < LastDay
    /\ today' = today + 1
    /\ row' = Disturbed
    /\ UNCHANGED <<ranking, names>>

Run ==
    \/ NamesHeld \/ NamesFetched \/ NamesLost
    \/ Walk \/ PageHit \/ PageLost \/ Return

Next == Start \/ Run \/ Rerank \/ Midnight

\* Every call is answered or times out, and the row's task is polled.
Spec == Init /\ [][Next]_vars /\ WF_vars(Run)

-----------------------------------------------------------------------------
(* Properties                                                              *)

\* Every variable stays in its type; no page is asked for beyond the cap.
TypeOK ==
    /\ today \in 0 .. LastDay
    /\ ranking \in Rankings
    /\ \A k \in Kinds : names[k] \in {None, GenreTable[k]}
    /\ row # Idle =>
          /\ row.pc \in {"names", "walk", "page", "answered"}
          /\ row.req \in Requests
          /\ row.calls \in 0 .. DISCOVERY_MAX_PAGES
          /\ row.page \in 1 .. DISCOVERY_MAX_PAGES + 1
          /\ row.out \in Seq([title : Titles, genres : SUBSET UNION Range(GenreTable)])

TitlesOf(cards) == [i \in 1 .. Len(cards) |-> cards[i].title]

\* A row answered while TMDB's catalog stood still is the top of the catalog,
\* in its order, without the entries that cannot be shown, and is no longer
\* than was asked for.  Calls left without an answer only cut its end.
RowIsTheTop ==
    row.pc = "answered" /\ row.steady /\ row.path # None =>
        /\ Len(row.out) <= row.req.max
        /\ IsPrefix(TitlesOf(row.out), Shown(Catalog(ranking, row.path)))

\* A row for which every call was answered is as long as was asked for whenever
\* one page of headroom (within the cap) has enough entries to show: "without
\* the spare page a 20-card row comes back at 17".
RowFillsUp ==
    row.pc = "answered" /\ row.steady /\ ~row.lost /\ row.req.kind # None
        /\ (row.req.genres = {} \/ row.req.genres \cap GenreTable[row.req.kind] # {})
        => LET asked == Path(row.req, row.req.genres \cap GenreTable[row.req.kind], today)
               reach == LesserOf(row.req.max + TMDB_PAGE_SIZE,
                                 DISCOVERY_MAX_PAGES * TMDB_PAGE_SIZE)
               there == Len(Shown(Take(Catalog(ranking, asked), reach)))
           IN  Len(row.out) >= LesserOf(row.req.max, there)

\* Whatever happens while it is walked, a row holds only cards that can be
\* shown and that belong to it: the gateway checks the genres filter against
\* the genres the card names, and only the plain trending list is ungated.
RowInScope ==
    row # Idle => \A i \in 1 .. Len(row.out) :
        LET card == row.out[i]
            about == About[card.title]
        IN  /\ about.shown
            /\ about.kind = row.req.kind
            /\ row.req.anime => about.anime
            /\ row.req.genres # {} => card.genres \cap row.req.genres # {}
            /\ about.adult =>
                  Mode(row.req) = "trending" /\ row.req.genres = {} /\ ~row.req.anime

\* Every row is answered.
RowIsAnswered == row # Idle ~> row = Idle

\* An airing row of shows is the row of one day: "TV bounds air_date to the
\* single day, which is what makes the row today's episodes".
AiringRowIsOfOneDay ==
    row.pc = "answered" /\ row.req.kind = "tv" /\ Mode(row.req) = "airing"
        => \E d \in 0 .. LastDay :
              \A i \in 1 .. Len(row.out) : d \in About[row.out[i].title].days
=============================================================================
