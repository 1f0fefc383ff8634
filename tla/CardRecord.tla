----------------------------- MODULE CardRecord -----------------------------
(***************************************************************************)
(* card.rs and the projections that feed it: one work of TMDB becomes a    *)
(* card on two paths, from an entry of a catalog list (a home row) and     *)
(* from its details (a search, a click, a record to resolve), and the card *)
(* becomes the record that is published.  Both records have the same CID,  *)
(* so whoever keeps them merges them.                                      *)
(*                                                                         *)
(* A name is abstracted to how it is written once normalised, what it is   *)
(* folded to, its words and whether it holds a symbol a keyword search     *)
(* cannot carry; a poster to a number, 0 for none.                         *)
(***************************************************************************)
EXTENDS Naturals, FiniteSets, Sequences, SequencesExt, FiniteSetsExt, Lists

CONSTANTS Works,              \* what TMDB may know of the work
          Written,            \* name -> the name, whitespace collapsed
          Unslashed,          \* name -> the name, every "/" written as U+2215
          Folded,             \* name -> the name in lower case
          Words,              \* name -> its word tokens
          Hostile,            \* the names is_search_hostile_symbol finds one in
          Images,             \* what TMDB may list of a poster: path, lang, vote
          Lang3,              \* iso639_1_to_3 where it is defined
          MarketLang3,        \* market_lang3
          Untitled,           \* the placeholder into_hit() puts for no title
          MAX_POSTER_MEMBERS,
          MAX_CARD_SEASONS,
          None                \* no value

ASSUME LimitAssumption == MAX_POSTER_MEMBERS \in Nat \ {0} /\ MAX_CARD_SEASONS \in Nat \ {0}
ASSUME NamesAssumption == None \notin DOMAIN Written
\* A name's words are those of its lower case: not so where a letter becomes
\* several, or a different one at the end of a word.
ASSUME FoldingAssumption ==
    \A m, n \in DOMAIN Written :
        Folded[m] = Folded[n] => Words[m] = Words[n] /\ (m \in Hostile <=> n \in Hostile)
ASSUME ImagesAssumption == \A m \in Images : m.path \in Nat /\ m.vote \in Nat
ASSUME WorksAssumption ==
    \A w \in Works :
        /\ w.kind \in {"tv", "movie"}
        /\ w.title \in DOMAIN Written /\ w.original \in DOMAIN Written \cup {None}
        /\ w.akas \in Seq([name : DOMAIN Written, market : DOMAIN MarketLang3])
        /\ w.external \subseteq {"tvdbid", "imdbid"}
        /\ w.seasons \in Nat
        /\ w.images \in Seq(Images)

VARIABLES work,      \* the work: title, original, language, akas, genres, ...
          listed,    \* the record made of its list entry
          resolved   \* the record made of its details

vars == <<work, listed, resolved>>

English == {"US", "GB"}

-----------------------------------------------------------------------------
(* Names                                                                   *)

\* TmdbAltTitles::entries(): the English markets first.
EntriesUnsorted(akas) == akas
Entries(akas) ==
    LET english == {a \in ToSet(akas) : a.market \in English}
    IN  Kept(akas, english) \o Kept(akas, ToSet(akas) \ english)

\* title_names(): every name with the language it is written in, the title only
\* if it is one and says more than the original.
TitleNames(title, original, language, akas) ==
    {<<IF language \in DOMAIN Lang3 THEN Lang3[language] ELSE "und",
       Written[o]>> : o \in {original} \ {None}}
        \cup (IF Written[title] = Untitled
                    \/ (original # None /\ Written[original] = Written[title]) THEN {}
              ELSE {<<"eng", Written[title]>>})
        \cup {<<MarketLang3[a.market], Written[a.name]>> : a \in ToSet(akas)}

\* dedup_titles(): the first spelling of every title.
DedupSoFar(all) ==
    LET kept[i \in 0 .. Len(all)] ==
            IF i = 0 THEN <<>>
            ELSE IF \E k \in DOMAIN kept[i - 1] : Folded[kept[i - 1][k]] = Folded[all[i]]
                 THEN kept[i - 1]
            ELSE Append(kept[i - 1], all[i])
    IN  kept

DedupTitles(all) == DedupSoFar(all)[Len(all)]

\* guard_titles: the title, the original and the AKAs, each once.
GuardTitles(title, original, akas) ==
    DedupTitles(<<title>> \o (IF original = None THEN <<>> ELSE <<original>>)
                    \o [i \in 1 .. Len(akas) |-> akas[i].name])

\* search_aka(): the first name a search can carry that says all the title
\* says and more, when the title itself cannot be searched.
Qualifies(title, n) ==
    /\ n \notin Hostile
    /\ Len(Words[n]) > Len(Words[title])
    /\ ToSet(Words[title]) \subseteq ToSet(Words[n])

Chosen(title, guard) ==
    LET fit == {k \in DOMAIN guard : Qualifies(title, guard[k])}
    IN  IF title \notin Hostile \/ Words[title] = <<>> \/ fit = {} THEN None
        ELSE guard[Min(fit)]

\* The searchTitle field: whitespace collapsed, the "/" left as it is.
SearchTitleAsFound(title, guard) == Chosen(title, guard)
SearchTitle(title, guard) ==
    IF Chosen(title, guard) = None THEN None ELSE Written[Chosen(title, guard)]

-----------------------------------------------------------------------------
(* Posters                                                                 *)

PrintedLang(img) ==
    IF img.lang = None THEN "zxx"
    ELSE IF img.lang \in DOMAIN Lang3 THEN Lang3[img.lang] ELSE "und"

\* A vote is the pair of average and count in the code's order.
BetterVoted(a, b) == a.vote > b.vote \/ (a.vote = b.vote /\ a.path < b.path)

\* sort_by is stable.
RankedBefore(images, i, j) ==
    \/ BetterVoted(images[i], images[j])
    \/ ~BetterVoted(images[j], images[i]) /\ i < j

RoomForOneMore(keys) == Cardinality(keys) <= MAX_POSTER_MEMBERS
Room(keys) == Cardinality(keys) < MAX_POSTER_MEMBERS

\* poster_member_keys(): the primary poster, then the others by rank, each while
\* the keys of those before it leave room.
PosterKeys(primary, images) ==
    LET mine == {i \in DOMAIN images : images[i].path = primary}
        others == {i \in DOMAIN images : images[i].path \notin {0, primary}}
        first == <<IF mine = {} THEN "und" ELSE PrintedLang(images[Min(mine)]), primary>>
        keysOf(places) == {<<PrintedLang(images[i]), images[i].path>> : i \in places}
        before(i) == {j \in others : RankedBefore(images, j, i)}
    IN  IF images = <<>> THEN {}
        ELSE {first} \cup keysOf({i \in others : Room({first} \cup keysOf(before(i)))})

-----------------------------------------------------------------------------
(* Cards and records                                                       *)

ClampedAbove(n) == IF n > MAX_CARD_SEASONS THEN MAX_CARD_SEASONS ELSE n
ClampSeasons(n) ==
    IF n > MAX_CARD_SEASONS THEN MAX_CARD_SEASONS ELSE IF n < 1 THEN 1 ELSE n

\* into_hit() and card_from_hit(): a list entry has no AKAs, no external ids, no
\* seasons and no posters, and names its genres through the table.
ListCard(w, table) ==
    [kind |-> w.kind, title |-> w.title,
     names |-> TitleNames(w.title, w.original, w.language, <<>>),
     guard |-> GuardTitles(w.title, w.original, <<>>),
     ids |-> {"tmdbid"}, genres |-> w.genres \cap table, seasons |-> 0,
     images |-> <<>>]

\* The names a details fetch knows: AKAs, and the language of the original.
DetailsNamesUntagged(w) == TitleNames(w.title, w.original, None, Entries(w.akas))
DetailsNames(w) == TitleNames(w.title, w.original, w.language, Entries(w.akas))

\* card_by_id() with the external ids it got.  A movie's details pass through a
\* TmdbHit, whose genre_ids into_hit() leaves empty; only a show has a tvdb id.
DetailsCard(w, ext) ==
    [kind |-> w.kind, title |-> w.title, names |-> DetailsNames(w),
     guard |-> GuardTitles(w.title, w.original, Entries(w.akas)),
     ids |-> {"tmdbid"} \cup (IF w.kind = "tv" THEN ext ELSE ext \ {"tvdbid"}),
     genres |-> IF w.kind = "tv" THEN w.genres ELSE {},
     seasons |-> IF w.kind = "tv" THEN ClampSeasons(w.seasons) ELSE 0,
     images |-> w.images]

\* title_member_key(): a name as the key titles/{lang3}/{name} spells it, whitespace
\* being collapsed already.
TitleMembers(names) == {<<name[1], Unslashed[name[2]]>> : name \in names}

\* Card::to_record(): no record for a card without an overview or a poster.
Record(w, card) ==
    IF ~w.overview \/ w.poster = 0 THEN None
    ELSE [title |-> card.title, titles |-> TitleMembers(card.names),
          searchTitle |-> SearchTitle(card.title, card.guard),
          ids |-> card.ids, genres |-> card.genres, seasonCount |-> card.seasons,
          posters |-> PosterKeys(w.poster, card.images)]

Init ==
    /\ work \in Works
    /\ listed = None
    /\ resolved = None

\* The work turns up in a home row, with the genre table or without.
Browse ==
    /\ listed = None
    /\ \E table \in {work.genres, {}} : listed' = Record(work, ListCard(work, table))
    /\ UNCHANGED <<work, resolved>>

\* The work is looked up by its number, its external ids found or not.
Resolve ==
    /\ resolved = None
    /\ \E ext \in {work.external, {}} :
          resolved' = Record(work, DetailsCard(work, ext))
    /\ UNCHANGED <<work, listed>>

Next == Browse \/ Resolve

Spec == Init /\ [][Next]_vars

-----------------------------------------------------------------------------
(* Properties                                                              *)

\* A record is of its work, with known ids, and the details of a show always
\* give it a season count of at least one and at most the ceiling.
TypeOK ==
    \A r \in {listed, resolved} \ {None} :
        /\ r.title = work.title
        /\ r.ids \subseteq {"tmdbid", "tvdbid", "imdbid"}
        /\ r.seasonCount \in 0 .. MAX_CARD_SEASONS
        /\ work.kind = "tv" /\ r = resolved => r.seasonCount > 0

\* "searchTitle is always one of the record's names, spelled the same way": but for
\* its "/", which a key cannot hold, although the two are computed from two lists
\* with two ideas of a duplicate.
SearchTitleIsFiled ==
    \A r \in {listed, resolved} \ {None} :
        r.searchTitle # None => \E name \in r.titles : name[2] = Unslashed[r.searchTitle]

\* "3 percent (US) must beat 3 Pourcent (FR)": of the AKAs a search can carry,
\* an English one is used if there is one.
EnglishAkaIsPreferred ==
    resolved # None /\ resolved.searchTitle # None =>
        LET own == {Written[o] : o \in {work.title, work.original} \ {None}}
            english == {a \in ToSet(work.akas) :
                           a.market \in English /\ Qualifies(work.title, a.name)}
        IN  resolved.searchTitle \in own \/ english = {}
                \/ \E a \in english : Written[a.name] = resolved.searchTitle

\* A record that lists posters lists its own, at most as many as allowed, and
\* leaves out no poster that was voted better than one it lists.
PostersAreTheBest ==
    resolved # None /\ resolved.posters # {} =>
        LET kept == {k[2] : k \in resolved.posters}
        IN  /\ work.poster \in kept
            /\ Cardinality(resolved.posters) <= MAX_POSTER_MEMBERS
            /\ \A m \in ToSet(work.images) :
                  m.path \notin kept \cup {0} =>
                      \A p \in kept \ {work.poster} : \E l \in ToSet(work.images) :
                          l.path = p /\ l.vote >= m.vote

\* The record of a click only adds to the record of the row it was clicked in,
\* so that merging the two under their one CID contradicts neither ("the
\* click-time card adds the AKAs under the same CID").  Genres aside: see below.
ByIdExtendsList ==
    listed # None /\ resolved # None =>
        /\ resolved.title = listed.title
        /\ listed.titles \subseteq resolved.titles
        /\ listed.ids \subseteq resolved.ids
        /\ listed.posters \subseteq resolved.posters
        /\ listed.searchTitle \in {None, resolved.searchTitle}
        /\ listed.seasonCount \in {0, resolved.seasonCount}
        /\ work.kind = "tv" => listed.genres \subseteq resolved.genres

\* A work's genres are "free on both resolution paths: a details fetch returns
\* named genre objects".
DetailsNameTheGenres ==
    resolved # None => resolved.genres = work.genres
=============================================================================
