---------------------------- MODULE MCCardRecord ----------------------------
(* Instances of CardRecord for TLC. *)
EXTENDS CardRecord

\* A title no search can carry, the names that can stand in for it (one in two
\* spellings, one with stray whitespace, one with a slash), one that cannot and
\* the placeholder for no title.
MCNames ==
    {"3%", "3 percent", "3 Percent", "3  percent", "3/percent", "3 pourcent", "three",
     "(untitled)"}

MCWritten == [n \in MCNames |-> IF n = "3  percent" THEN "3 percent" ELSE n]
MCUnslashed == [n \in MCNames |-> IF n = "3/percent" THEN "3 U+2215 percent" ELSE n]
MCFolded == [n \in MCNames |-> IF n = "3 Percent" THEN "3 percent" ELSE n]
MCWords ==
    [n \in MCNames |->
        CASE n = "3%" -> <<"3">>
          [] n = "three" -> <<"three">>
          [] n = "(untitled)" -> <<"untitled">>
          [] n = "3 pourcent" -> <<"3", "pourcent">>
          [] OTHER -> <<"3", "percent">>]
MCHostile == {"3%"}
MCLang3 == [en |-> "eng", pt |-> "por", fr |-> "fra"]
MCMarketLang3 == [US |-> "eng", FR |-> "fra"]

MCImages ==
    {[path |-> p, lang |-> IF p = 3 THEN None ELSE "fr", vote |-> v] :
        p \in 0 .. 3, v \in 1 .. 2}

Plain ==
    [kind |-> "tv", title |-> "three", original |-> None, language |-> "pt",
     akas |-> <<>>, genres |-> {"drama"}, external |-> {"tvdbid", "imdbid"},
     seasons |-> 1, overview |-> TRUE, poster |-> 1, images |-> <<>>]

Akas == {<<>>} \cup [1 .. 1 -> [name : MCNames, market : {"US", "FR"}]]
           \cup [1 .. 2 -> [name : MCNames, market : {"US", "FR"}]]

\* Every title with every original and up to two AKAs.
NamedWorks ==
    {[Plain EXCEPT !.title = t, !.original = o, !.akas = a] :
        t \in {"3%", "three", "(untitled)"}, o \in {None, "3%", "3 percent", "3 pourcent"}, a \in Akas}

\* Every list of up to three posters, of three and a blank one.
PosterWorks ==
    {[Plain EXCEPT !.images = i] : i \in UNION {[1 .. n -> MCImages] : n \in 0 .. 3}}

\* Shows and films with and without what a record is made of.
OtherWorks ==
    {[Plain EXCEPT !.kind = k, !.language = l, !.seasons = s, !.overview = d,
                   !.poster = p, !.genres = g, !.original = "3 pourcent"] :
        k \in {"tv", "movie"}, l \in {None, "fr", "xx"}, s \in {0, 1, 4},
        d \in BOOLEAN, p \in {0, 1}, g \in {{}, {"drama"}}}

MCWorks == NamedWorks \cup PosterWorks \cup OtherWorks
=============================================================================
