---------------------------- MODULE MCCardFeeder ----------------------------
(* An instance of CardFeeder for TLC. *)
EXTENDS CardFeeder, TLC

MCValues ==
    "tmdb_token" :> {Blank, "token"}
        @@ "tmdb_rate_per_sec" :> {Blank, 0, 5}
        @@ "tmdb_burst" :> {Blank, 3}
        @@ "card_top_n" :> {Blank, Bad, 0, 1}
        @@ "card_discovery_n" :> {Blank, 1}

MCDefaults ==
    "tmdb_token" :> Blank @@ "tmdb_rate_per_sec" :> 20 @@ "tmdb_burst" :> 20
        @@ "card_top_n" :> 2 @@ "card_discovery_n" :> 2

Empty == [x \in DOMAIN MCValues |-> Blank]
MCEnvSeeds == {Empty, [Empty EXCEPT !["tmdb_token"] = "token", !["tmdb_rate_per_sec"] = 5]}

\* A show and a film of the same number, a film, and a show without a poster.  A
\* show's row has no year; both have the axes the wall asks for.
ShowFields == "domain" :> "screen" @@ "workForm" :> "serial"
FilmFields(year) == "domain" :> "screen" @@ "workForm" :> "film" @@ "movieYear" :> year
MCWorks ==
    {[kind |-> "tv", id |-> "7", genres |-> {"drama"}, displayable |-> TRUE,
      fields |-> ShowFields],
     [kind |-> "movie", id |-> "7", genres |-> {"action"}, displayable |-> TRUE,
      fields |-> FilmFields("1999")],
     [kind |-> "movie", id |-> "8", genres |-> {"drama", "action"}, displayable |-> TRUE,
      fields |-> FilmFields("2001")],
     [kind |-> "tv", id |-> "8", genres |-> {"drama"}, displayable |-> FALSE,
      fields |-> ShowFields]}

Ask(text, filters) == [text |-> text, filters |-> filters]
NoFilter == <<>>
OfType(t) == "fileType" :> <<t>>
OfKinds(ks) == "contentKind" :> ks
Popular(v) == "popular" :> <<v>>
Linked(n) == "tmdbid" :> <<n>>
InGenre == "genres" :> <<"drama">>
Anime == "anime" :> <<"true">>
OfYear == "movieYear" :> <<"1999">>
OnScreen == "domain" :> <<"screen">>

MCQueries ==
    {Ask(t, f) : t \in BOOLEAN, f \in
        {NoFilter, OfType("video"), OfType("card"), Linked("7"), Linked("007"), Linked("x"),
         Linked("7") @@ Popular("true"), Linked("x") @@ Popular("true"),
         Linked("7") @@ OfKinds(<<"series">>), Linked("8") @@ OfKinds(<<"movie">>),
         "tmdbid" :> <<>> @@ Popular("true"), Linked("7") @@ OfKinds(<<>>)}}
    \cup
    {Ask(t, m @@ k @@ g) : t \in BOOLEAN, m \in {Popular("true"), Popular("false")},
        k \in {NoFilter, OfKinds(<<"movie">>), OfKinds(<<"series", "movie">>),
               OfKinds(<<"episode", "movie">>), OfKinds(<<"episode">>)},
        g \in {NoFilter, InGenre, Anime @@ OnScreen, OfYear, "genres" :> <<>> @@ "mine" :> <<>>}}

MCRecordIds ==
    {<<"tmdb", "tv", "7">>, <<"tmdb", "movie", "7">>, <<"tmdb", "tv", "007">>,
     <<"tmdb", "tv", "8">>, <<"tmdb", "person", "7">>, <<"tmdb", "tv", "x">>,
     <<"tmdb", "7">>, <<"tmdb", "tv", "7", "1">>, <<"tmdb", "">>, <<"nosource">>,
     <<"mal", "52991">>, <<"tmdb", "long">>}

MCNumber == "7" :> "7" @@ "007" :> "7" @@ "8" :> "8"
MCTooLong == {<<"long">>}
=============================================================================
