---------------------------- MODULE MCDiscovery ----------------------------
(* Instances of Discovery for TLC. *)
EXTENDS Discovery, TLC

Entry(kind, genres, days, votes) ==
    [kind |-> kind, genres |-> genres, days |-> days, votes |-> votes,
     adult |-> FALSE, anime |-> FALSE, broadcast |-> FALSE, shown |-> TRUE]

\* Shows that air on the first day, the second or both; one has no poster, one
\* is adult, one is a talk show, one is new and has hardly any votes.  Two films.
MCAbout ==
    "s1" :> Entry("tv", {"drama"}, {0}, 300)
    @@ "s2" :> [Entry("tv", {"drama", "kids"}, {0, 1}, 60) EXCEPT !.shown = FALSE]
    @@ "s3" :> [Entry("tv", {"kids"}, {0, 1}, 60) EXCEPT !.anime = TRUE]
    @@ "s4" :> Entry("tv", {"drama"}, {1}, 10)
    @@ "s5" :> [Entry("tv", {"drama"}, {0}, 300) EXCEPT !.adult = TRUE]
    @@ "s6" :> [Entry("tv", {"kids"}, {1}, 300) EXCEPT !.broadcast = TRUE]
    @@ "m1" :> Entry("movie", {"drama"}, {0}, 300)
    @@ "m2" :> [Entry("movie", {"drama"}, {-2}, 60) EXCEPT !.anime = TRUE]

MCTitles == DOMAIN MCAbout

MCGenreTable == [movie |-> {"drama"}, tv |-> {"drama", "kids"}]

One == <<"s1", "s2", "m1", "s3", "s5", "s4", "m2", "s6">>
Other == <<"s6", "s5", "s2", "m2", "s1", "s4", "s3", "m1">>

MCRankings ==
    {[trending |-> One, popularity |-> Other, rating |-> One],
     [trending |-> Other, popularity |-> One, rating |-> One]}

MCRequests ==
    [modes : {{m} : m \in Modes} \cup {{"airing", "popular"}, {"trending", "popular"}},
     kind : {"tv", "movie", None},
     anime : BOOLEAN,
     genres : {{}, {"kids"}, {"drama", "kids"}},
     max : {1, 2, 5}]

\* The row of the counterexample: today's shows.
AiringRequests ==
    {[modes |-> {"airing"}, kind |-> "tv", anime |-> FALSE, genres |-> {},
      max |-> 5]}
=============================================================================
