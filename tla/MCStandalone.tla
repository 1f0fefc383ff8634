---------------------------- MODULE MCStandalone ----------------------------
(* An instance of the modules that stand alone for TLC. *)
EXTENDS Standalone

\* Specials (season 0) and two seasons, of a length unknown or known.
MCEntries == [season_number : 0 .. 2, episode_count : {0, 2}]
MCSaid == -1 .. 3

\* One word that is in a title, one that is not, and titles of both.
MCHits ==
    [media_type : {"tv", "person"}, popularity : 1 .. 2,
     title : {<<"black">>, <<"white", "black">>, <<>>}]
MCQueries ==
    {<<>>, <<"black">>, <<"black", "cat">>, <<"cat", "black", "dog">>,
     <<"cat", "cat", "black", "white">>, <<"black", "black", "cat">>}

MCRates == -1 .. 2
=============================================================================
