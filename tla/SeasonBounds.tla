---------------------------- MODULE SeasonBounds ----------------------------
(***************************************************************************)
(* tmdb_client.rs: whether a season and an episode parsed from a title go  *)
(* with the seasons TMDB lists for the show.                               *)
(***************************************************************************)
EXTENDS Integers, Sequences

CONSTANTS Entries,     \* what TMDB may list of a season: season_number, episode_count
          MaxSeasons,  \* bound: seasons counted, and seasons listed
          Said,        \* the seasons and episodes a title may say
          None         \* not said

ASSUME EntriesAssumption == Entries \subseteq [season_number : Int, episode_count : Nat]
ASSUME SaidAssumption == Said \subseteq Int /\ None \notin Int

VARIABLE details  \* TmdbTvDetails: number_of_seasons and seasons

-----------------------------------------------------------------------------
(* The operators                                                           *)

\* seasons.iter().find(..): the first entry of that number, as a set.
Matched(d, season) ==
    LET same == {i \in DOMAIN d.seasons : d.seasons[i].season_number = season}
    IN  {d.seasons[i] : i \in {first \in same : \A other \in same : first <= other}}

\* season_episode_bounds(): each verdict in the order of the code's returns.
SeasonEpisodeBoundsUnlisted(d, season, episode) ==
    IF season = None \/ (d.number_of_seasons = 0 /\ d.seasons = <<>>) THEN "Ok"
    ELSE IF season < 0 THEN "Contradiction"
    ELSE IF season > d.number_of_seasons THEN "SeasonOverflow"
    ELSE IF /\ episode # None
            /\ \E s \in Matched(d, season) : s.episode_count > 0 /\ episode > s.episode_count
         THEN "EpisodeOverflow"
    ELSE "Ok"

SeasonEpisodeBounds(d, season, episode) ==
    IF season = None \/ (d.number_of_seasons = 0 /\ d.seasons = <<>>) THEN "Ok"
    ELSE IF season < 0 THEN "Contradiction"
    ELSE IF season > d.number_of_seasons /\ Matched(d, season) = {} THEN "SeasonOverflow"
    ELSE IF /\ episode # None
            /\ \E s \in Matched(d, season) : s.episode_count > 0 /\ episode > s.episode_count
         THEN "EpisodeOverflow"
    ELSE "Ok"

EpisodeInSeasonUnknown(d, season, episode) ==
    \E s \in Matched(d, season) : episode >= 1 /\ episode <= s.episode_count + 1

EpisodeInSeason(d, season, episode) ==
    \E s \in Matched(d, season) :
        s.episode_count > 0 /\ episode >= 1 /\ episode <= s.episode_count

-----------------------------------------------------------------------------
(* What TMDB knows of a show, one piece of news after another.             *)

ShowInit == details = [number_of_seasons |-> 0, seasons |-> <<>>]

Count ==
    /\ details.number_of_seasons < MaxSeasons
    /\ details' = [details EXCEPT !.number_of_seasons = @ + 1]

List ==
    /\ Len(details.seasons) < MaxSeasons
    /\ \E e \in Entries : details' = [details EXCEPT !.seasons = Append(@, e)]

ShowNext == Count \/ List

ShowSpec == ShowInit /\ [][ShowNext]_details

-----------------------------------------------------------------------------
(* Properties                                                              *)

\* TMDB's later news: the show has one more season, or one more episode in the
\* seasons whose count is known.
Longer(s) == IF s.episode_count > 0 THEN [s EXCEPT !.episode_count = @ + 1] ELSE s

Grown ==
    {[details EXCEPT !.number_of_seasons = @ + 1],
     [details EXCEPT !.seasons = [i \in DOMAIN details.seasons |-> Longer(details.seasons[i])]]}

\* "Deliberately lenient": what a show has room for is never stripped or dropped,
\* and what was accepted stays accepted as a show that TMDB counts grows.
VerdictsAreLenient ==
    \A season, episode \in Said \cup {None} :
        LET verdict == SeasonEpisodeBounds(details, season, episode)
        IN  /\ (IF season = None \/ episode = None THEN season = None
                ELSE season >= 0 /\ EpisodeInSeason(details, season, episode))
               => verdict = "Ok"
            /\ details.number_of_seasons > 0 /\ verdict = "Ok" =>
                  \A d \in Grown : SeasonEpisodeBounds(d, season, episode) = "Ok"

\* A verdict other than Ok only "on a positive divergence": what is stripped is
\* beyond every season TMDB counts and lists, or is no episode of a listed season.
VerdictsHaveEvidence ==
    LET listed == {details.seasons[i].season_number : i \in DOMAIN details.seasons}
    IN  \A season \in Said, episode \in Said \cup {None} :
            LET verdict == SeasonEpisodeBounds(details, season, episode)
            IN  /\ verdict = "SeasonOverflow" =>
                      season > details.number_of_seasons /\ season \notin listed
                /\ verdict = "EpisodeOverflow" =>
                      season \in listed /\ ~EpisodeInSeason(details, season, episode)
                /\ verdict = "Contradiction" <=>
                      season < 0 /\ (details.number_of_seasons > 0 \/ listed # {})
=============================================================================
