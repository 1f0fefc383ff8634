\* A bare number, one request at a time; the show may come incomplete.
SPECIFICATION Spec
CONSTANTS
    Tasks = {t1}
    Shows = {1}
    Aired = {1}
    Movies = {1}
    Thin = {1}
    Ranking <- MCRanking
    Requests <- TwinRequests
    Full = Full
    Stale = Stale
    None = None
INVARIANT ShowsAreShows
