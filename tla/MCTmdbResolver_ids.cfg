\* A show and a movie of the same number, one request at a time.
SPECIFICATION Spec
CONSTANTS
    Tasks = {t1}
    Shows = {1}
    Aired = {1}
    Movies = {1}
    Thin = {}
    Ranking <- MCRanking
    Requests <- TwinRequests
    Full = Full
    Stale = Stale
    None = None
INVARIANT IdsAreTheTitles
