\* Rows of the shows that air today, walked across a midnight.
SPECIFICATION Spec
CONSTANTS
    Titles <- MCTitles
    About <- MCAbout
    GenreTable <- MCGenreTable
    Rankings <- MCRankings
    Requests <- AiringRequests
    TMDB_PAGE_SIZE = 2
    DISCOVERY_MAX_PAGES = 3
    DISCOVERY_MIN_VOTES = 50
    TOP_RATED_VOTES = 200
    AIRING_MOVIE_WINDOW_DAYS = 2
    LastDay = 1
    None = None
INVARIANT AiringRowIsOfOneDay
