\* Rows of every mode, kind, genre and length over a catalog of eight titles in
\* pages of two, with lost calls, rerankings and a midnight.
SPECIFICATION Spec
CONSTANTS
    Titles <- MCTitles
    About <- MCAbout
    GenreTable <- MCGenreTable
    Rankings <- MCRankings
    Requests <- MCRequests
    TMDB_PAGE_SIZE = 2
    DISCOVERY_MAX_PAGES = 3
    DISCOVERY_MIN_VOTES = 50
    TOP_RATED_VOTES = 200
    AIRING_MOVIE_WINDOW_DAYS = 2
    LastDay = 1
    None = None
INVARIANTS
    TypeOK
    RowIsTheTop
    RowFillsUp
    RowInScope
PROPERTIES
    RowIsAnswered
