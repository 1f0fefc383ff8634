\* Shows and films, with and without genres.
SPECIFICATION Spec
CONSTANTS
    Works <- OtherWorks
    Written <- MCWritten
    Unslashed <- MCUnslashed
    Folded <- MCFolded
    Words <- MCWords
    Hostile <- MCHostile
    Images <- MCImages
    Lang3 <- MCLang3
    MarketLang3 <- MCMarketLang3
    Untitled = "(untitled)"
    MAX_POSTER_MEMBERS = 2
    MAX_CARD_SEASONS = 3
    None = None
INVARIANT DetailsNameTheGenres
CHECK_DEADLOCK FALSE
