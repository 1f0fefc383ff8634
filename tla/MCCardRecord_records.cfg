\* Every work of the three families, browsed and resolved in either order.
SPECIFICATION Spec
CONSTANTS
    Works <- MCWorks
    Written <- MCWritten
    Unslashed <- MCUnslashed
    Folded <- MCFolded
    Words <- MCWords
    Hostile <- MCHostile
    Images <- MCImages
    Lang3 <- MCLang3
    MarketLang3 <- MCMarketLang3
    Untitled = "(untitled)"
    MAX_POSTER_MEMBERS = 2
    MAX_CARD_SEASONS = 3
    None = None
INVARIANTS
    TypeOK
    SearchTitleIsFiled
    EnglishAkaIsPreferred
    PostersAreTheBest
    ByIdExtendsList
\* A work that was browsed and resolved has nothing left to do.
CHECK_DEADLOCK FALSE
