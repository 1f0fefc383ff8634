\* Two requests at a time over a show and a movie whose stored details may be
\* stale, the show's coming incomplete at any call, with lost answers, 429s,
\* failed stores and restarts.
SPECIFICATION Spec
CONSTANTS
    Tasks = {t1, t2}
    Shows = {1}
    Aired = {1}
    Movies = {1}
    Thin = {1}
    Ranking <- MCRanking
    Requests <- MCRequests
    Full = Full
    Stale = Stale
    None = None
SYMMETRY TaskSymmetry
INVARIANTS
    TypeOK
    StoreHoldsAnswers
    TextAnswersAreSlices
    WarmIsFree
