\* One 400-year cycle of the calendar, and small instances of the others.
SPECIFICATION Spec
CONSTANTS
    LastDay = 146097
    Entries <- MCEntries
    MaxSeasons = 2
    Said <- MCSaid
    None = None
    HitSet <- MCHits
    Queries <- MCQueries
    MaxHits = 3
    Depth = 2
    Searches = {"s1", "s2"}
    Indexers = {"fast", "slow"}
    Rates <- MCRates
    DefaultRate = 1
    MaxBuckets = 4
    MaxEpochs = 2
INVARIANTS
    FmtDaysIsTheDate
    VerdictsAreLenient
    VerdictsHaveEvidence
    RanksTheConfident
    SlicesAreAnswers
    OneBucketPerEpoch
    NewSearchesGetTheNewRate
CHECK_DEADLOCK FALSE
