\* Two environments, one field saved at a time, three limits.
SPECIFICATION Spec
CONSTANTS
    EnvSeeds <- MCEnvSeeds
    Values <- MCValues
    Defaults <- MCDefaults
    Works <- MCWorks
    Queries <- MCQueries
    Limits = {0, 1, 3}
    RecordIds <- MCRecordIds
    Number <- MCNumber
    TooLong <- MCTooLong
    Blank = Blank
    Bad = Bad
    Absent = Absent
    Damaged = Damaged
    None = None
INVARIANTS
    TypeOK
    IdleOnlyWithoutAToken
    RowsSurviveTheReFilter
    LinksNameTheWork
    AnswersFit
    PublishedIdsComeBack
