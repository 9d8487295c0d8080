SPECIFICATION Spec
CONSTANTS
    Keys = {k1, k2}
    Values = {v1, v2}
    NULL = NULL
    Times <- MCTimes
INVARIANTS
    TypeOK
    TombstonesIndexed
    NothingBelowCutoff
PROPERTY
    RefinesLastWriterWins
