SPECIFICATION FairSpec
CONSTANTS
    Keys = {k1, k2}
    Values = {v1}
    Times <- MCTimes
    Mutators = {m1, m2}
    Cleaners = {c1}
    Readers = {r1}
    NONE = NONE
INVARIANTS
    TypeOK
    NoRaceOnValues
    PointersStayValid
    DeletedValuesIndexed
PROPERTIES
    SetRefinesLastWriterWins
    CallsReturn
