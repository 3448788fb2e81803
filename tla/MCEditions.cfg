CONSTANTS
    t1 = t1
    t2 = t2
    Taglines = {t1, t2}
    MaxPlays = 2
    MaxSets = 1
    MaxSeries = 1
    MaxSubeditions = 1
    MaxSupply = 3
    Quantities = {1, 2}
    SubeditionIds = {0, 1, 2}
SPECIFICATION Spec
INVARIANTS
    EditionsTypeOK
    PlainSerialsArePlaces
    EditionCounts
    SerialsUnique
    SubeditionsAreRecorded
PROPERTIES
    RetiredEditionsAreFinal
    ClosedSetsStayClosed
