CONSTANTS
    t1 = t1
    t2 = t2
    Taglines = {t1}
    MaxPlays = 11
    MaxSets = 1
    MaxSeries = 0
    MaxSubeditions = 0
    MaxSupply = 2
    Quantities = {1}
    SubeditionIds = {1, 11}
SPECIFICATION LargeCatalogSpec
INVARIANTS
    SerialsCountSubedition
