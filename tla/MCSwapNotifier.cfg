CONSTANTS
    Window = 4
    PollInterval = 2
    MaxChecks = 2
    MaxHeight = 13
    MaxSwaps = 2
SPECIFICATION FairSpec
INVARIANTS
    NotifierTypeOK
    NotifiedAtMostOnce
    SpacedSwapsAreNotified
PROPERTIES
    SpacedSwapsGetNotified
