CONSTANTS
    Window = 10
    PollInterval = 5
    MaxChecks = 1
    MaxHeight = 36
    MaxSwaps = 2
SPECIFICATION Spec
INVARIANTS
    EverySwapIsNotified
