CONSTANTS
    ADC <- MCReadings
    CalX <- MCCalX
    CalY <- MCCalY
    MaxX = 319
    MaxY = 239
    GridX = 4
    GridY = 4
    DEBOUNCE = 2
    LONG = 3
    TICKS = 3
    INTMAX = 5
SPECIFICATION FairSpec

INVARIANT CellWasFound
INVARIANT OptionIsLong
PROPERTY Debounced
PROPERTY HoldIsAccepted
PROPERTY ReleaseReturns
