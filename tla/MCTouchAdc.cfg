CONSTANTS
    ADC <- MCReadings
    XPos <- MCPlaces
    YPos <- MCPlaces
    Light <- MCLight
    Firm <- MCFirm
    Floating <- MCReadings
    THRESHOLD <- MCThreshold
    Noisy = TRUE
SPECIFICATION FairSpec

PROPERTY ImplementsPanel
PROPERTY GlitchFiltered
PROPERTY HeldIsReported
PROPERTY LiftedIsReported
