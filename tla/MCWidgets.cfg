SPECIFICATION WidgetsFairSpec
CONSTANTS
    ADC <- MCReadings
    CalX <- MCCalX
    CalY <- MCCalY
    Objects <- MCObjects
INVARIANTS NothingStuck ScreenIsTrue BacklightFollows
PROPERTIES DeliversStrokes LiftIsReleased
