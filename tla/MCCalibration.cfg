CONSTANTS
    POINTS = 8
    CALIBRATIONS = 2
    HOLD = 10
    MaxX = 319
    MaxY = 239
    Readings <- MCReadings
    TOLERANCE = 6
SPECIFICATION CalibrationSpec
INVARIANTS RunsCalibrated CirclesAreFound
