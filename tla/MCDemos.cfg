SPECIFICATION DemosSpec
CONSTANTS
    MAX_X = 4
    MAX_Y = 2
    TAB = 2
    Chars = {"x"}
    Strings = {1, 4, 5}
    MaxX = 5
    MaxY = 8
    Fractions = {0, 10, 33, 50, 85}
    CUTS = 3
    RADIUS = 1
    SPEED = 1
    GONE = 5
    MAX_LIST = 4
    Points <- MCPoints
    SD_MAX_FILES = 6
    CLOSES = {"SD_Close", "FILEIO_Close"}
INVARIANTS OnPage SlicesPartition FieldInside NeverFull
PROPERTIES OtherRowsKept ImplementsDrops OpenedWasClosed
