SPECIFICATION Spec
CONSTANTS
    Names = {"a", "b"}
    CLUSTERS = 3
    SPC = 2
    SECTOR = 2
    FATS = 2
    ENTRIES = 1
    ROOT = 2
    Cards <- MCCards
    Modes <- MCRewriteModes
    Chunks = {3}
    Habits = {"rewrites"}
    LENGTH = 7
    NAMED = 2
INVARIANT SizeIsLength
CHECK_DEADLOCK FALSE
