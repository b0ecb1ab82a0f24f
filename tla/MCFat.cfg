SPECIFICATION Spec
CONSTANTS
    Names = {"a", "b"}
    CLUSTERS = 3
    SPC = 2
    SECTOR = 2
    FATS = 2
    ENTRIES = 1
    ROOT = 2
    Cards <- MCCards
    Modes <- MCModes
    Chunks = {3}
    Habits = {}
    LENGTH = 7
    NAMED = 3
INVARIANTS FlushedSurvives CardSound NoLostCluster
PROPERTY ImplementsFiles
CHECK_DEADLOCK FALSE
