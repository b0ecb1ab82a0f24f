CONSTANTS
    BITS = {1}
    SIZE = 8
    SECTOR = 4
    PAGE = 1
    DATA = 2
    LENGTH = 8
SPECIFICATION Spec
INVARIANT ReadsBack
