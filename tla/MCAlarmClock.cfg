CONSTANTS
    HOURS = 2
    MINUTES = 4
    SECONDS = 3
    STEP = 2
    SNOOZE_TIME = 2
    FirstTime <- MCFirstTime
    FirstAlarm <- MCFirstAlarm
    Present = TRUE
    FILE = 1
    BUFFER = 1
SPECIFICATION Spec

INVARIANT FileIsNotShared
PROPERTY NoRetrigger
PROPERTY NotMissed
