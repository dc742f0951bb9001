SPECIFICATION Spec
CONSTANTS
    Counts = {1, 2}
    MaxAlarms = 1
PROPERTY
    AckMeansWritten
CHECK_DEADLOCK FALSE
