SPECIFICATION Spec
CONSTANTS
    ExportBound = 2
PROPERTIES
    WaitCloses
CHECK_DEADLOCK FALSE
