SPECIFICATION Spec
CONSTANTS
    MAX_MEMBERS = 3
    TICK_RATE = 2
    TIME_MOD = 256
    HORIZON = 20
    MIN_TIME = 10
    Share = {1, 4}
    SDES_SIZE = 20
    BUFFER_LEN = 80
INVARIANTS TypeOK BoundedSilence
PROPERTIES Paced
CHECK_DEADLOCK FALSE
