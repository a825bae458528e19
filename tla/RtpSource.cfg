SPECIFICATION Spec
CONSTANTS
    RTP_SEQ_MOD = 6
    MAX_DROPOUT = 3
    MAX_MISORDER = 2
    MIN_SEQUENTIAL = 2
    WORD = 12
    LOST_MOD = 8
    LAST = 17
    ACCEPTED = 13
INVARIANTS TypeOK Unwrapped IntervalExact ValidAgain
PROPERTIES ValidAfterRun
