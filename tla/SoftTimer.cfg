SPECIFICATION FairSpec
CONSTANTS
    Elem = {t1, t2, t3}
    Delay = {5, 10, 21, 45}
    TICK_RATE = 10
    NUM_BUCKETS = 2
    TICK_MOD = 6
INVARIANTS TypeOK LinkedOnce
PROPERTIES ImplementsTimerService TickEnds
