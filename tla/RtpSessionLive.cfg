SPECIFICATION FairSpec
CONSTANTS
    Slot = {self, m1}
    Self = self
    SSRC = {x1, x2}
    Addr = {own, a1}
    OwnAddr = own
    OwnEcho = FALSE
    MEMBER_TIMEOUT = 2
    SENDER_TIMEOUT = 1
    LEAVE_TIMEOUT = 1
    CONFLICT_TIMEOUT = 1
    CONFLICT_SIZE = 1
    MAX_SENDERS = 2
PROPERTIES ByeIsCompleted SilenceEmptiesTable
