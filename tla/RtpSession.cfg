SPECIFICATION Spec
CONSTANTS
    Slot = {self, m1}
    Self = self
    SSRC = {x1, x2, x3}
    Addr = {own, a1}
    OwnAddr = own
    OwnEcho = FALSE
    MEMBER_TIMEOUT = 2
    SENDER_TIMEOUT = 2
    LEAVE_TIMEOUT = 2
    CONFLICT_TIMEOUT = 1
    CONFLICT_SIZE = 1
    MAX_SENDERS = 3
SYMMETRY Symmetry
INVARIANTS TypeOK MemberCount SenderCount TimersMatchState NoStrayTimer UniqueSsrc
PROPERTIES SelfStays ByeIsFinal NoTakeover
