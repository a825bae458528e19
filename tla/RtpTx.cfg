SPECIFICATION Spec
CONSTANTS
    RTP_SEQ_MOD = 4
    MAX_DROPOUT = 2
    MAX_MISORDER = 1
    MIN_SEQUENTIAL = 2
    WORD = 32
    LOST_MOD = 8
    MAX_RTP_PKT_SIZE = 24
    CC_MOD = 2
    Payload <- Payloads
    NCsrc = {0, 1, 2}
    Octet = {0, 1, 4, 8, 24}
    SSRC = {s1, s2, s3}
    NoOne = none
    PACKETS = 9
    FLIGHT = 1
INVARIANTS PayloadInside AcceptedAsSent NoPhantomLoss
SYMMETRY Identifiers
