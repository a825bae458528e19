SPECIFICATION ReportSpec
CONSTANTS
    Self = self
    Peer = {p1, p2}
    MAX_MEMBERS = 3
    COUNT_MOD = 3
    BUFFER_LEN = 120
    BufLen <- BufLens
    Text = {0, 1, 2, 3}
    LOSSES = 1
SYMMETRY PeerSymmetry
INVARIANTS ReportTypeOK RoundTrip LossesTold BlocksAboutSource
