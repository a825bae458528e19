SPECIFICATION FairSpec
CONSTANTS
    Server = server
    Conn = {c1}
    Watcher = {c1, server}
    Fd = {5}
    Length = {1, 2, 3}
    TX_BUF_SIZE = 2
    CHUNK = 2
    Fault = {"close", "reset"}
    Backlog = 1
    Unread = 1
    Room = 2
    Writes = 2
    Offered = 6
INVARIANTS TypeOK OutputInOrder
PROPERTIES DeadPeerReaped
CHECK_DEADLOCK FALSE
