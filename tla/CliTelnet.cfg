SPECIFICATION Spec
CONSTANTS
    Server = server
    Conn = {c1, c2}
    Watcher = {c1, c2, server}
    Fd = {5, 6}
    Length = {1}
    TX_BUF_SIZE = 1
    CHUNK = 1
    Fault = {"close", "urgent"}
    Backlog = 1
    Unread = 1
    Room = 1
    Writes = 1
    Offered = 1
SYMMETRY ConnSymmetry
INVARIANTS ListsConsistent DescriptorsOwned
PROPERTIES NoInnocentDrop
CHECK_DEADLOCK FALSE
