SPECIFICATION Spec
CONSTANTS
    Octet = {"a", "sp", "nul", "cr", "bs", "del", "iac", "sb", "se", "will", "nop"}
    Data = {"a", "sp", "nul", "cr", "bs", "del", "se"}
    Option = {"a", "cr", "iac", "se"}
    Other = {"nop", "se"}
    IAC = "iac"
    SB = "sb"
    SE = "se"
    Negotiation = {"will"}
    NUL = "nul"
    CR = "cr"
    BS = "bs"
    DEL = "del"
    Separator = {"sp"}
    Command <- Commands
    TELNET_READER_BUFFER_SIZE = 2
    CLI_MAX_COMMAND_LEN = 3
    CLI_COMMAND_MAX_ARGS = 1
    Idle = "idle"
    NoKey = "no key"
PROPERTY ImplementsLineEditor
