SPECIFICATION Spec
CONSTANTS
    Byte = {0, 1}
    Size = 3
    MaxCall = 4
INVARIANTS TypeOK IndexAgree
PROPERTIES ImplementsByteQueue
