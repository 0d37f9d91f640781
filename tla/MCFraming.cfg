SPECIFICATION Spec
CONSTANTS
    Prefix <- MCPrefix
    Wires <- MCWires
    Garbage <- MCGarbage
INVARIANTS
    InStep
    HandledInOrder
    NothingLeftBehind
    MessagesReconstructed
CHECK_DEADLOCK FALSE
