SPECIFICATION MCSpec
CONSTANTS
    a = a
    b = b
    c = c
    Names <- MCNames
    Root <- MCRoot
    MaxImports = 2
    Faults = {"none", "syntax", "type"}
    RootFaults = {"none", "syntax", "type", "memory"}
INVARIANTS CheckedOnce ErrorsStop InitializedInOrder
PROPERTY Advances
