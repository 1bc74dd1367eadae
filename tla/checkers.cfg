SPECIFICATION MemorySpec
CONSTANTS
    Vars = {a, b}
    Fns = {f}
    Allowed <- Considered
SYMMETRY Symmetry
INVARIANTS RegionsMatch LexicalLookup MovesReported LinearMovesReported
           ReturnsChecked MovesRemembered
CHECK_DEADLOCK FALSE
