SPECIFICATION MemorySpec
CONSTANTS
    Vars = {a, b}
    Fns = {f}
    Allowed <- OnlyMoves
SYMMETRY Symmetry
INVARIANT NoUseAfterMove
CHECK_DEADLOCK FALSE
