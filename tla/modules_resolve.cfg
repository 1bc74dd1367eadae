SPECIFICATION FairManagerSpec
CONSTANTS
    a = a
    b = b
    c = c
    Names <- MCNames
    Root <- MCRoot
    MaxImports = 2
INVARIANTS ManagerTypeOK LoadedOnce
PROPERTIES ImplementsLoading Resolves
CHECK_DEADLOCK FALSE
