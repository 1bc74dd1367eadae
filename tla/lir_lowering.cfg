SPECIFICATION Spec
CONSTANTS
    MaxCases = 2
    MaxSrc = 3
    Kinds <- AllKinds
    Profiles <- MCProfiles
    Allowed <- Considered
INVARIANTS TypeOK EdgesSymmetric ReservedFresh
           LoopStackMatches FlatFaithful FallThroughPlaced CfgVerdict
PROPERTY TerminatedKept
CHECK_DEADLOCK FALSE
