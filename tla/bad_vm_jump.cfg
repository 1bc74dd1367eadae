SPECIFICATION Spec
CONSTANTS
    MaxCases = 1
    MaxSrc = 2
    Kinds = {"stmt", "if"}
    Profiles <- NoProfiles
    Allowed <- Short
INVARIANT VmFaithful
CHECK_DEADLOCK FALSE
