SPECIFICATION Spec
CONSTANTS
    Width = 3
    Primitive = 11
    min_distance = 4
    first_consecutive_root = 1
    generator_root_gap = 1
    Messages <- MCMessages
    ErrorValues = {1, 2, 4}
    MaxErrors = 4
    MaxFaults = 4
    MaxErasures = 5
INVARIANTS
    LocatorFits
    LocatorDescribesSyndromes
    SentIsCodeword
    RecoversMessage
    LocationsInBlock
    SuccessIsCodeword
