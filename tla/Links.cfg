SPECIFICATION Spec
CONSTANTS
    Id = {a, b, c}
    None = None
    MaxCalls = 2
    MaxFaults = 1
SYMMETRY IdSymmetry
INVARIANT TypeOK
INVARIANT SupersessionRecorded
INVARIANT DeletedUnreferenced
INVARIANT HealsSettle
