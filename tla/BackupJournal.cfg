SPECIFICATION Spec
CONSTANTS
    Entry = {e1, e2}
    Journal = Journal
    MaxVersion = 2
    MaxArchives = 3
    MaxFaults = 2
    MaxCrashes = 1
SYMMETRY Swap
INVARIANT RestoredReadable
