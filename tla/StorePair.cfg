SPECIFICATION Spec
CONSTANTS
    Id <- MCId
    Name <- MCId
    Kind <- MCKind
    Flat <- MCFlat
    Text = {t1}
    ExtKey = {x}
    NoKey = NoKey
    None = None
    Junk = Junk
    PageOrder <- MCPageOrder
    MaxEdits = 1
    MaxCrashes = 1

INVARIANT AckedOnDisk
INVARIANT AckedIsIndexed
INVARIANT ExtKeyUnique
