SPECIFICATION Spec
CONSTANTS
    Id <- MCId1
    Name <- MCName1
    Kind <- MCKind
    Flat <- MCFlat
    Text = {t1, t2}
    ExtKey = {}
    NoKey = NoKey
    None = None
    Junk = Junk
    PageOrder <- MCPageOrder
    MaxEdits = 2
    MaxCrashes = 1
SYMMETRY TextSymmetry
INVARIANT ReconcileAgrees
INVARIANT DeferredKeepsListed
INVARIANT FtsFollows
