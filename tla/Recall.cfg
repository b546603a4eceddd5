SPECIFICATION Spec
CONSTANTS
    Id = {a, b}
    UserIds <- MCUserIds
    Text = {t, u}
    Request = {r, s}
    None = None
    Confidence = {0, 1}
    Limit = 2
    PromoteHits = 1
    PromoteTrust = 2
    MaxRecalls = 2
    MaxCalls = 3
    MaxEdits = 1
SYMMETRY Symmetry
INVARIANT TypeOK
INVARIANT CommandsStick
INVARIANT LevelEarned
