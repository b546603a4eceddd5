SPECIFICATION Spec
CONSTANTS
    Id = {i, j}
    Column = {text, successors}
    Mirrored = {text}
    Value = {v, w}
    Blank = Blank
    None = None
    MaxWrites = 2
    MaxStops = 1
SYMMETRY Symmetry
INVARIANT Carried
INVARIANT CoreWins
