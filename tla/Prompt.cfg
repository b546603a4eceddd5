SPECIFICATION PromptSpec
CONSTANTS
    Session = {main, live}
    Live = {live}
    Call = {c, d}
    NoBlock = NoBlock
    MaxSaves = 2
    MaxStarts = 2
SYMMETRY Symmetry
INVARIANT FrozenStable
INVARIANT FreshAfterStart
