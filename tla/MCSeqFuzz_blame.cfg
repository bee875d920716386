SPECIFICATION Spec
CONSTANTS
    MaxQty = 3
    RandomLengths <- Lengths
    MaxSequences = 5
    MaxDrops = 1
    None = None
INVARIANTS
    BlameIsFair
    ScriptsFindDefects
