SPECIFICATION CardSpec
CONSTANTS
    Values = {v1, v2}
    Null = Null
    MaxSaves = 2
SYMMETRY Symmetry
INVARIANTS CardTellsTruth
