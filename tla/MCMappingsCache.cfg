CONSTANTS
    Strings = {4, 8, 12}
    Times = {1, 3}
    MaxSizes = {40, 84}
    MaxTTLs = {1}
    ShrinkShare = 2
    Getters = {g1}
    Modifiers = {m1, m2}
    NoModifier = none
    MaxVersion = 1
SYMMETRY Symmetry
SPECIFICATION Spec
INVARIANTS SizeAccounted SelectionValid NothingUnsaved
PROPERTY WithinLimit
