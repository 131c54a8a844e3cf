SPECIFICATION Spec
CONSTANTS
    a = a
    b = b
    Free = Free
    Names <- MCNames
    Capacity = 3
    MaxDepth = 3
    MaxEntries = 1
SYMMETRY MCSymmetry
INVARIANTS
    ObjectsListed
    ParentsListed
