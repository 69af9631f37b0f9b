\* Raw sockets of four tasks over a three-slot pool: slot ownership.
CONSTANTS
    t1 = t1
    t2 = t2
    t3 = t3
    t4 = t4
    Tasks <- MC_Tasks4
    N = 3
    Kind = "raw"
SPECIFICATION Spec
SYMMETRY MC_Symmetry
INVARIANTS
    BufferOwnership
PROPERTY AllocatorRefinement
