\* UDP sockets of three tasks over a two-slot pool: slot ownership.
CONSTANTS
    t1 = t1
    t2 = t2
    t3 = t3
    t4 = t4
    Tasks <- MC_Tasks3
    N = 2
    Kind = "udp"
SPECIFICATION Spec
SYMMETRY MC_Symmetry
INVARIANTS
    TypeOK
    BufferOwnership
PROPERTY AllocatorRefinement
