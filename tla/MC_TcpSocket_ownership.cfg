\* Ownership of pool slots: three tasks contend for a pool of two slots.
CONSTANTS
    t1 = t1
    t2 = t2
    t3 = t3
    Tasks <- MC_Tasks3
    N = 2
    MaxQ = 0
SPECIFICATION Spec
SYMMETRY MC_Symmetry
INVARIANTS
    TypeOK
    SlotOwnership
PROPERTY AllocatorRefinement
