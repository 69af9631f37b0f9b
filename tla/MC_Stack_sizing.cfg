\* Three factories whose pools and the stack's own socket fill the set
\* exactly: no sequence of opens and drops panics.
CONSTANTS
    Kinds <- MC_SumKinds
    PoolN <- MC_SumPoolN
    SetCap = 6
    Reserved = 1
SPECIFICATION Spec
INVARIANTS
    NoSocketSetPanic
