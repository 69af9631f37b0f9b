\* Pools sized per the NOTE (three of two slots, a set of four entries, one
\* taken by the stack): the set stays paired with the pools up to the panic.
CONSTANTS
    Kinds <- MC_DocKinds
    PoolN <- MC_DocPoolN
    SetCap = 4
    Reserved = 1
SPECIFICATION Spec
INVARIANTS
    TypeOK
    SetMatchesPools
