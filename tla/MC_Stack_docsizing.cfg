\* Pools sized per the NOTE on Tcp::new / Udp::new: each pool fits the set,
\* their sum with the stack's own socket does not.
CONSTANTS
    Kinds <- MC_DocKinds
    PoolN <- MC_DocPoolN
    SetCap = 4
    Reserved = 1
SPECIFICATION Spec
INVARIANT
    NoSocketSetPanic
