\* Three addresses, so that two accounts can share a mint.
CONSTANTS
    Key = {k1, k2, k3}
    None = None
    U64Max = 3
SPECIFICATION Spec
INVARIANTS
    TypeOK
    Conserved
