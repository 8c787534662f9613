\* Accounts of all three layouts, of this program and of another one.
CONSTANTS
    None = None
    InvalidAccountData = InvalidAccountData
    U64Max = 66051
    Key <- MCKeys
    SystemProgram <- system
    Incinerator <- incinerator
    NativeMint <- native
    Decimals = {0, 2}
    NativeDecimals = 2
    MaxSigners = 11
    Values <- MCValues
    Places <- MCPlaces
    Bytewise = {0, 1, 3}
\* Nobody writes the account of another program.
CHECK_DEADLOCK FALSE
SPECIFICATION Spec
INVARIANTS
    StorageReadsBack
    StorageRewritingChangesNothing
    StorageReadersAgree
