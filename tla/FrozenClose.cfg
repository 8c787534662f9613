\* One account that is frozen.
CONSTANTS
    None = None
    SystemProgram = system
    Incinerator = incinerator
    NativeMint = native
    TokenProgram = token
    OtherProgram = other
    alice = alice
    bob = bob
    mint1 = mint1
    mint2 = mint2
    account1 = account1
    account2 = account2
    multisig1 = multisig1
    foreign1 = foreign1
    Key = {system, incinerator, native, alice, mint1, account1, account2}
    Signer = {alice}
    MintKey = {mint1}
    AccountKey = {account1}
    MultisigKey = {}
    ForeignKey = {}
    ForeignData = {}
    Owners = {alice}
    MintAuthorities = {alice}
    FreezeAuthorities = {alice}
    CloseAuthorities = {}
    Delegates = {}
    Refund = {alice}
    Amount = {0, 1, 2}
    Allowance = {1}
    U64Max = 4
    Decimals = {9}
    NativeDecimals = 9
    MaxSigners = 1
    Grant = 3
    FundAmount = {1}
    GiftAmount = {}
    Payers = {alice}
    MinBalance <- UnitRent
    GenesisLamports <- MCGenesis
\* The clients may run out of lamports, and nobody has to act.
CHECK_DEADLOCK FALSE
SPECIFICATION Spec
PROPERTIES
    FrozenAccountsAreKept
