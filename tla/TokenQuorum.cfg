\* A multisig of two signers and an account forged by another program.
CONSTANTS
    None = None
    SystemProgram = system
    Incinerator = incinerator
    NativeMint = native
    TokenProgram = token
    OtherProgram = other
    alice = alice
    bob = bob
    mint1 = mint1
    mint2 = mint2
    account1 = account1
    account2 = account2
    multisig1 = multisig1
    foreign1 = foreign1
    Key = {system, incinerator, native, alice, bob, mint1, account1, multisig1, foreign1}
    Signer = {alice, bob}
    MintKey = {mint1}
    AccountKey = {account1, foreign1}
    MultisigKey = {multisig1}
    ForeignKey = {foreign1}
    ForeignData <- Forged
    Owners = {multisig1}
    MintAuthorities = {multisig1}
    FreezeAuthorities = {}
    CloseAuthorities = {}
    Delegates = {}
    Refund = {alice}
    Amount = {0, 1}
    Allowance = {1}
    U64Max = 5
    Decimals = {6, 9}
    NativeDecimals = 9
    MaxSigners = 2
    Grant = 2
    FundAmount = {1}
    GiftAmount = {}
    Payers = {alice, bob}
    MinBalance <- UnitRent
    GenesisLamports <- MCGenesis
\* The clients may run out of lamports, and nobody has to act.
CHECK_DEADLOCK FALSE
SPECIFICATION Spec
INVARIANTS
    AccountsFollowMints
PROPERTIES
    DebitsAreAuthorised
