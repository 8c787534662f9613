\* Two native accounts, with lamports sent to them from outside.
CONSTANTS
    None = None
    SystemProgram = system
    Incinerator = incinerator
    NativeMint = native
    TokenProgram = token
    OtherProgram = other
    alice = alice
    bob = bob
    mint1 = mint1
    mint2 = mint2
    account1 = account1
    account2 = account2
    multisig1 = multisig1
    foreign1 = foreign1
    Key = {system, incinerator, native, alice, bob, account1, account2}
    Signer = {alice, bob}
    MintKey = {}
    AccountKey = {account1, account2}
    MultisigKey = {}
    ForeignKey = {}
    ForeignData = {}
    Owners = {alice, incinerator}
    MintAuthorities = {alice}
    FreezeAuthorities = {}
    CloseAuthorities = {bob}
    Delegates = {}
    Refund = {bob, account1, incinerator}
    Amount = {0, 1}
    Allowance = {1}
    U64Max = 7
    Decimals = {9}
    NativeDecimals = 9
    MaxSigners = 1
    Grant = 3
    FundAmount = {1, 2}
    GiftAmount = {1}
    Payers = {alice, bob}
    MinBalance <- UnitRent
    GenesisLamports <- MCGenesis
\* The clients may run out of lamports, and nobody has to act.
CHECK_DEADLOCK FALSE
SPECIFICATION Spec
INVARIANTS
    WrappedLamportsBacked
    LamportsConserved
    OwnersAreNeverStuck
PROPERTIES
    LamportsLeaveByConsent
