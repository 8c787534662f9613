\* A mint and two accounts, native ones too, owned by a wallet, the incinerator
\* or a multisig, lamports from outside, a rent stated too low or too high,
\* and a forged account.
CONSTANTS
    None = None
    SystemProgram = system
    Incinerator = incinerator
    NativeMint = native
    TokenProgram = token
    OtherProgram = other
    alice = alice
    bob = bob
    mint1 = mint1
    account1 = account1
    account2 = account2
    multisig1 = multisig1
    foreign1 = foreign1
    Signer = {alice, multisig1}
    MintKey = {mint1}
    AccountKey = {account1, account2}
    MultisigKey = {multisig1}
    ForeignKey = {account2}
    ForeignData <- Forged
    Owners = {alice, incinerator, multisig1}
    MintAuthorities = {alice}
    FreezeAuthorities = {}
    Refund = {bob, account1}
    Amount = {0, 1, 3}
    StatedRent = {0, 1, 2}
    U64Max = 6
    Decimals = {9}
    NativeDecimals = 9
    MaxSigners = 1
    Grant = 4
    FundAmount = {1, 2}
    GiftAmount = {1}
    Payers = {alice}
    Key = {system, incinerator, native, alice, bob, mint1, account1, account2, multisig1}
    MinBalance <- UnitRent
    GenesisLamports <- MCGenesis
\* The clients may run out of lamports, and nobody has to act.
CHECK_DEADLOCK FALSE
SPECIFICATION Spec
INVARIANTS
    BalancesKept
    OwnersAreNeverStuck
PROPERTIES
    ImplementsRust
    UnsignedTokensStay
