\* One mint, two accounts and two wallets that hold, delegate, freeze and close.
CONSTANTS
    None = None
    SystemProgram = system
    Incinerator = incinerator
    NativeMint = native
    TokenProgram = token
    OtherProgram = other
    alice = alice
    bob = bob
    mint1 = mint1
    mint2 = mint2
    account1 = account1
    account2 = account2
    multisig1 = multisig1
    foreign1 = foreign1
    Key = {system, incinerator, native, alice, bob, mint1, account1, account2}
    Signer = {alice, bob}
    MintKey = {mint1}
    AccountKey = {account1, account2}
    MultisigKey = {}
    ForeignKey = {}
    ForeignData = {}
    Owners = {alice, bob}
    MintAuthorities = {alice}
    FreezeAuthorities = {bob}
    CloseAuthorities = {bob}
    Delegates = {bob}
    Refund = {alice}
    Amount = {1}
    Allowance = {2}
    U64Max = 4
    Decimals = {9}
    NativeDecimals = 9
    MaxSigners = 1
    Grant = 3
    FundAmount = {1}
    GiftAmount = {}
    Payers = {alice}
    MinBalance <- UnitRent
    GenesisLamports <- MCGenesis
\* The clients may run out of lamports, and nobody has to act.
CHECK_DEADLOCK FALSE
SPECIFICATION Spec
INVARIANTS
    OwnersAreNeverStuck
PROPERTIES
    DebitsAreAuthorised
    DelegationComesFromOwner
    ClosersAreAppointed
    FrozenAccountsHold
    RenouncedAuthorityIsFinal
    MintsObeyTheirAuthority
