\* Seven kinds of clients, one of them in each behaviour.
CONSTANTS
    None = None
    SystemProgram = system
    Incinerator = incinerator
    NativeMint = native
    TokenProgram = token
    OtherProgram = other
    SplToken = token
    RentSysvar = rent
    InvalidArgument = InvalidArgument
    alice = alice
    bob = bob
    mint1 = mint1
    account1 = account1
    account2 = account2
    multisig1 = multisig1
    Key = {system, incinerator, native, alice, bob, mint1, account1, account2, multisig1}
    Signer = {alice, bob}
    MintKey = {mint1}
    AccountKey = {account1, account2}
    MultisigKey = {multisig1}
    ForeignKey = {account2}
    Owners = {alice, incinerator, multisig1}
    MintAuthorities = {alice, multisig1}
    FreezeAuthorities = {bob}
    CloseAuthorities = {bob}
    Delegates = {bob}
    Refund = {alice, incinerator, account2}
    Amount = {0, 2}
    Allowance = {2}
    U64Max = 5
    Decimals = {0, 1}
    NativeDecimals = 0
    MaxSigners = 2
    IndexSpan = 4
    FundAmount = {0, 1, 2}
    GiftAmount = {1}
    ForeignData <- Forged
    Clients <- MCClients
    UiText <- SomeTexts
    MinBalance <- UnitRent
    GenesisLamports <- MCGenesis
\* The clients may run out of lamports, and nobody has to act.
CHECK_DEADLOCK FALSE
SPECIFICATION Spec
INVARIANTS
    BuiltInstructionsWork
    WritesNeverFail
    MultisigsCanSign
PROPERTIES
    InvocationsAreAtomic
    CallsDoWhatTheySay
    InvocationsEnd
