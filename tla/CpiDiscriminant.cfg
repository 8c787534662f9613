\* What the README says of a call, for a C port with bytes on its stack.
CONSTANTS
    first = first
    second = second
    foreign = foreign
    Key = {first, second, foreign}
    ProgramOwned = {first, second}
    Genesis <- MCGenesis
    U64Max = 4
    DataLen = {0, 1, 8}
    InputLen = {7, 8}
    Failure = Failure
    SystemProgram = system
    alice = alice
    pda1 = pda1
    pda2 = pda2
    pda3 = pda3
    pda4 = pda4
    pda5 = pda5
    Address = {system, alice, pda1, pda2, pda3, pda4, pda5}
    Wallet = {alice}
    Bump = {1, 2, 3, 4, 5, 6}
    Derived <- MCDerived
    Leftover = {0, 7}
    None = None
    Refused = Refused
\* Every address is allocated at some time.
CHECK_DEADLOCK FALSE
SPECIFICATION ProgramsSpec
INVARIANTS
    NewAddressesAreAllocated
