--------------------------------- MODULE Cpi ---------------------------------
(***************************************************************************)
(* The cpi programs: four ports of one instruction, which derives an       *)
(* address from the seed "You pass butter" and a bump seed in the          *)
(* instruction data, and has the system program allocate SIZE bytes there, *)
(* signing for the derived address.  The ports differ in how they take the *)
(* input apart and in how they put the call together.                      *)
(* Names that TransferLamports has too carry the program's.                *)
(***************************************************************************)
EXTENDS Integers, Sequences

CONSTANTS
    Address,        \* addresses
    Wallet,         \* those somebody can sign for
    SystemProgram,  \* the address of the system program
    Bump,           \* bump seeds in use
    Derived,        \* [Bump -> address of the program, or None off the curve]
    None,           \* no address, or no bump seed in the instruction data
    Refused,        \* an error or a panic instead of sizes
    Leftover        \* what two bytes of the stack may hold

\* What two bytes can hold.
HalfWords == 0 .. 65535

AddressAssumption ==
    /\ Wallet \subseteq Address /\ SystemProgram \in Address
    /\ None \notin Address \cup Bump
    /\ Derived \in [Bump -> (Address \ (Wallet \cup {SystemProgram})) \cup {None}]
    /\ 0 \in Leftover /\ Leftover \subseteq HalfWords

SIZE == 42

VARIABLES
    port,       \* the port that is deployed
    space       \* the length of the data of every address

cpiVars == <<port, space>>

CpiPorts == {"Rust", "Pinocchio", "C", "Zig"}

\* The accounts, those of them that sign, the bump seed, and the byte that
\* follows when there is no data.
CpiCalls ==
    [accounts : UNION {[1 .. n -> Address] : n \in 0 .. 3}, signers : SUBSET Wallet,
     bump : Bump \cup {None}, next : Bump]

-----------------------------------------------------------------------------
(* The system program and the runtime's side of invoke_signed.             *)

\* system_instruction::allocate, of an account that signs and is new.
CanAllocate(k, signing) == k \in signing /\ space[k] = 0

\* The sizes after a call of callee, with the 32-bit number of an instruction
\* and the space asked for.  The callee must be one of the accounts.
\* Allocate is the system program's instruction 8.
InvokeSigned(c, callee, number, k, bump) ==
    IF /\ \E p \in DOMAIN c.accounts : c.accounts[p] = callee
       /\ callee = SystemProgram /\ number = 8
       /\ CanAllocate(k, c.signers \cup {Derived[bump]})
    THEN [space EXCEPT ![k] = SIZE]
    ELSE Refused

-----------------------------------------------------------------------------
(* The ports: the outcomes of a call.                                      *)

\* create_program_address succeeds and is the address of the account.
ExpectedKey(k, bump) == Derived[bump] # None /\ k = Derived[bump]

\* A missing bump seed panics.
CpiRust(c) ==
    IF Len(c.accounts) >= 2 /\ c.bump # None /\ ExpectedKey(c.accounts[1], c.bump)
    THEN {InvokeSigned(c, SystemProgram, 8, c.accounts[1], c.bump)}
    ELSE {Refused}

\* The result of the call is not looked at: a call that fails ends its caller.
CpiPinocchio(c) ==
    IF Len(c.accounts) = 2 /\ c.bump # None /\ ExpectedKey(c.accounts[1], c.bump)
    THEN {InvokeSigned(c, SystemProgram, 8, c.accounts[1], c.bump)}
    ELSE {Refused}

\* Past the end of the data lies the next byte of the input.
BumpRead(c) == IF c.bump = None THEN c.next ELSE c.bump

CpiZig(c) ==
    IF Len(c.accounts) >= 1 /\ ExpectedKey(c.accounts[1], BumpRead(c))
    THEN {InvokeSigned(c, SystemProgram, 8, c.accounts[1], BumpRead(c))}
    ELSE {Refused}

\* Mutant: the size is written as the number of the instruction.
CNumberFirst == {SIZE + 65536 * high : high \in Leftover}

\* *(uint16_t *)data = 8 writes two of the number's four bytes.
CNumber == {8 + 65536 * high : high \in Leftover}

\* The callee is the second account.
CpiC(c) ==
    IF Len(c.accounts) >= 2 /\ ExpectedKey(c.accounts[1], BumpRead(c))
    THEN {InvokeSigned(c, c.accounts[2], number, c.accounts[1], BumpRead(c)) :
             number \in CNumber}
    ELSE {Refused}

CpiOutcomes(p, c) ==
    CASE p = "Rust" -> CpiRust(c) [] p = "Pinocchio" -> CpiPinocchio(c)
      [] p = "C" -> CpiC(c) [] p = "Zig" -> CpiZig(c)

CpiInit ==
    /\ port \in CpiPorts
    /\ space = [k \in Address |-> 0]

CpiInvoke ==
    /\ \E c \in CpiCalls : space' \in CpiOutcomes(port, c) \ {Refused}
    /\ UNCHANGED port

CpiNext == CpiInvoke

CpiSpec == CpiInit /\ [][CpiNext]_cpiVars

-----------------------------------------------------------------------------
\* The calls of the README: the derived address, and the system program.
CpiProper(c) ==
    /\ c.bump # None
    /\ c.accounts = <<Derived[c.bump], SystemProgram>>

\* Whoever signs and whatever is passed, only addresses derived by the program
\* get space, once, and just as much as the ports agree on.
DerivedAddressesGrow ==
    \A k \in Address : space'[k] # space[k] =>
        (\E bump \in Bump : Derived[bump] = k) /\ space[k] = 0 /\ space'[k] = SIZE

OnlyDerivedAddressesGrow == [][DerivedAddressesGrow]_cpiVars

\* A port does what the others do with a call as in the README, on new and on
\* allocated accounts; the C port can, but need not.
CpiPortsAgree ==
    \A c \in CpiCalls : CpiProper(c) =>
        /\ CpiRust(c) = CpiPinocchio(c) /\ CpiRust(c) = CpiZig(c)
        /\ CpiRust(c) \subseteq CpiC(c)

\* README: "Allocates a PDA given by the seed": a call as in the README allocates
\* whenever the address is new, and never fails.
NewAddressesAreAllocated ==
    \A c \in CpiCalls : CpiProper(c) /\ space[Derived[c.bump]] = 0 =>
        CpiOutcomes(port, c) = {[space EXCEPT ![Derived[c.bump]] = SIZE]}
=============================================================================
