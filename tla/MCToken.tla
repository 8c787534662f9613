------------------------------ MODULE MCToken ------------------------------
(***************************************************************************)
(* Token on small instances.  Each .cfg opens one part of the program: it  *)
(* gives the addresses for each kind of account and each role, so that the *)
(* instructions that need the empty ones never fire.                       *)
(***************************************************************************)
EXTENDS TokenProperties

CONSTANTS
    alice, bob,     \* wallets
    mint1, mint2, account1, account2, multisig1, foreign1,
    Payers,         \* the wallets that have lamports to begin with,
    Grant           \* and how many

\* Every layout costs one lamport of rent.
UnitRent == [kind \in {"mint", "account", "multisig"} |-> 1]

MCGenesis ==
    [k \in Key |-> IF k \in Payers THEN Grant
                   ELSE IF k = NativeMint THEN 1 ELSE 0]

\* Account data another program forges: a balance of mint1 for bob.
ForgedAccount ==
    [ZeroAccount EXCEPT !.mint = mint1, !.owner = bob, !.amount = 1,
                        !.state = "Initialized"]

\* A mint of another program, under an authority of its choice.
ForgedMint ==
    [ZeroMint EXCEPT !.mint_authority = bob, !.is_initialized = TRUE]

Forged == {ForgedAccount, ForgedMint}
=============================================================================
