----------------------------- MODULE MCTokenZig -----------------------------
(***************************************************************************)
(* TokenZig on small instances; each .cfg names the accounts and roles.    *)
(***************************************************************************)
EXTENDS TokenZigProperties

CONSTANTS
    alice, bob,     \* wallets
    mint1, account1, account2, multisig1, foreign1,
    Payers,         \* the wallets that have lamports to begin with,
    Grant           \* and how many

\* Every layout costs one lamport of rent.
UnitRent == [kind \in {"mint", "account", "multisig"} |-> 1]

MCGenesis ==
    [k \in Key |-> IF k \in Payers THEN Grant
                   ELSE IF k = NativeMint THEN 1 ELSE 0]

\* A balance of mint1 for alice in an account of another program, with a
\* close authority the token program would never have written.
ForgedAccount ==
    [ZeroAccount EXCEPT !.mint = mint1, !.owner = alice, !.amount = 1,
                        !.state = "Initialized", !.close_authority = bob]

Forged == {ForgedAccount}
=============================================================================
