------------------------- MODULE MCTokenInvocation -------------------------
(***************************************************************************)
(* Invocations on small instances: seven kinds of clients, each on         *)
(* accounts of its own choice.                                             *)
(***************************************************************************)
EXTENDS TokenInvocationProperties

CONSTANTS
    alice, bob,     \* wallets
    mint1, account1, account2, multisig1

\* Every layout costs one lamport of rent.
UnitRent == [kind \in {"mint", "account", "multisig"} |-> 1]

MCGenesis ==
    [k \in Key |-> IF k = alice THEN 4 ELSE IF k = NativeMint THEN 1 ELSE 0]

\* alice does everything herself, and has one lamport left.
Alone ==
    [tags |-> {}, by_hand |-> FALSE, mints |-> {}, accounts |-> {}, multisigs |-> {},
     forged |-> {}, owners |-> {alice}, mint_authorities |-> {alice},
     freeze_authorities |-> {}, close_authorities |-> {}, delegates |-> {},
     refund |-> {alice}, cosigners |-> {<<>>}, amounts |-> {2}, allowances |-> {2},
     precisions |-> {0}, deposits |-> {1}, gifts |-> {}, savings |-> 1]

\* A mint and two accounts: issuing, moving and burning tokens, and the queries.
Issuers ==
    [Alone EXCEPT
        !.tags = {"InitializeMint", "InitializeMint2", "InitializeAccount",
                  "InitializeAccount2", "InitializeAccount3", "Transfer",
                  "TransferChecked", "Approve", "ApproveChecked", "MintTo",
                  "MintToChecked", "Burn", "BurnChecked", "GetAccountDataSize",
                  "InitializeImmutableOwner", "AmountToUiAmount", "UiAmountToAmount"},
        !.mints = {mint1}, !.accounts = {account1, account2}, !.delegates = {bob},
        !.amounts = {0, 2}]

\* One account with a delegate, a close and a freeze authority, or the
\* incinerator's.
Controllers ==
    [Alone EXCEPT
        !.tags = {"InitializeMint2", "InitializeAccount3", "MintTo", "Approve",
                  "ApproveChecked", "Revoke", "SetAuthority", "Transfer", "Burn",
                  "BurnChecked", "CloseAccount", "FreezeAccount", "ThawAccount"},
        !.mints = {mint1}, !.accounts = {account1}, !.owners = {alice, Incinerator},
        !.freeze_authorities = {bob}, !.close_authorities = {bob}, !.delegates = {bob},
        !.refund = {alice, Incinerator}, !.deposits = {0, 1}, !.savings = 2]

\* Wrapped lamports: two native accounts, and lamports sent to them.
Wrappers ==
    [Alone EXCEPT
        !.tags = {"InitializeAccount3", "Transfer", "TransferChecked", "SyncNative",
                  "CloseAccount"},
        !.accounts = {account1, account2}, !.refund = {alice, account2},
        !.deposits = {1, 2}, !.gifts = {account1, account2}, !.savings = 0]

\* A multisig owns a mint and an account; its signers sign together, or one of
\* them is passed twice.
Partners ==
    [Alone EXCEPT
        !.tags = {"InitializeMultisig", "InitializeMultisig2", "InitializeMint2",
                  "InitializeAccount2", "MintTo", "Transfer", "Revoke", "Burn"},
        !.mints = {mint1}, !.accounts = {account1}, !.multisigs = {multisig1},
        !.owners = {multisig1, alice}, !.mint_authorities = {multisig1},
        !.cosigners = {<<>>, <<bob, alice>>, <<alice, alice>>}]

\* Instructions of their own.
Tinkerers ==
    [Alone EXCEPT
        !.tags = {"InitializeMultisig2", "InitializeMint2", "InitializeAccount3",
                  "MintTo", "CloseAccount"},
        !.by_hand = TRUE, !.mints = {mint1}, !.accounts = {account1},
        !.multisigs = {multisig1}, !.owners = {alice, multisig1},
        !.cosigners = {<<>>, <<bob, alice>>}, !.savings = 2]

\* Accounts of another program that read like ones of the token program.
Strangers ==
    [Alone EXCEPT
        !.tags = {"InitializeMint2", "InitializeAccount3", "Transfer", "MintTo", "Burn"},
        !.mints = {mint1}, !.accounts = {account1, account2}, !.forged = {account2},
        !.amounts = {0, 2}]

\* The checked instructions, with the decimals of the mint and with others.
Checkers ==
    [Alone EXCEPT
        !.tags = {"InitializeMint2", "InitializeAccount3", "MintToChecked",
                  "TransferChecked", "ApproveChecked", "BurnChecked"},
        !.mints = {mint1}, !.accounts = {account1}, !.delegates = {bob},
        !.precisions = {0, 1}]

ForgedAccount ==
    [ZeroAccount EXCEPT !.mint = mint1, !.owner = alice, !.amount = 2,
                        !.state = "Initialized"]

\* It claims to wrap more lamports than it holds.
ForgedNative == [ForgedAccount EXCEPT !.mint = NativeMint, !.is_native = 0]

Forged == {ForgedAccount, ForgedNative}

MCClients == {Issuers, Controllers, Wrappers, Partners, Tinkerers, Strangers,
              Checkers}

SomeTexts == {<<"1">>, <<".">>}
=============================================================================
