---------------------- MODULE TokenInvocationProperties ----------------------
(***************************************************************************)
(* What an invocation of the token program guarantees.                     *)
(***************************************************************************)
EXTENDS TokenClients

\* However an invocation is stepped through, the committed accounts change as
\* the instructions of Token do, each at once: an error between two writes
\* leaves nothing behind, and no order of checks lets through what Token's
\* guards refuse.
InvocationsAreAtomic == Bank!Spec

\* Every invocation ends, whatever signers and accounts are passed.
InvocationsEnd == pc # "idle" ~> pc = "idle"

-----------------------------------------------------------------------------
(* The instruction of Token that carries out an intent.                     *)

Expected(i) == IF "decimals" \in DOMAIN i THEN i.decimals ELSE None

\* The mint passed to a checked instruction is the account's.
RightMint(i) == "mint" \in DOMAIN i => data[i.source].mint = i.mint

TokenAction(i) ==
    LET S == SignersOf(i)
    IN
    CASE i.tag \in {"InitializeMint", "InitializeMint2"} ->
            Bank!InitializeMint(i.mint, i.decimals, i.mint_authority, i.freeze_authority)
      [] i.tag \in {"InitializeAccount", "InitializeAccount2", "InitializeAccount3"} ->
            Bank!InitializeAccount(i.account, i.mint, i.owner)
      [] i.tag \in {"InitializeMultisig", "InitializeMultisig2"} ->
            Bank!InitializeMultisig(i.multisig, i.m, i.signers)
      [] i.tag \in {"Transfer", "TransferChecked"} ->
            /\ IsAccount(data[i.source]) /\ RightMint(i)
            /\ Bank!Transfer(S, i.source, i.destination, i.authority, i.amount, Expected(i))
      [] i.tag \in {"Approve", "ApproveChecked"} ->
            /\ IsAccount(data[i.source]) /\ RightMint(i)
            /\ i.authority = data[i.source].owner
            /\ Bank!Approve(S, i.source, i.delegate, i.amount, Expected(i))
      [] i.tag = "Revoke" ->
            /\ IsAccount(data[i.source]) /\ i.authority = data[i.source].owner
            /\ Bank!Revoke(S, i.source)
      [] i.tag = "SetAuthority" ->
            LET d == data[i.owned]
                new == i.change[2]
            IN  \/ /\ i.change[1] = "AccountOwner" /\ IsAccount(d)
                   /\ i.authority = d.owner /\ new # None
                   /\ Bank!SetAccountOwner(S, i.owned, new)
                \/ /\ i.change[1] = "CloseAccount" /\ IsAccount(d)
                   /\ i.authority = Bank!Closer(d)
                   /\ Bank!SetCloseAuthority(S, i.owned, new)
                \/ /\ i.change[1] = "MintTokens" /\ IsMint(d)
                   /\ i.authority = d.mint_authority
                   /\ Bank!SetMintAuthority(S, i.owned, new)
                \/ /\ i.change[1] = "FreezeAccount" /\ IsMint(d)
                   /\ i.authority = d.freeze_authority
                   /\ Bank!SetFreezeAuthority(S, i.owned, new)
      [] i.tag \in {"MintTo", "MintToChecked"} ->
            /\ IsMint(data[i.mint]) /\ i.authority = data[i.mint].mint_authority
            /\ Bank!MintTo(S, i.mint, i.account, i.amount, Expected(i))
      [] i.tag \in {"Burn", "BurnChecked"} ->
            Bank!Burn(S, i.account, i.mint, i.authority, i.amount, Expected(i))
      [] i.tag = "CloseAccount" ->
            /\ IsAccount(data[i.account])
            /\ \/ IsOwnedBySystemProgramOrIncinerator(data[i.account])
               \/ i.authority = Bank!Closer(data[i.account])
            /\ Bank!CloseAccount(S, i.account, i.destination)
      [] i.tag \in {"FreezeAccount", "ThawAccount"} ->
            /\ IsMint(data[i.mint]) /\ i.authority = data[i.mint].freeze_authority
            /\ Bank!ToggleFreezeAccount(S, i.account, i.mint, i.tag = "FreezeAccount")
      [] i.tag = "SyncNative" -> Bank!SyncNative(i.account)
      [] OTHER -> UNCHANGED vars

IsQuery(i) ==
    i.tag \in {"GetAccountDataSize", "InitializeImmutableOwner",
               "AmountToUiAmount", "UiAmountToAmount"}

\* A call that commits does what the client meant: the builder put every account
\* where the handler looks for it, and an error is never taken for success.
CallsDoWhatTheySay ==
    [][pc = "exit" /\ Succeeds /\ pc' = "idle" /\ intent # None
          => TokenAction(intent)]_allVars

\* An instruction made by a builder and signed as the client was told fails only
\* if Token refuses it: no account is in the wrong place, no permission is
\* missing, nobody else is marked as a signer, and a signer passed twice, or one
\* too many, does no harm.
BuiltInstructionsWork ==
    pc = "exit" /\ ~Succeeds /\ intent # None /\ Asked(intent) \subseteq Signer =>
        IsQuery(intent) \/ ~ENABLED TokenAction(intent)

\* A handler that has begun to write does not fail any more: the lamports the
\* checked arithmetic between two writes takes away are there, since a native
\* account holds at least its amount, and those it adds never overflow.  (Of
\* another program's account that reads like a native one neither need be true.)
WritesNeverFail ==
    pc = "exit" /\ result # Ok /\ effects # <<>> => owner[K(1)] # TokenProgram

\* The signers of a multisig a builder made can sign for it together.  (The
\* processor would also make one that nobody can sign for.)
MultisigsCanSign ==
    ~client.by_hand =>
      \A k \in Key : owner[k] = TokenProgram /\ IsMultisig(data[k]) =>
          Bank!ValidateOwner(k, {data[k].signers[p] : p \in DOMAIN data[k].signers})
=============================================================================
