-------------------------- MODULE TokenInstruction --------------------------
(***************************************************************************)
(* The instructions of the token program and the builders clients make     *)
(* them with (token/src/instruction.rs).  An instruction names a program,  *)
(* lists the accounts to run on, each marked as signer and as writable,    *)
(* and carries an operation with its operands.  A builder returns an error *)
(* instead when it refuses its arguments.                                  *)
(***************************************************************************)
EXTENDS TokenState, SequencesExt

CONSTANTS
    SplToken,       \* crate::id(), the address clients expect
    RentSysvar,     \* sysvar::rent::id()
    UiText          \* the texts of ui amounts in use

ASSUME RentAssumption == RentSysvar \notin Key

\* AuthorityType
AuthorityType == {"MintTokens", "FreezeAccount", "AccountOwner", "CloseAccount"}

U8 == 0 .. 255

-----------------------------------------------------------------------------
(* TokenInstruction, in the order of the enum.                             *)

FirstInitializers ==
    [tag : {"InitializeMint"}, decimals : U8, mint_authority : Key,
     freeze_authority : OptionalKey]
    \cup [tag : {"InitializeAccount"}]
    \cup [tag : {"InitializeMultisig"}, m : U8]

OwnerInstructions ==
    [tag : {"Transfer", "Approve"}, amount : U64]
    \cup [tag : {"Revoke"}]
    \cup [tag : {"SetAuthority"}, authority_type : AuthorityType,
          new_authority : OptionalKey]

SupplyInstructions ==
    [tag : {"MintTo", "Burn"}, amount : U64]
    \cup [tag : {"CloseAccount", "FreezeAccount", "ThawAccount"}]

CheckedInstructions ==
    [tag : {"TransferChecked", "ApproveChecked", "MintToChecked", "BurnChecked"},
     amount : U64, decimals : U8]

LaterInitializers ==
    [tag : {"InitializeAccount2", "InitializeAccount3"}, owner : Key]
    \cup [tag : {"SyncNative"}]
    \cup [tag : {"InitializeMultisig2"}, m : U8]
    \cup [tag : {"InitializeMint2"}, decimals : U8, mint_authority : Key,
          freeze_authority : OptionalKey]

ClientQueries ==
    [tag : {"GetAccountDataSize", "InitializeImmutableOwner"}]
    \cup [tag : {"AmountToUiAmount"}, amount : U64]
    \cup [tag : {"UiAmountToAmount"}, ui_amount : UiText]

Operations ==
    FirstInitializers \cup OwnerInstructions \cup SupplyInstructions
       \cup CheckedInstructions \cup LaterInitializers \cup ClientQueries

-----------------------------------------------------------------------------
(* AccountMeta.                                                            *)

Writable(k) == <<[pubkey |-> k, is_signer |-> FALSE, is_writable |-> TRUE]>>

Readonly(k) == <<[pubkey |-> k, is_signer |-> FALSE, is_writable |-> FALSE]>>

Listed(keys, isSigner) ==
    [p \in DOMAIN keys |->
        [pubkey |-> keys[p], is_signer |-> isSigner, is_writable |-> FALSE]]

\* Mutant: an authority is never asked to sign, only the signers given for it.
AuthorisedByOthers(k, signers) == Listed(<<k>>, FALSE) \o Listed(signers, TRUE)

\* An authority signs itself, unless signers are given for it.
AuthorisedBy(k, signers) == Listed(<<k>>, signers = <<>>) \o Listed(signers, TRUE)

CheckProgramAccount(program) == program = SplToken

\* The instruction, for the builders' own program only.
Built(program, accounts, operation) ==
    IF CheckProgramAccount(program)
    THEN [program_id |-> program, accounts |-> accounts, data |-> operation]
    ELSE [error |-> "IncorrectProgramId"]

IsBuilt(instruction) == "data" \in DOMAIN instruction

Plain(tag) == [tag |-> tag]

-----------------------------------------------------------------------------
(* The builders.                                                           *)

initialize_mint(program, mint, mintAuthority, freezeAuthority, decimals) ==
    Built(program, Writable(mint) \o Readonly(RentSysvar),
          [tag |-> "InitializeMint", decimals |-> decimals,
           mint_authority |-> mintAuthority, freeze_authority |-> freezeAuthority])

initialize_mint2(program, mint, mintAuthority, freezeAuthority, decimals) ==
    Built(program, Writable(mint),
          [tag |-> "InitializeMint2", decimals |-> decimals,
           mint_authority |-> mintAuthority, freeze_authority |-> freezeAuthority])

initialize_account(program, account, mint, ownerKey) ==
    Built(program, Writable(account) \o Readonly(mint) \o Readonly(ownerKey)
                      \o Readonly(RentSysvar),
          Plain("InitializeAccount"))

initialize_account2(program, account, mint, ownerKey) ==
    Built(program, Writable(account) \o Readonly(mint) \o Readonly(RentSysvar),
          [tag |-> "InitializeAccount2", owner |-> ownerKey])

initialize_account3(program, account, mint, ownerKey) ==
    Built(program, Writable(account) \o Readonly(mint),
          [tag |-> "InitializeAccount3", owner |-> ownerKey])

\* Mutant: m and n are each in range, but not compared.
IsQuorumInRange(m, signers) ==
    IsValidSignerIndex(m) /\ IsValidSignerIndex(Len(signers))

\* The processor does not make the last of these checks.
IsQuorum(m, signers) ==
    /\ IsValidSignerIndex(m)
    /\ IsValidSignerIndex(Len(signers))
    /\ m <= Len(signers)

initialize_multisig(program, multisig, signers, m) ==
    IF CheckProgramAccount(program) /\ ~IsQuorum(m, signers)
    THEN [error |-> "MissingRequiredSignature"]
    ELSE Built(program, Writable(multisig) \o Readonly(RentSysvar) \o Listed(signers, FALSE),
               [tag |-> "InitializeMultisig", m |-> m])

initialize_multisig2(program, multisig, signers, m) ==
    IF CheckProgramAccount(program) /\ ~IsQuorum(m, signers)
    THEN [error |-> "MissingRequiredSignature"]
    ELSE Built(program, Writable(multisig) \o Listed(signers, FALSE),
               [tag |-> "InitializeMultisig2", m |-> m])

transfer(program, source, destination, authority, signers, amount) ==
    Built(program, Writable(source) \o Writable(destination)
                      \o AuthorisedBy(authority, signers),
          [tag |-> "Transfer", amount |-> amount])

approve(program, source, delegate, ownerKey, signers, amount) ==
    Built(program, Writable(source) \o Readonly(delegate) \o AuthorisedBy(ownerKey, signers),
          [tag |-> "Approve", amount |-> amount])

revoke(program, source, ownerKey, signers) ==
    Built(program, Writable(source) \o AuthorisedBy(ownerKey, signers), Plain("Revoke"))

set_authority(program, owned, newAuthority, authorityType, ownerKey, signers) ==
    Built(program, Writable(owned) \o AuthorisedBy(ownerKey, signers),
          [tag |-> "SetAuthority", authority_type |-> authorityType,
           new_authority |-> newAuthority])

mint_to(program, mint, account, ownerKey, signers, amount) ==
    Built(program, Writable(mint) \o Writable(account) \o AuthorisedBy(ownerKey, signers),
          [tag |-> "MintTo", amount |-> amount])

burn(program, account, mint, authority, signers, amount) ==
    Built(program, Writable(account) \o Writable(mint) \o AuthorisedBy(authority, signers),
          [tag |-> "Burn", amount |-> amount])

close_account(program, account, destination, ownerKey, signers) ==
    Built(program, Writable(account) \o Writable(destination)
                      \o AuthorisedBy(ownerKey, signers),
          Plain("CloseAccount"))

freeze_account(program, account, mint, ownerKey, signers) ==
    Built(program, Writable(account) \o Readonly(mint) \o AuthorisedBy(ownerKey, signers),
          Plain("FreezeAccount"))

thaw_account(program, account, mint, ownerKey, signers) ==
    Built(program, Writable(account) \o Readonly(mint) \o AuthorisedBy(ownerKey, signers),
          Plain("ThawAccount"))

transfer_checked(program, source, mint, destination, authority, signers, amount, decimals) ==
    Built(program, Writable(source) \o Readonly(mint) \o Writable(destination)
                      \o AuthorisedBy(authority, signers),
          [tag |-> "TransferChecked", amount |-> amount, decimals |-> decimals])

approve_checked(program, source, mint, delegate, ownerKey, signers, amount, decimals) ==
    Built(program, Writable(source) \o Readonly(mint) \o Readonly(delegate)
                      \o AuthorisedBy(ownerKey, signers),
          [tag |-> "ApproveChecked", amount |-> amount, decimals |-> decimals])

mint_to_checked(program, mint, account, ownerKey, signers, amount, decimals) ==
    Built(program, Writable(mint) \o Writable(account) \o AuthorisedBy(ownerKey, signers),
          [tag |-> "MintToChecked", amount |-> amount, decimals |-> decimals])

burn_checked(program, account, mint, authority, signers, amount, decimals) ==
    Built(program, Writable(account) \o Writable(mint) \o AuthorisedBy(authority, signers),
          [tag |-> "BurnChecked", amount |-> amount, decimals |-> decimals])

sync_native(program, account) ==
    Built(program, Writable(account), Plain("SyncNative"))

get_account_data_size(program, mint) ==
    Built(program, Readonly(mint), Plain("GetAccountDataSize"))

initialize_immutable_owner(program, account) ==
    Built(program, Writable(account), Plain("InitializeImmutableOwner"))

amount_to_ui_amount(program, mint, amount) ==
    Built(program, Readonly(mint), [tag |-> "AmountToUiAmount", amount |-> amount])

ui_amount_to_amount(program, mint, uiAmount) ==
    Built(program, Readonly(mint), [tag |-> "UiAmountToAmount", ui_amount |-> uiAmount])

=============================================================================
