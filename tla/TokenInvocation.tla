-------------------------- MODULE TokenInvocation --------------------------
(***************************************************************************)
(* An invocation of the token program, step by step.  Module Token takes a *)
(* whole instruction as one action on accounts named by their role.  Here  *)
(* the program gets the account list and the operation a client built,     *)
(* takes accounts from the list by position, returns the first error it    *)
(* meets, loops over the signers passed for a multisig, and changes the    *)
(* accounts one write at a time; then the runtime commits or rolls back.   *)
(*                                                                         *)
(* lamports, owner and data are the committed accounts, cells the copies   *)
(* an invocation works on (AccountInfo).                                   *)
(***************************************************************************)
EXTENDS Solana, TokenInstruction, TokenErrors, UiAmount

CONSTANTS
    MintAuthorities, FreezeAuthorities, Owners, CloseAuthorities,
    Delegates, Refund, Amount, Allowance,   \* as in Token
    IndexSpan       \* the number of values of a u8, 256 in the code

ASSUME InputAssumption ==
    /\ (MintAuthorities \cup FreezeAuthorities \cup Owners
          \cup CloseAuthorities \cup Delegates \cup Refund) \subseteq Key
    /\ Amount \cup Allowance \subseteq U64

ASSUME IndexAssumption == IndexSpan \in Nat /\ MaxSigners < IndexSpan

VARIABLES
    pc,         \* where the invocation is
    intent,     \* what the client means to do, None of instructions by hand
    call,       \* the instruction
    cells,      \* its accounts: [lamports, owner, data]
    matching,   \* validate_owner's loop: signers to come, positions matched
    effects,    \* the writes left to do
    result      \* Ok or the error returned

Bank == INSTANCE Token

run == <<pc, intent, call, cells, matching, effects, result>>
allVars == <<lamports, owner, data, run>>

Ok == "Ok"

\* The ? of Rust: go on with b unless a is an error.
a & b == IF a = Ok THEN b ELSE a

Ensure(condition, error) == IF condition THEN Ok ELSE error

-----------------------------------------------------------------------------
(* The instruction at hand.                                                *)

Op == call.data

\* next_account_info, n times.
Has(n) == Ensure(n <= Len(call.accounts), "NotEnoughAccountKeys")

K(n) == call.accounts[n].pubkey

D(n) == cells.data[K(n)]

Meta(k) == {call.accounts[p] : p \in {q \in DOMAIN call.accounts : K(q) = k}}

IsSigner(k) == \E meta \in Meta(k) : meta.is_signer

IsWritable(k) == \E meta \in Meta(k) : meta.is_writable

\* TransferChecked and ApproveChecked have the mint as their second account.
Shift == IF Op.tag \in {"TransferChecked", "ApproveChecked"} THEN 1 ELSE 0

HasDecimals ==
    Op.tag \in {"TransferChecked", "ApproveChecked", "MintToChecked", "BurnChecked"}

-----------------------------------------------------------------------------
(* What a handler checks before it validates an owner.                     *)

UnpackUnchecked(d, kind) == Ensure(d.kind = kind, "InvalidAccountData")

IsInitialized(d) == IsMint(d) \/ IsAccount(d) \/ IsMultisig(d)

Unpack(d, kind) ==
    UnpackUnchecked(d, kind) & Ensure(IsInitialized(d), "UninitializedAccount")

CheckAccountOwner(n) ==
    Ensure(cells.owner[K(n)] = TokenProgram, "IncorrectProgramId")

\* The rent is taken from the sysvar account at n, or else by a system call.
Rent(n) ==
    IF Op.tag \in {"InitializeMint", "InitializeAccount", "InitializeAccount2",
                   "InitializeMultisig"}
    THEN Has(n) & Ensure(K(n) = RentSysvar, "InvalidArgument")
    ELSE Ok

Claimable(kind) ==
    UnpackUnchecked(D(1), kind)
    & Ensure(~IsInitialized(D(1)), "AlreadyInUse")
    & Ensure(cells.lamports[K(1)] >= MinBalance[kind], "NotRentExempt")

ValidMint(n) == CheckAccountOwner(n) & Ensure(IsMint(D(n)), "InvalidMint")

NotFrozen(d) == Ensure(~IsFrozen(d), "AccountFrozen")

NotNative(d) == Ensure(~IsNative(d), "NativeNotSupported")

ExpectedDecimals(n) ==
    Ensure(HasDecimals => Op.decimals = D(n).decimals, "MintDecimalsMismatch")

\* The mint account of TransferChecked and ApproveChecked.
ExpectedMint(a) ==
    IF Shift = 0 THEN Ok
    ELSE Ensure(K(2) = a.mint, "MintMismatch") & Unpack(D(2), "mint") & ExpectedDecimals(2)

InitializeMintChecks == Has(1) & Rent(2) & Claimable("mint")

InitializeAccountChecks ==
    LET ownerPassed == IF Op.tag = "InitializeAccount" THEN 1 ELSE 0
    IN  Has(2 + ownerPassed) & Rent(3 + ownerPassed) & Claimable("account")
        & (IF K(2) = NativeMint THEN Ok ELSE ValidMint(2))

\* The accounts after the multisig and the sysvar are its signers.
SignerInfos ==
    SubSeq(call.accounts, IF Op.tag = "InitializeMultisig" THEN 3 ELSE 2,
           Len(call.accounts))

\* The count is cut to a u8, and with more signers than the array has entries
\* the copying loop panics.
InitializeMultisigChecks ==
    Has(1) & Rent(2) & Claimable("multisig")
    & Ensure(IsValidSignerIndex(Len(SignerInfos) % IndexSpan),
             "InvalidNumberOfProvidedSigners")
    & Ensure(IsValidSignerIndex(Op.m), "InvalidNumberOfRequiredSigners")
    & Ensure(Len(SignerInfos) <= MaxSigners, "Panic")

TransferChecks ==
    LET a == D(1)
        b == D(2 + Shift)
    IN  Has(3 + Shift) & Unpack(a, "account") & Unpack(b, "account")
        & NotFrozen(a) & NotFrozen(b)
        & Ensure(Op.amount <= a.amount, "InsufficientFunds")
        & Ensure(a.mint = b.mint, "MintMismatch")
        & ExpectedMint(a)

ApproveChecks ==
    Has(3 + Shift) & Unpack(D(1), "account") & NotFrozen(D(1)) & ExpectedMint(D(1))

RevokeChecks == Has(1) & Unpack(D(1), "account") & Has(2) & NotFrozen(D(1))

SetAuthorityChecks ==
    Has(2) &
    CASE D(1).kind = "account" ->
            Unpack(D(1), "account") & NotFrozen(D(1))
            & Ensure(Op.authority_type \in {"AccountOwner", "CloseAccount"},
                     "AuthorityTypeNotSupported")
      [] D(1).kind = "mint" ->
            Unpack(D(1), "mint")
            & Ensure(Op.authority_type \in {"MintTokens", "FreezeAccount"},
                     "AuthorityTypeNotSupported")
            & Ensure(Op.authority_type = "MintTokens" => D(1).mint_authority # None,
                     "FixedSupply")
            & Ensure(Op.authority_type = "FreezeAccount" => D(1).freeze_authority # None,
                     "MintCannotFreeze")
      [] OTHER -> "InvalidArgument"

MintToChecks ==
    Has(3) & Unpack(D(2), "account") & NotFrozen(D(2)) & NotNative(D(2))
    & Ensure(K(1) = D(2).mint, "MintMismatch")
    & Unpack(D(1), "mint") & ExpectedDecimals(1)
    & Ensure(D(1).mint_authority # None, "FixedSupply")

BurnChecks ==
    Has(3) & Unpack(D(1), "account") & Unpack(D(2), "mint")
    & NotFrozen(D(1)) & NotNative(D(1))
    & Ensure(Op.amount <= D(1).amount, "InsufficientFunds")
    & Ensure(K(2) = D(1).mint, "MintMismatch") & ExpectedDecimals(2)

CloseAccountChecks ==
    Has(3) & Ensure(K(1) # K(2), "InvalidAccountData") & Unpack(D(1), "account")
    & Ensure(IsNative(D(1)) \/ D(1).amount = 0, "NonNativeHasBalance")
    & Ensure(IsOwnedBySystemProgramOrIncinerator(D(1)) => K(2) = Incinerator,
             "InvalidAccountData")

ToggleFreezeAccountChecks ==
    Has(3) & Unpack(D(1), "account")
    & Ensure((Op.tag = "FreezeAccount") # IsFrozen(D(1)), "InvalidState")
    & NotNative(D(1))
    & Ensure(K(2) = D(1).mint, "MintMismatch") & Unpack(D(2), "mint")
    & Ensure(D(2).freeze_authority # None, "MintCannotFreeze")

SyncNativeChecks ==
    LET wrapped == cells.lamports[K(1)] - D(1).is_native
    IN  Has(1) & CheckAccountOwner(1) & Unpack(D(1), "account")
        & Ensure(IsNative(D(1)), "NonNativeNotSupported")
        & Ensure(wrapped >= 0, "Overflow")
        & Ensure(wrapped >= D(1).amount, "InvalidState")

InitializeImmutableOwnerChecks ==
    Has(1) & UnpackUnchecked(D(1), "account")
    & Ensure(~IsInitialized(D(1)), "AlreadyInUse")

\* The queries change no account, and what they return is left out.
GetAccountDataSizeChecks == Has(1) & ValidMint(1)

AmountToUiAmountChecks == Has(1) & ValidMint(1)

UiAmountToAmountChecks ==
    Has(1) & ValidMint(1)
    & Ensure(TryUiAmountIntoAmount(Op.ui_amount, D(1).decimals) # InvalidArgument,
             "InvalidArgument")

Checks ==
    CASE Op.tag \in {"InitializeMint", "InitializeMint2"} -> InitializeMintChecks
      [] Op.tag \in {"InitializeAccount", "InitializeAccount2",
                     "InitializeAccount3"} -> InitializeAccountChecks
      [] Op.tag \in {"InitializeMultisig", "InitializeMultisig2"} ->
            InitializeMultisigChecks
      [] Op.tag \in {"Transfer", "TransferChecked"} -> TransferChecks
      [] Op.tag \in {"Approve", "ApproveChecked"} -> ApproveChecks
      [] Op.tag = "Revoke" -> RevokeChecks
      [] Op.tag = "SetAuthority" -> SetAuthorityChecks
      [] Op.tag \in {"MintTo", "MintToChecked"} -> MintToChecks
      [] Op.tag \in {"Burn", "BurnChecked"} -> BurnChecks
      [] Op.tag = "CloseAccount" -> CloseAccountChecks
      [] Op.tag \in {"FreezeAccount", "ThawAccount"} -> ToggleFreezeAccountChecks
      [] Op.tag = "SyncNative" -> SyncNativeChecks
      [] Op.tag = "InitializeImmutableOwner" -> InitializeImmutableOwnerChecks
      [] Op.tag = "GetAccountDataSize" -> GetAccountDataSizeChecks
      [] Op.tag = "AmountToUiAmount" -> AmountToUiAmountChecks
      [] Op.tag = "UiAmountToAmount" -> UiAmountToAmountChecks

-----------------------------------------------------------------------------
(* Whose signature a handler asks for, where that account is in the list,  *)
(* and what it checks when it has the signature.                           *)

SpendsAllowance(n) == D(1).delegate = K(n)

\* Nobody has to sign for what the system program or the incinerator owns.
IsAbandoned == IsOwnedBySystemProgramOrIncinerator(D(1))

AuthorityAt ==
    CASE Op.tag \in {"Transfer", "TransferChecked", "Approve", "ApproveChecked"} ->
            3 + Shift
      [] Op.tag \in {"Revoke", "SetAuthority"} -> 2
      [] OTHER -> 3

\* The delegate if it is the authority passed, the owner otherwise.
SpenderOf(a) == IF SpendsAllowance(AuthorityAt) THEN a.delegate ELSE a.owner

\* close_authority.unwrap_or(owner)
CloserOf(a) == IF a.close_authority = None THEN a.owner ELSE a.close_authority

OwnedAuthority ==
    CASE Op.authority_type = "AccountOwner" -> D(1).owner
      [] Op.authority_type = "CloseAccount" -> CloserOf(D(1))
      [] Op.authority_type = "MintTokens" -> D(1).mint_authority
      [] Op.authority_type = "FreezeAccount" -> D(1).freeze_authority

\* The expected_owner of validate_owner, None if it is not called.
ExpectedOwner ==
    CASE Op.tag \in {"Transfer", "TransferChecked"} -> SpenderOf(D(1))
      [] Op.tag \in {"Approve", "ApproveChecked", "Revoke"} -> D(1).owner
      [] Op.tag = "SetAuthority" -> OwnedAuthority
      [] Op.tag \in {"MintTo", "MintToChecked"} -> D(1).mint_authority
      [] Op.tag \in {"Burn", "BurnChecked"} /\ ~IsAbandoned -> SpenderOf(D(1))
      [] Op.tag = "CloseAccount" /\ ~IsAbandoned -> CloserOf(D(1))
      [] Op.tag \in {"FreezeAccount", "ThawAccount"} -> D(2).freeze_authority
      [] OTHER -> None

WithinAllowance ==
    Ensure(SpendsAllowance(AuthorityAt) => Op.amount <= D(1).delegated_amount,
           "InsufficientFunds")

\* Without it an instruction that writes nothing would pass for any program's
\* accounts: the runtime only objects to writes.
OwnersAreToken(m, n) == CheckAccountOwner(m) & CheckAccountOwner(n)

IsSelfTransfer == K(1) = K(2 + Shift)

TransferAfterwards ==
    WithinAllowance
    & (IF IsSelfTransfer \/ Op.amount = 0 THEN OwnersAreToken(1, 2 + Shift) ELSE Ok)
    & Ensure(IsSelfTransfer \/ D(2 + Shift).amount + Op.amount <= U64Max, "Overflow")

MintToAfterwards ==
    (IF Op.amount = 0 THEN OwnersAreToken(1, 2) ELSE Ok)
    & Ensure(D(2).amount + Op.amount <= U64Max, "Overflow")
    & Ensure(D(1).supply + Op.amount <= U64Max, "Overflow")

BurnAfterwards ==
    (IF IsAbandoned THEN Ok ELSE WithinAllowance)
    & (IF Op.amount = 0 THEN OwnersAreToken(1, 2) ELSE Ok)
    & Ensure(Op.amount <= D(2).supply, "Overflow")

ChecksAfterwards ==
    CASE Op.tag \in {"Transfer", "TransferChecked"} -> TransferAfterwards
      [] Op.tag \in {"MintTo", "MintToChecked"} -> MintToAfterwards
      [] Op.tag \in {"Burn", "BurnChecked"} -> BurnAfterwards
      [] Op.tag = "SetAuthority" ->
            Ensure(Op.authority_type = "AccountOwner" => Op.new_authority # None,
                   "InvalidInstruction")
      [] OTHER -> Ok

-----------------------------------------------------------------------------
(* What a handler writes, in order.  A write of lamports is relative, and   *)
(* is checked when it is made.                                             *)

Write(n, d) == <<[field |-> "data", at |-> K(n), to |-> d]>>

Add(n, amount) == <<[field |-> "lamports", at |-> K(n), by |-> amount]>>

\* delete_account on the chain: assign, then realloc to nothing.
DeleteAccount(n) ==
    <<[field |-> "owner", at |-> K(n), to |-> SystemProgram]>> \o Write(n, EmptyData)

InitializeAccountWrites ==
    LET native == K(2) = NativeMint
        reserve == MinBalance["account"]
    IN  Write(1, [kind |-> "account", mint |-> K(2),
                  owner |-> IF Op.tag = "InitializeAccount" THEN K(3) ELSE Op.owner,
                  amount |-> IF native THEN cells.lamports[K(1)] - reserve ELSE 0,
                  delegate |-> None, state |-> "Initialized",
                  is_native |-> IF native THEN reserve ELSE None,
                  delegated_amount |-> 0, close_authority |-> None])

\* Mutant: a spent allowance is reset and its delegate kept.
SpentKeepingDelegate(a) ==
    IF SpendsAllowance(AuthorityAt)
    THEN [a EXCEPT !.amount = @ - Op.amount, !.delegated_amount = @ - Op.amount]
    ELSE [a EXCEPT !.amount = @ - Op.amount]

Spent(a) ==
    IF SpendsAllowance(AuthorityAt)
    THEN [a EXCEPT !.amount = @ - Op.amount,
                   !.delegated_amount = @ - Op.amount,
                   !.delegate = IF a.delegated_amount = Op.amount THEN None ELSE @]
    ELSE [a EXCEPT !.amount = @ - Op.amount]

\* Mutant: a transfer to oneself writes the two copies one after the other.
TransferWritesToItself ==
    LET dst == 2 + Shift
    IN  (IF IsNative(D(1)) THEN Add(1, -Op.amount) \o Add(dst, Op.amount) ELSE <<>>)
        \o Write(1, Spent(D(1)))
        \o Write(dst, [D(dst) EXCEPT !.amount = @ + Op.amount])

TransferWrites ==
    LET dst == 2 + Shift
    IN  IF IsSelfTransfer THEN <<>>
        ELSE (IF IsNative(D(1)) THEN Add(1, -Op.amount) \o Add(dst, Op.amount) ELSE <<>>)
             \o Write(1, Spent(D(1)))
             \o Write(dst, [D(dst) EXCEPT !.amount = @ + Op.amount])

SetAuthorityWrites ==
    LET a == D(1)
        new == Op.new_authority
    IN  Write(1,
          CASE Op.authority_type = "AccountOwner" ->
                  [a EXCEPT !.owner = new, !.delegate = None, !.delegated_amount = 0,
                            !.close_authority = IF IsNative(a) THEN None ELSE @]
            [] Op.authority_type = "CloseAccount" -> [a EXCEPT !.close_authority = new]
            [] Op.authority_type = "MintTokens" -> [a EXCEPT !.mint_authority = new]
            [] Op.authority_type = "FreezeAccount" -> [a EXCEPT !.freeze_authority = new])

BurnWrites ==
    Write(1, IF IsAbandoned THEN [D(1) EXCEPT !.amount = @ - Op.amount] ELSE Spent(D(1)))
    \o Write(2, [D(2) EXCEPT !.supply = @ - Op.amount])

CloseAccountWrites ==
    Add(2, cells.lamports[K(1)]) \o Add(1, -cells.lamports[K(1)]) \o DeleteAccount(1)

Writes ==
    CASE Op.tag \in {"InitializeMint", "InitializeMint2"} ->
            Write(1, [D(1) EXCEPT !.mint_authority = Op.mint_authority,
                                  !.decimals = Op.decimals, !.is_initialized = TRUE,
                                  !.freeze_authority = Op.freeze_authority])
      [] Op.tag \in {"InitializeAccount", "InitializeAccount2",
                     "InitializeAccount3"} -> InitializeAccountWrites
      [] Op.tag \in {"InitializeMultisig", "InitializeMultisig2"} ->
            Write(1, [kind |-> "multisig", m |-> Op.m, is_initialized |-> TRUE,
                      signers |-> [p \in DOMAIN SignerInfos |-> SignerInfos[p].pubkey]])
      [] Op.tag \in {"Transfer", "TransferChecked"} -> TransferWrites
      [] Op.tag \in {"Approve", "ApproveChecked"} ->
            Write(1, [D(1) EXCEPT !.delegate = K(2 + Shift),
                                  !.delegated_amount = Op.amount])
      [] Op.tag = "Revoke" -> Write(1, [D(1) EXCEPT !.delegate = None,
                                                    !.delegated_amount = 0])
      [] Op.tag = "SetAuthority" -> SetAuthorityWrites
      [] Op.tag \in {"MintTo", "MintToChecked"} ->
            Write(2, [D(2) EXCEPT !.amount = @ + Op.amount])
            \o Write(1, [D(1) EXCEPT !.supply = @ + Op.amount])
      [] Op.tag \in {"Burn", "BurnChecked"} -> BurnWrites
      [] Op.tag = "CloseAccount" -> CloseAccountWrites
      [] Op.tag \in {"FreezeAccount", "ThawAccount"} ->
            Write(1, [D(1) EXCEPT !.state = IF Op.tag = "FreezeAccount"
                                            THEN "Frozen" ELSE "Initialized"])
      [] Op.tag = "SyncNative" ->
            Write(1, [D(1) EXCEPT !.amount = cells.lamports[K(1)] - D(1).is_native])
      [] OTHER -> <<>>

-----------------------------------------------------------------------------
(* The steps of an invocation.                                             *)

NoLoop == [rest |-> <<>>, matched |-> {}, count |-> 0]

Fail(error) ==
    /\ pc' = "exit"
    /\ result' = error
    /\ UNCHANGED <<lamports, owner, data, intent, call, cells, matching, effects>>

Goto(place) ==
    /\ pc' = place
    /\ UNCHANGED <<lamports, owner, data, intent, call, cells, effects, result>>

\* The runtime loads the accounts and calls the program, if all who are marked
\* as signers have signed the transaction.
Submit(instruction, signatures) ==
    LET signed == \A p \in DOMAIN instruction.accounts :
                     instruction.accounts[p].is_signer =>
                        instruction.accounts[p].pubkey \in signatures
    IN  /\ pc = "idle"
        /\ pc' = IF signed THEN "check" ELSE "exit"
        /\ result' = IF signed THEN Ok ELSE "SignatureFailure"
        /\ call' = instruction
        /\ cells' = [lamports |-> lamports, owner |-> owner, data |-> data]
        /\ UNCHANGED <<lamports, owner, data, matching, effects>>

Check ==
    /\ pc = "check"
    /\ IF Checks # Ok THEN Fail(Checks)
       ELSE /\ Goto(IF ExpectedOwner = None THEN "apply" ELSE "authorise")
            /\ UNCHANGED matching

\* validate_owner up to its loop.
Authorise ==
    LET k == K(AuthorityAt)
        isMultisig == cells.owner[k] = TokenProgram /\ cells.data[k].kind = "multisig"
        error == Ensure(ExpectedOwner = k, "OwnerMismatch")
                 & (IF isMultisig THEN Unpack(cells.data[k], "multisig")
                    ELSE Ensure(IsSigner(k), "MissingRequiredSignature"))
    IN  /\ pc = "authorise"
        /\ IF error # Ok THEN Fail(error)
           ELSE IF isMultisig
           THEN /\ Goto("signers")
                /\ matching' = [NoLoop EXCEPT !.rest =
                      SubSeq(call.accounts, AuthorityAt + 1, Len(call.accounts))]
           ELSE Goto("apply") /\ UNCHANGED matching

Multisig == cells.data[K(AuthorityAt)]

\* Mutant: a signer passed twice counts twice.
PositionsForgetful(k) == {p \in DOMAIN Multisig.signers : Multisig.signers[p] = k}

\* The listed positions a passed signer matches and no earlier one did.
Positions(k) ==
    {p \in DOMAIN Multisig.signers : Multisig.signers[p] = k} \ matching.matched

\* Mutant: the loop stays at a signer that is not listed.
MatchSignerStuck ==
    LET signer == Head(matching.rest)
        positions == Positions(signer.pubkey)
    IN  /\ pc = "signers"
        /\ matching.rest # <<>>
        /\ IF positions # {} /\ ~IsSigner(signer.pubkey)
           THEN Fail("MissingRequiredSignature")
           ELSE /\ matching' = [rest |-> IF positions = {} THEN matching.rest
                                         ELSE Tail(matching.rest),
                                matched |-> matching.matched \cup positions,
                                count |-> matching.count + Cardinality(positions)]
                /\ Goto("signers")

\* One round of the loop; it ends in a count of the matched positions.
MatchSigner ==
    LET signer == Head(matching.rest)
        positions == Positions(signer.pubkey)
    IN  /\ pc = "signers"
        /\ matching.rest # <<>>
        /\ IF positions # {} /\ ~IsSigner(signer.pubkey)
           THEN Fail("MissingRequiredSignature")
           ELSE /\ matching' = [rest |-> Tail(matching.rest),
                                matched |-> matching.matched \cup positions,
                                count |-> matching.count + Cardinality(positions)]
                /\ Goto("signers")

CountSigners ==
    /\ pc = "signers"
    /\ matching.rest = <<>>
    /\ IF matching.count < Multisig.m THEN Fail("MissingRequiredSignature")
       ELSE Goto("apply") /\ matching' = NoLoop

\* The handler's own copies are final; what is left are the writes.
Apply ==
    /\ pc = "apply"
    /\ IF ChecksAfterwards # Ok THEN Fail(ChecksAfterwards)
       ELSE /\ pc' = "write"
            /\ effects' = Writes
            /\ UNCHANGED <<lamports, owner, data, intent, call, cells, matching, result>>

DoWrite ==
    LET e == Head(effects)
    IN  /\ pc = "write"
        /\ effects # <<>>
        /\ IF e.field = "lamports" /\ cells.lamports[e.at] + e.by \notin U64
           THEN Fail("Overflow")
           ELSE /\ cells' = [cells EXCEPT ![e.field][e.at] =
                                IF e.field = "lamports" THEN @ + e.by ELSE e.to]
                /\ effects' = Tail(effects)
                /\ UNCHANGED <<lamports, owner, data, pc, intent, call, matching, result>>

Return ==
    /\ pc = "write"
    /\ effects = <<>>
    /\ pc' = "exit"
    /\ UNCHANGED <<lamports, owner, data, intent, call, cells, matching, effects, result>>

\* Only what is writable, and the program's own, may have been changed.
Verified ==
    \A k \in Key :
        /\ \/ IsWritable(k)
           \/ /\ cells.data[k] = data[k]
              /\ cells.lamports[k] = lamports[k]
              /\ cells.owner[k] = owner[k]
        /\ \/ owner[k] = TokenProgram
           \/ /\ cells.data[k] = data[k]
              /\ cells.lamports[k] >= lamports[k]
              /\ cells.owner[k] = owner[k]

\* The runtime sees a return code.
Succeeds == ReturnCode(result) = <<0, 0>> /\ Verified

Finish ==
    /\ pc' = "idle"
    /\ intent' = None
    /\ call' = None
    /\ cells' = None
    /\ matching' = NoLoop
    /\ effects' = <<>>
    /\ result' = Ok

Rollback ==
    /\ pc = "exit"
    /\ ~Succeeds
    /\ UNCHANGED <<lamports, owner, data>>
    /\ Finish

Commit ==
    /\ pc = "exit"
    /\ Succeeds
    /\ lamports' = cells.lamports
    /\ owner' = cells.owner
    /\ data' = cells.data
    /\ Finish

\* Everything that happens once the program has been called.
Progress ==
    \/ Check \/ Authorise \/ MatchSigner \/ CountSigners
    \/ Apply \/ DoWrite \/ Return \/ Commit \/ Rollback

=============================================================================
