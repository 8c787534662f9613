------------------------------- MODULE Token -------------------------------
(***************************************************************************)
(* The SPL token program (token/src/processor.rs): one action for every    *)
(* instruction that can change an account.  An action is an invocation     *)
(* that returns Ok and that the runtime accepts; the early returns of a    *)
(* handler are the conjuncts of its guard, in the order of the code where  *)
(* that matters.  The parameter S of an action is the set of addresses     *)
(* that signed the transaction (AccountInfo.is_signer), auth is the        *)
(* address passed as the authority account, expected is the decimals       *)
(* operand of the ...Checked variants and None for the others.             *)
(***************************************************************************)
EXTENDS Solana

CONSTANTS
    MintAuthorities,    \* addresses clients name in each role
    FreezeAuthorities,
    Owners,
    CloseAuthorities,
    Delegates,
    Refund,             \* addresses they send a closed account's lamports to
    Amount,             \* amounts they ask for
    Allowance           \* amounts they approve for a delegate

ASSUME InputAssumption ==
    /\ (MintAuthorities \cup FreezeAuthorities \cup Owners
          \cup CloseAuthorities \cup Delegates \cup Refund) \subseteq Key
    /\ Amount \cup Allowance \subseteq U64

\* The chain before the first client: nothing but the native mint, which has
\* no authorities and belongs to the token program.
Init ==
    /\ lamports = GenesisLamports
    /\ owner = [k \in Key |->
                   IF k = NativeMint THEN TokenProgram ELSE SystemProgram]
    /\ data = [k \in Key |->
                   IF k = NativeMint
                   THEN [ZeroMint EXCEPT !.decimals = NativeDecimals,
                                         !.is_initialized = TRUE]
                   ELSE EmptyData]

-----------------------------------------------------------------------------
(* Helpers of the processor.                                               *)

\* The handler packs newData back and touches nothing else.
Pack(newData) ==
    /\ data' = newData
    /\ UNCHANGED <<lamports, owner>>
    /\ RuntimeAccepts(TokenProgram)

CheckAccountOwner(k) == owner[k] = TokenProgram

AlreadyInUse(k) == IsMint(data[k]) \/ IsAccount(data[k]) \/ IsMultisig(data[k])

\* Mutant: wrapping or unchecked addition.
UncheckedAdd(n, amount) == TRUE

\* u64::checked_add
CheckedAddFits(n, amount) == n + amount <= U64Max

IsRentExempt(k) == lamports[k] >= MinBalance[data[k].kind]

\* Mutant: a multisig is not asked whether it is initialized (its m is 0).
ValidateOwnerUnpackUnchecked(expected, S) ==
    IF owner[expected] = TokenProgram /\ data[expected].kind = "multisig"
    THEN data[expected].m <=
            Cardinality({p \in DOMAIN data[expected].signers :
                            data[expected].signers[p] \in S})
    ELSE expected \in S

\* validate_owner: a multisig of the token program needs m of its listed
\* signers, counted by position; any other address has to sign itself.
ValidateOwner(expected, S) ==
    IF owner[expected] = TokenProgram /\ data[expected].kind = "multisig"
    THEN /\ IsMultisig(data[expected])
         /\ data[expected].m <=
               Cardinality({p \in DOMAIN data[expected].signers :
                               data[expected].signers[p] \in S})
    ELSE expected \in S

\* The mint account passed to a ...Checked instruction.
DecimalsMatch(mint, expected) ==
    expected # None => /\ IsMint(data[mint])
                       /\ data[mint].decimals = expected

\* Mutant: a delegate shadows the owner.
MaySpendDelegateOnly(a, auth, amount, S) ==
    /\ ValidateOwner(auth, S)
    /\ IF a.delegate # None THEN a.delegate = auth /\ amount <= a.delegated_amount
                            ELSE a.owner = auth

\* The authority of a transfer or a burn: the delegate if it is the one
\* named, within its allowance, and the owner otherwise.
MaySpend(a, auth, amount, S) ==
    /\ ValidateOwner(auth, S)
    /\ IF a.delegate = auth THEN amount <= a.delegated_amount
                            ELSE a.owner = auth

\* Mutant: the allowance is checked but not used up.
KeepAllowance(a, auth, amount) == a

\* What is left of the allowance afterwards; used up, it ends the delegation.
ReduceAllowance(a, auth, amount) ==
    IF a.delegate = auth
    THEN [a EXCEPT !.delegated_amount = a.delegated_amount - amount,
                   !.delegate = IF a.delegated_amount = amount
                                THEN None ELSE a.delegate]
    ELSE a

-----------------------------------------------------------------------------
\* InitializeMint and InitializeMint2.  The supply is left as it is found.
InitializeMint(k, decimals, mintAuthority, freezeAuthority) ==
    /\ data[k].kind = "mint"
    /\ ~AlreadyInUse(k)
    /\ IsRentExempt(k)
    /\ Pack([data EXCEPT ![k] =
          [data[k] EXCEPT !.mint_authority = mintAuthority,
                          !.decimals = decimals,
                          !.is_initialized = TRUE,
                          !.freeze_authority = freezeAuthority]])

\* Mutants: the mint is not unpacked, or its owning program not checked.
IsValidMintOwnerOnly(mint) == mint # NativeMint => CheckAccountOwner(mint)

IsValidMintDataOnly(mint) == mint # NativeMint => IsMint(data[mint])

\* An account holds tokens of the native mint or of a live mint.
IsValidMint(mint) ==
    mint # NativeMint => CheckAccountOwner(mint) /\ IsMint(data[mint])

\* InitializeAccount, InitializeAccount2 and InitializeAccount3.
InitializeAccount(k, mint, newOwner) ==
    /\ data[k].kind = "account"
    /\ ~AlreadyInUse(k)
    /\ IsRentExempt(k)
    /\ IsValidMint(mint)
    /\ Pack([data EXCEPT ![k] =
          [kind |-> "account", mint |-> mint, owner |-> newOwner,
           amount |-> IF mint = NativeMint
                      THEN lamports[k] - MinBalance["account"] ELSE 0,
           delegate |-> None, state |-> "Initialized",
           is_native |-> IF mint = NativeMint
                         THEN MinBalance["account"] ELSE None,
           delegated_amount |-> 0, close_authority |-> None]])

\* InitializeMultisig and InitializeMultisig2.
InitializeMultisig(k, m, signers) ==
    /\ data[k].kind = "multisig"
    /\ ~AlreadyInUse(k)
    /\ IsRentExempt(k)
    /\ IsValidSignerIndex(Cardinality(DOMAIN signers))
    /\ IsValidSignerIndex(m)
    /\ Pack([data EXCEPT ![k] =
          [kind |-> "multisig", m |-> m, is_initialized |-> TRUE,
           signers |-> signers]])

\* Mutant: the second write of a self-transfer wins.
IsSelfTransferNever(src, dst) == FALSE

\* A transfer to the source itself is validated in full and moves nothing.
IsSelfTransfer(src, dst) == src = dst

\* Transfer and TransferChecked.
Transfer(S, src, dst, auth, amount, expected) ==
    LET a == data[src]
        b == data[dst]
    IN  /\ IsAccount(a) /\ IsAccount(b)
        /\ ~IsFrozen(a) /\ ~IsFrozen(b)
        /\ amount <= a.amount
        /\ a.mint = b.mint
        /\ DecimalsMatch(a.mint, expected)
        /\ MaySpend(a, auth, amount, S)
        /\ (IsSelfTransfer(src, dst) \/ amount = 0) =>
              CheckAccountOwner(src) /\ CheckAccountOwner(dst)
        /\ IF IsSelfTransfer(src, dst) THEN UNCHANGED vars
           ELSE /\ CheckedAddFits(b.amount, amount)
                /\ IF IsNative(a) THEN Pay(src, dst, amount)
                                  ELSE UNCHANGED lamports
                /\ data' = [data EXCEPT
                      ![src] = [ReduceAllowance(a, auth, amount)
                                   EXCEPT !.amount = a.amount - amount],
                      ![dst] = [b EXCEPT !.amount = b.amount + amount]]
                /\ UNCHANGED owner
                /\ RuntimeAccepts(TokenProgram)

\* Approve and ApproveChecked.
Approve(S, src, delegate, amount, expected) ==
    /\ IsAccount(data[src])
    /\ ~IsFrozen(data[src])
    /\ DecimalsMatch(data[src].mint, expected)
    /\ ValidateOwner(data[src].owner, S)
    /\ Pack([data EXCEPT ![src] =
          [data[src] EXCEPT !.delegate = delegate,
                            !.delegated_amount = amount]])

Revoke(S, src) ==
    /\ IsAccount(data[src])
    /\ ~IsFrozen(data[src])
    /\ ValidateOwner(data[src].owner, S)
    /\ Pack([data EXCEPT ![src] =
          [data[src] EXCEPT !.delegate = None, !.delegated_amount = 0]])

\* Mutant: the delegate of the old owner stays.
HandOverKeepDelegate(a, newOwner) ==
    [a EXCEPT !.owner = newOwner,
              !.close_authority =
                 IF IsNative(a) THEN None ELSE a.close_authority]

\* Mutant: the close authority of the old owner stays on a native account, too.
HandOverKeepCloser(a, newOwner) ==
    [a EXCEPT !.owner = newOwner,
              !.delegate = None,
              !.delegated_amount = 0]

\* The new owner takes the account without the old delegate and, when the
\* account is native, without the old close authority.
HandOver(a, newOwner) ==
    [a EXCEPT !.owner = newOwner,
              !.delegate = None,
              !.delegated_amount = 0,
              !.close_authority =
                 IF IsNative(a) THEN None ELSE a.close_authority]

\* SetAuthority with AuthorityType::AccountOwner.
SetAccountOwner(S, k, newOwner) ==
    /\ IsAccount(data[k])
    /\ ~IsFrozen(data[k])
    /\ ValidateOwner(data[k].owner, S)
    /\ Pack([data EXCEPT ![k] = HandOver(data[k], newOwner)])

\* Mutant: the owner may close whatever the close authority.
CloserIsOwner(a) == a.owner

\* close_authority.unwrap_or(owner)
Closer(a) == IF a.close_authority = None THEN a.owner ELSE a.close_authority

\* Mutant: a frozen account is not refused.
SetCloseAuthorityFrozen(S, k, newAuthority) ==
    /\ IsAccount(data[k])
    /\ ValidateOwner(Closer(data[k]), S)
    /\ Pack([data EXCEPT ![k] =
          [data[k] EXCEPT !.close_authority = newAuthority]])

\* SetAuthority with AuthorityType::CloseAccount.
SetCloseAuthority(S, k, newAuthority) ==
    /\ IsAccount(data[k])
    /\ ~IsFrozen(data[k])
    /\ ValidateOwner(Closer(data[k]), S)
    /\ Pack([data EXCEPT ![k] =
          [data[k] EXCEPT !.close_authority = newAuthority]])

\* SetAuthority with AuthorityType::MintTokens.  Once given up (FixedSupply),
\* the authority cannot be set again.
SetMintAuthority(S, k, newAuthority) ==
    /\ IsMint(data[k])
    /\ data[k].mint_authority # None
    /\ ValidateOwner(data[k].mint_authority, S)
    /\ Pack([data EXCEPT ![k] =
          [data[k] EXCEPT !.mint_authority = newAuthority]])

\* Mutants: the mint authority stands in for the freeze authority, when there
\* is none or always.
FreezeSetterOrMinter(m) ==
    IF m.freeze_authority = None THEN m.mint_authority ELSE m.freeze_authority

FreezeSetterIsMinter(m) == m.mint_authority

\* Who may name the next freeze authority: nobody after there is none.
FreezeSetter(m) == m.freeze_authority

\* SetAuthority with AuthorityType::FreezeAccount.
SetFreezeAuthority(S, k, newAuthority) ==
    /\ IsMint(data[k])
    /\ FreezeSetter(data[k]) # None
    /\ ValidateOwner(FreezeSetter(data[k]), S)
    /\ Pack([data EXCEPT ![k] =
          [data[k] EXCEPT !.freeze_authority = newAuthority]])

\* MintTo and MintToChecked.
MintTo(S, mint, dst, amount, expected) ==
    /\ IsAccount(data[dst])
    /\ ~IsFrozen(data[dst])
    /\ ~IsNative(data[dst])
    /\ data[dst].mint = mint
    /\ IsMint(data[mint])
    /\ DecimalsMatch(mint, expected)
    /\ data[mint].mint_authority # None
    /\ ValidateOwner(data[mint].mint_authority, S)
    /\ amount = 0 => CheckAccountOwner(mint) /\ CheckAccountOwner(dst)
    /\ CheckedAddFits(data[dst].amount, amount)
    /\ CheckedAddFits(data[mint].supply, amount)
    /\ Pack([data EXCEPT
          ![dst] = [data[dst] EXCEPT !.amount = data[dst].amount + amount],
          ![mint] = [data[mint] EXCEPT !.supply = data[mint].supply + amount]])

\* Burn and BurnChecked.  Anybody may burn what belongs to the system program
\* or to the incinerator, and then no allowance is used.
Burn(S, src, mint, auth, amount, expected) ==
    LET a == data[src]
        abandoned == IsOwnedBySystemProgramOrIncinerator(a)
    IN  /\ IsAccount(a)
        /\ IsMint(data[mint])
        /\ ~IsFrozen(a)
        /\ ~IsNative(a)
        /\ amount <= a.amount
        /\ a.mint = mint
        /\ DecimalsMatch(mint, expected)
        /\ abandoned \/ MaySpend(a, auth, amount, S)
        /\ amount = 0 => CheckAccountOwner(src) /\ CheckAccountOwner(mint)
        /\ amount <= data[mint].supply
        /\ Pack([data EXCEPT
              ![src] = [(IF abandoned THEN a ELSE ReduceAllowance(a, auth, amount))
                           EXCEPT !.amount = a.amount - amount],
              ![mint] = [data[mint] EXCEPT !.supply = data[mint].supply - amount]])

\* Mutants: any account can be closed, or none that holds wrapped SOL.
IsClosableAlways(a) == TRUE

IsClosableEmpty(a) == a.amount = 0

\* Wrapped SOL leaves with the lamports; other tokens must be gone before.
IsClosable(a) == IsNative(a) \/ a.amount = 0

\* Mutant: source and destination are not compared.
IsClosableIntoItself(src, dst) == TRUE

\* Swept into itself an account would lose its lamports.
IsClosableInto(src, dst) == src # dst

\* Mutant: whoever closes an abandoned account takes its lamports.
MayReceiveAbandonedAny(dst) == TRUE

\* What nobody can sign for is closed into the incinerator only.
MayReceiveAbandoned(dst) == dst = Incinerator

\* Mutant: the account is marked uninitialized and otherwise left as it is.
DeleteByState(src) ==
    /\ data' = [data EXCEPT ![src].state = "Uninitialized"]
    /\ UNCHANGED owner

\* delete_account: back to the system program, without data.
DeleteAccount(src) ==
    /\ owner' = [owner EXCEPT ![src] = SystemProgram]
    /\ data' = [data EXCEPT ![src] = EmptyData]

CloseAccount(S, src, dst) ==
    LET a == data[src]
    IN  /\ IsClosableInto(src, dst)
        /\ IsAccount(a)
        /\ IsClosable(a)
        /\ IF IsOwnedBySystemProgramOrIncinerator(a)
           THEN MayReceiveAbandoned(dst)
           ELSE ValidateOwner(Closer(a), S)
        /\ CheckedAddFits(lamports[dst], lamports[src])
        /\ lamports' = [lamports EXCEPT ![dst] = lamports[dst] + lamports[src],
                                        ![src] = 0]
        /\ DeleteAccount(src)
        /\ RuntimeAccepts(TokenProgram)

\* FreezeAccount and ThawAccount.
ToggleFreezeAccount(S, src, mint, freeze) ==
    /\ IsAccount(data[src])
    /\ freeze # IsFrozen(data[src])
    /\ ~IsNative(data[src])
    /\ data[src].mint = mint
    /\ IsMint(data[mint])
    /\ data[mint].freeze_authority # None
    /\ ValidateOwner(data[mint].freeze_authority, S)
    /\ Pack([data EXCEPT ![src] =
          [data[src] EXCEPT !.state =
             IF freeze THEN "Frozen" ELSE "Initialized"]])

\* Mutant: the reserve is counted as wrapped SOL.
WrappedWithReserve(k) == lamports[k]

\* The lamports of a native account beyond its rent exempt reserve.
Wrapped(k) == lamports[k] - data[k].is_native

\* Anybody may credit a native account with lamports it received.
SyncNative(k) ==
    /\ CheckAccountOwner(k)
    /\ IsAccount(data[k])
    /\ IsNative(data[k])
    /\ data[k].amount <= Wrapped(k)
    /\ Pack([data EXCEPT ![k] = [data[k] EXCEPT !.amount = Wrapped(k)]])

-----------------------------------------------------------------------------
(* The dispatcher, with the accounts and operands a client may pass.  Data  *)
(* of the wrong length fails to unpack, so only the right one is tried.     *)

MintAccounts == {k \in Key : data[k].kind = "mint"}
TokenAccounts == {k \in Key : data[k].kind = "account"}
MultisigAccounts == {k \in Key : data[k].kind = "multisig"}

Expected == Decimals \cup {None}

\* Lists of signers, one too long included.
SignerLists == UNION {[1 .. n -> Signer] : n \in 0 .. MaxSigners + 1}

\* Instructions that nobody in particular has to sign.
Permissionless ==
    \/ \E k \in MintAccounts, decimals \in Decimals,
          mintAuthority \in MintAuthorities,
          freezeAuthority \in FreezeAuthorities \cup {None} :
          InitializeMint(k, decimals, mintAuthority, freezeAuthority)
    \/ \E k \in TokenAccounts, mint \in MintAccounts, newOwner \in Owners :
          InitializeAccount(k, mint, newOwner)
    \/ \E k \in MultisigAccounts, m \in 0 .. MaxSigners + 1,
          signers \in SignerLists :
          InitializeMultisig(k, m, signers)
    \/ \E k \in TokenAccounts : SyncNative(k)

SetAuthority(S) ==
    \/ \E k \in TokenAccounts, new \in Owners : SetAccountOwner(S, k, new)
    \/ \E k \in TokenAccounts, new \in CloseAuthorities \cup {None} :
          SetCloseAuthority(S, k, new)
    \/ \E k \in MintAccounts, new \in MintAuthorities \cup {None} :
          SetMintAuthority(S, k, new)
    \/ \E k \in MintAccounts, new \in FreezeAuthorities \cup {None} :
          SetFreezeAuthority(S, k, new)

SignedBy(S) ==
    \/ \E src, dst \in TokenAccounts, auth \in Owners \cup Delegates,
          amount \in Amount, expected \in Expected :
          Transfer(S, src, dst, auth, amount, expected)
    \/ \E src \in TokenAccounts, delegate \in Delegates,
          amount \in Allowance, expected \in Expected :
          Approve(S, src, delegate, amount, expected)
    \/ \E src \in TokenAccounts : Revoke(S, src)
    \/ SetAuthority(S)
    \/ \E mint \in MintAccounts, dst \in TokenAccounts,
          amount \in Amount, expected \in Expected :
          MintTo(S, mint, dst, amount, expected)
    \/ \E src \in TokenAccounts, mint \in MintAccounts,
          auth \in Owners \cup Delegates, amount \in Amount,
          expected \in Expected :
          Burn(S, src, mint, auth, amount, expected)
    \/ \E src \in TokenAccounts, dst \in Refund : CloseAccount(S, src, dst)
    \/ \E src \in TokenAccounts, mint \in MintAccounts, freeze \in BOOLEAN :
          ToggleFreezeAccount(S, src, mint, freeze)

Next ==
    \/ Environment
    \/ Permissionless
    \/ \E S \in SUBSET Signer : SignedBy(S)

Spec == Init /\ [][Next]_vars
=============================================================================
