-------------------------- MODULE TokenProperties --------------------------
(***************************************************************************)
(* What makes the token program correct: the invariants of its accounts,   *)
(* what an instruction may never do to them, and the abstract ledger it    *)
(* implements.                                                             *)
(***************************************************************************)
EXTENDS Token

-----------------------------------------------------------------------------
(* The accounts that count are those the token program owns: what another   *)
(* program writes in its own accounts may look the same.                    *)

IsLiveMint(k) == owner[k] = TokenProgram /\ IsMint(data[k])

IsLiveAccount(k) == owner[k] = TokenProgram /\ IsAccount(data[k])

IsLiveMultisig(k) == owner[k] = TokenProgram /\ IsMultisig(data[k])

\* A live account of a mint other than the native one.
IsHolder(k) == IsLiveAccount(k) /\ ~IsNative(data[k])

\* Who may close an account.
CloserOf(a) == IF a.close_authority # None THEN a.close_authority ELSE a.owner

\* The account at k is live after the step, too.
StaysLive(k) == owner'[k] = TokenProgram /\ IsAccount(data'[k])

AmountAfter(k) == IF StaysLive(k) THEN data'[k].amount ELSE 0

\* S holds the signatures of k: its own, or a full quorum when k is a multisig.
Signs(k, S) ==
    /\ k # None
    /\ IF owner[k] = TokenProgram /\ data[k].kind = "multisig"
       THEN IsLiveMultisig(k) /\
            \E Q \in SUBSET (DOMAIN data[k].signers) :
               /\ Cardinality(Q) = data[k].m
               /\ \A p \in Q : data[k].signers[p] \in S
       ELSE k \in S

\* k consented to this step: nobody could have made it without k's signature,
\* neither a client nor another program.
HasConsentOf(k) ==
    /\ \A S \in SUBSET Signer : ~Signs(k, S) => ~SignedBy(S)
    /\ ~Permissionless
    /\ ~Environment

-----------------------------------------------------------------------------
(* Invariants.                                                             *)

\* Every account keeps one of the three layouts or none at all, with amounts
\* that are u64s: no check of the handlers lets one go below zero or overflow.
TypeOK ==
    /\ lamports \in [Key -> U64]
    /\ owner \in [Key -> Program]
    /\ data \in [Key -> Data]

\* Data the token program owns and nobody has initialized is all zero.
\* InitializeMint relies on it: it does not reset the supply it finds.
UnclaimedDataIsZero ==
    \A k \in Key : owner[k] = TokenProgram =>
        IsMint(data[k]) \/ IsAccount(data[k]) \/ IsMultisig(data[k])
           \/ data[k] \in Zeroed

\* The mint of a native account is the native one, and that of any other
\* account is live.
AccountsNameMints ==
    \A k \in Key : IsLiveAccount(k) =>
        IF IsNative(data[k])
        THEN data[k].mint = NativeMint
        ELSE data[k].mint # NativeMint /\ IsLiveMint(data[k].mint)

\* What a native account recorded when it was initialized is its rent.
ReserveIsRent ==
    \A k \in Key : IsLiveAccount(k) /\ IsNative(data[k]) =>
        data[k].is_native = MinBalance["account"]

\* The mint an account names is live for as long as the account is, and an
\* account is native exactly when it names the native mint, with the reserve
\* it recorded when it was initialized.  The handlers that take a mint
\* compare addresses and do not check who owns it.
AccountsFollowMints == AccountsNameMints /\ ReserveIsRent

\* The supply recorded in a mint is what its accounts hold together.  No
\* instruction sees more than two of them at a time.
SupplyMatchesBalances ==
    \A m \in Key : IsLiveMint(m) =>
        data[m].supply =
           Total([k \in Key |-> IF IsHolder(k) /\ data[k].mint = m
                                THEN data[k].amount ELSE 0])

\* Wrapped SOL can be unwrapped: a native account has the lamports for its
\* amount on top of its reserve, whatever was transferred, synced or sent.
WrappedLamportsBacked ==
    \A k \in Key : IsLiveAccount(k) /\ IsNative(data[k]) =>
        data[k].is_native + data[k].amount <= lamports[k]

\* What was rent exempt when it was initialized stays so.
StaysRentExempt ==
    \A k \in Key :
        IsLiveMint(k) \/ IsLiveAccount(k) \/ IsLiveMultisig(k) =>
           MinBalance[data[k].kind] <= lamports[k]

\* Instructions move lamports and neither make nor lose any.
LamportsConserved == Total(lamports) = Total(GenesisLamports)

\* The most the owner may move or burn at once: an owner who is its own delegate
\* is taken for the delegate, and held to the allowance.
OwnersShare(a) ==
    IF a.delegate = a.owner /\ a.delegated_amount < a.amount
    THEN a.delegated_amount ELSE a.amount

\* Signed by S, the owner of the account at a can take any delegation back, burn
\* its share, and move it to every account of the mint.
OwnerCanSpend(S, a) ==
    LET o == data[a].owner
        share == OwnersShare(data[a])
    IN  /\ ENABLED Revoke(S, a)
        /\ ~IsNative(data[a]) =>
              ENABLED Burn(S, a, data[a].mint, o, share, None)
        /\ \A b \in Key \ {a} :
              IsLiveAccount(b) /\ ~IsFrozen(data[b]) /\ data[b].mint = data[a].mint
                 => ENABLED Transfer(S, a, b, o, share, None)

CloserCanClose(S, a) ==
    \A dst \in Refund \ {a} : ENABLED CloseAccount(S, a, dst)

\* With the owner's signatures the balance of an account that is not frozen is
\* never stuck, neither in the matches on its delegate and closer nor by an
\* overflow check at the destination or the supply of the mint: all of it can be
\* moved or burnt, or, by an owner that is its own delegate, the allowance at
\* once and the rest after a Revoke.  And with its closer's signatures an account
\* that is empty or native can be closed, unless nobody can sign for its owner.
OwnersAreNeverStuck ==
    \A a \in Key, S \in SUBSET Signer : IsLiveAccount(a) =>
        /\ (Signs(data[a].owner, S) /\ ~IsFrozen(data[a])) => OwnerCanSpend(S, a)
        /\ ( /\ Signs(CloserOf(data[a]), S)
             /\ IsNative(data[a]) \/ data[a].amount = 0
             /\ ~IsOwnedBySystemProgramOrIncinerator(data[a]) )
              => CloserCanClose(S, a)

-----------------------------------------------------------------------------
(* Action properties.                                                      *)

\* Tokens leave an account only with the consent of its owner, of its delegate
\* out of an allowance that shrinks by as much, or, as the wrapped SOL of an
\* account being closed, of its closer.  What the system program or the
\* incinerator owns can only be burnt or closed into the incinerator.
DebitIsAuthorised(k) ==
    LET a == data[k]
        spent == a.amount - AmountAfter(k)
    IN  \/ HasConsentOf(a.owner)
        \/ /\ a.delegate # None
           /\ HasConsentOf(a.delegate)
           /\ StaysLive(k)
           /\ data'[k].delegated_amount = a.delegated_amount - spent
           /\ data'[k].delegated_amount >= 0
        \/ ~StaysLive(k) /\ HasConsentOf(CloserOf(a))
        \/ /\ IsOwnedBySystemProgramOrIncinerator(a)
           /\ \/ data'[a.mint].supply = data[a.mint].supply - spent
              \/ lamports'[Incinerator] = lamports[Incinerator] + lamports[k]

DebitsAreAuthorised ==
    [][\A k \in Key :
          IsLiveAccount(k) /\ AmountAfter(k) < data[k].amount
             => DebitIsAuthorised(k)]_vars

\* A delegate holds its allowance from the present owner: it appears or grows
\* only with the owner's consent, and a change of owner, or a new account at
\* the same address, starts without one.
DelegateIsOwners(k) ==
    /\ IsLiveAccount(k)
    /\ data'[k].owner = data[k].owner
    /\ \/ /\ data'[k].delegate = data[k].delegate
          /\ data'[k].delegated_amount <= data[k].delegated_amount
       \/ HasConsentOf(data[k].owner)

DelegationComesFromOwner ==
    [][\A k \in Key : StaysLive(k) /\ data'[k].delegate # None
          => DelegateIsOwners(k)]_vars

\* A close authority is appointed by whoever could close the account before, it
\* does not outlive the account, and that of a native account, who could take the
\* balance too, does not outlive the owner.
CloserIsAppointed(k) ==
    /\ IsLiveAccount(k)
    /\ IsNative(data'[k]) => data'[k].owner = data[k].owner
    /\ \/ data'[k].close_authority = data[k].close_authority
       \/ HasConsentOf(CloserOf(data[k]))

ClosersAreAppointed ==
    [][\A k \in Key : StaysLive(k) /\ data'[k].close_authority # None
          => CloserIsAppointed(k)]_vars

\* While an account is frozen its balance and its authorities stay as they
\* are, and only the freeze authority of its mint can end that.  (It can
\* still be closed once it is empty: see FrozenAccountsAreKept.)
FreezeHolds(k) ==
    \/ data'[k] = data[k]
    \/ /\ data'[k] = [data[k] EXCEPT !.state = "Initialized"]
       /\ HasConsentOf(data[data[k].mint].freeze_authority)
    \/ ~StaysLive(k) /\ data[k].amount = 0

FrozenAccountsHold ==
    [][\A k \in Key : IsLiveAccount(k) /\ IsFrozen(data[k])
          => FreezeHolds(k)]_vars

\* A mint whose minting authority was given up never issues again, and one
\* without a freeze authority never freezes or thaws an account, however
\* authorities are set, accounts closed and addresses used again.
StaysRenounced(m) ==
    /\ data[m].mint_authority = None =>
          /\ data'[m].mint_authority = None
          /\ data'[m].supply <= data[m].supply
    /\ data[m].freeze_authority = None =>
          /\ data'[m].freeze_authority = None
          /\ \A k \in Key :
                IsLiveAccount(k) /\ StaysLive(k) /\ data[k].mint = m
                   => data'[k].state = data[k].state

RenouncedAuthorityIsFinal ==
    [][\A m \in Key : IsLiveMint(m) => StaysRenounced(m)]_vars

\* Only the authority of the moment mints, and only it passes its power on.
ObeysItsAuthority(m) ==
    /\ ( \/ data'[m].supply > data[m].supply
         \/ data'[m].mint_authority # data[m].mint_authority )
          => HasConsentOf(data[m].mint_authority)
    /\ data'[m].freeze_authority # data[m].freeze_authority
          => HasConsentOf(data[m].freeze_authority)

MintsObeyTheirAuthority ==
    [][\A m \in Key : IsLiveMint(m) => ObeysItsAuthority(m)]_vars

\* What others have relied on never changes under them: a mint stays a mint
\* with its decimals, a multisig keeps its signers, and an account keeps its
\* mint until it is closed.
KeepsItsTerms(k) ==
    /\ IsLiveMint(k) => /\ owner'[k] = TokenProgram
                        /\ IsMint(data'[k])
                        /\ data'[k].decimals = data[k].decimals
    /\ IsLiveMultisig(k) => owner'[k] = owner[k] /\ data'[k] = data[k]
    /\ IsLiveAccount(k) => \/ /\ StaysLive(k)
                              /\ data'[k].mint = data[k].mint
                              /\ data'[k].is_native = data[k].is_native
                           \/ /\ IsWallet(k)'
                              /\ lamports'[k] = 0

TermsAreFixed == [][\A k \in Key : KeepsItsTerms(k)]_vars

\* Lamports leave an account of the token program only as wrapped SOL somebody
\* may spend, with its amount falling by as much, or all at once when the account
\* is closed: with its closer's consent, or, when nobody can sign for it, by
\* anybody, but into the incinerator.
PayingIsConsented(k) ==
    /\ IsLiveAccount(k)
    /\ \/ /\ StaysLive(k)
          /\ data[k].amount - data'[k].amount = lamports[k] - lamports'[k]
          /\ DebitIsAuthorised(k)
       \/ /\ IsWallet(k)'
          /\ lamports'[k] = 0
          /\ IF IsOwnedBySystemProgramOrIncinerator(data[k])
             THEN lamports'[Incinerator] = lamports[Incinerator] + lamports[k]
             ELSE HasConsentOf(CloserOf(data[k]))

LamportsLeaveByConsent ==
    [][\A k \in Key :
          owner[k] = TokenProgram /\ lamports'[k] < lamports[k]
             => PayingIsConsented(k)]_vars

-----------------------------------------------------------------------------
(* The token program implements the ledger.  Wrapped SOL is no part of it:  *)
(* its supply is the lamports behind it (WrappedLamportsBacked).            *)

supplyBar ==
    [k \in Key |-> IF IsLiveMint(k) THEN data[k].supply ELSE None]

mintOfBar ==
    [k \in Key |-> IF IsHolder(k) THEN data[k].mint ELSE None]

balanceBar ==
    [k \in Key |-> IF IsHolder(k) THEN data[k].amount ELSE 0]

Ledger == INSTANCE TokenLedger
             WITH supply <- supplyBar, mintOf <- mintOfBar,
                  balance <- balanceBar

\* Whatever sequence of instructions is run, the supplies and balances behave
\* as the abstract ledger says.
LedgerSpec == Ledger!Spec

-----------------------------------------------------------------------------
(* A statement of the documentation that the code does not keep.            *)

\* token/src/state.rs says of a frozen account that neither its owner nor its
\* delegate are able to perform operations on it, so it should still be there
\* after any step.
FrozenAccountsAreKept ==
    [][\A k \in Key : IsLiveAccount(k) /\ IsFrozen(data[k]) => StaysLive(k)]_vars

=============================================================================
