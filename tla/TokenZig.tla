------------------------------ MODULE TokenZig ------------------------------
(***************************************************************************)
(* The token program in Zig (token/zig/src/main.zig): six instructions of  *)
(* the Rust program, on the same accounts.  The others return InvalidState *)
(* (Approve, Freeze..., SetAuthority, SyncNative, the multisig), so that   *)
(* accounts have no delegate, are never frozen and keep their authorities. *)
(*                                                                         *)
(* The handlers write through pointers into the accounts, so a second      *)
(* write sees the first when two arguments are the same account.  They add *)
(* and subtract with plain + and -, which the ReleaseFast build does not   *)
(* check: the code it emits wraps around.  What a handler wrote before it  *)
(* returns an error the runtime takes back, and the checks that come after *)
(* a write are conjuncts like the others.                                  *)
(***************************************************************************)
EXTENDS Solana

CONSTANTS
    MintAuthorities,    \* addresses clients name in each role
    FreezeAuthorities,
    Owners,
    Refund,             \* addresses they send a closed account's lamports to
    Amount,             \* amounts they ask for
    StatedRent          \* what an account passed as the rent sysvar may say that
                        \*     a token account needs

ASSUME InputAssumption ==
    /\ (MintAuthorities \cup FreezeAuthorities \cup Owners \cup Refund)
          \subseteq Key
    /\ Amount \cup StatedRent \subseteq U64

\* The native mint is there before the program runs.
Init ==
    /\ lamports = GenesisLamports
    /\ owner = [k \in Key |->
                   IF k = NativeMint THEN TokenProgram ELSE SystemProgram]
    /\ data = [k \in Key |->
                   IF k = NativeMint
                   THEN [ZeroMint EXCEPT !.decimals = NativeDecimals,
                                         !.is_initialized = TRUE]
                   ELSE EmptyData]

-----------------------------------------------------------------------------
\* a +% b and a -% b
WrappingAdd(a, b) == (a + b) % (U64Max + 1)

WrappingSub(a, b) == (a - b) % (U64Max + 1)

OwnedByToken(k) == owner[k] = TokenProgram

\* Account.fromBytes refuses frozen accounts, for every instruction.
AccountFromBytes(d) == IsAccount(d) /\ ~IsFrozen(d)

MintFromBytes(d) == IsMint(d)

\* rent.isExempt, for the minimum the account passed as rent states.
IsExempt(k, minimum) == lamports[k] >= minimum

\* Mutant: a multisig is taken for a wallet.
ValidateOwnerWallet(expected, S) == expected \in S

\* validateOwner: the owner signs itself.  Multisigs are not supported, and
\* an address of the token program with the length of one never passes.
ValidateOwner(expected, S) ==
    /\ ~(data[expected].kind = "multisig" /\ OwnedByToken(expected))
    /\ expected \in S

\* Mutant: both accounts are read before either is written.
MovedThroughCopies(balances, from, to, n) ==
    [balances EXCEPT ![from] = WrappingSub(balances[from], n),
                     ![to] = WrappingAdd(balances[to], n)]

\* from.* -= n; to.* += n, where from and to may be the same.
Moved(balances, from, to, n) ==
    LET debited == [balances EXCEPT ![from] = WrappingSub(@, n)]
    IN  [debited EXCEPT ![to] = WrappingAdd(@, n)]

\* The handler changed the data of accounts to newData.
Write(newData) ==
    /\ data' = newData
    /\ UNCHANGED owner
    /\ RuntimeAccepts(TokenProgram)

-----------------------------------------------------------------------------
\* Writes four fields; the supply stays as it is found.  The rent account is
\* checked to be the sysvar.
InitializeMint(k, decimals, mintAuthority, freezeAuthority) ==
    /\ data[k].kind = "mint"
    /\ ~data[k].is_initialized
    /\ IsExempt(k, MinBalance["mint"])
    /\ UNCHANGED lamports
    /\ Write([data EXCEPT
          ![k].mint_authority = mintAuthority,
          ![k].decimals = decimals,
          ![k].is_initialized = TRUE,
          ![k].freeze_authority = freezeAuthority])

IsUnclaimed(d) == d.state = "Uninitialized"

\* Mutant: the reserve is counted as wrapped SOL.
WrappedWithReserve(k, stated) == lamports[k]

\* The lamports of a native account beyond the reserve.
Wrapped(k, stated) == lamports[k] - stated

\* Only what is not zero is written: delegate, delegated_amount and
\* close_authority stay as they are found, and so do amount and is_native
\* when the account is not native.  Whose account is passed as the rent sysvar
\* is not checked, so that the rent it states is an input: the account has to
\* hold as much, and a native one records it as its reserve.
InitializeAccount(k, mint, newOwner, stated) ==
    LET opened == [data[k] EXCEPT !.mint = mint, !.owner = newOwner,
                                  !.state = "Initialized"]
    IN  /\ data[k].kind = "account"
        /\ IsUnclaimed(data[k])
        /\ IsExempt(k, stated)
        /\ mint # NativeMint => OwnedByToken(mint) /\ MintFromBytes(data[mint])
        /\ UNCHANGED lamports
        /\ Write([data EXCEPT ![k] =
              IF mint = NativeMint
              THEN [opened EXCEPT !.is_native = stated,
                                  !.amount = Wrapped(k, stated)]
              ELSE opened])

\* Whether amounts moved is seen from the source after both writes, so that
\* one check covers a transfer of nothing and one to the source itself.
Transfer(S, src, dst, amount) ==
    LET balances == [k \in {src, dst} |-> data[k].amount]
        after == Moved(balances, src, dst, amount)
    IN  /\ AccountFromBytes(data[src])
        /\ AccountFromBytes(data[dst])
        /\ amount <= data[src].amount
        /\ data[src].mint = data[dst].mint
        /\ ValidateOwner(data[src].owner, S)
        /\ lamports' = IF IsNative(data[src])
                       THEN Moved(lamports, src, dst, amount) ELSE lamports
        /\ after[src] = data[src].amount =>
              OwnedByToken(src) /\ OwnedByToken(dst)
        /\ Write([data EXCEPT ![src].amount = after[src],
                              ![dst].amount = after[dst]])

\* @addWithOverflow: the only addition that is checked.
SupplyFits(mint, amount) == data[mint].supply + amount <= U64Max

MintTo(S, mint, dst, amount) ==
    /\ AccountFromBytes(data[dst])
    /\ ~IsNative(data[dst])
    /\ data[dst].mint = mint
    /\ MintFromBytes(data[mint])
    /\ data[mint].mint_authority # None
    /\ ValidateOwner(data[mint].mint_authority, S)
    /\ amount = 0 => OwnedByToken(mint) /\ OwnedByToken(dst)
    /\ SupplyFits(mint, amount)
    /\ UNCHANGED lamports
    /\ Write([data EXCEPT ![mint].supply = WrappingAdd(@, amount),
                          ![dst].amount = WrappingAdd(@, amount)])

\* What the incinerator owns cannot be burnt, unlike in Rust.
Burn(S, src, mint, amount) ==
    /\ AccountFromBytes(data[src])
    /\ ~IsNative(data[src])
    /\ MintFromBytes(data[mint])
    /\ data[src].mint = mint
    /\ amount <= data[src].amount
    /\ ValidateOwner(data[src].owner, S)
    /\ amount = 0 => OwnedByToken(mint) /\ OwnedByToken(src)
    /\ UNCHANGED lamports
    /\ Write([data EXCEPT ![src].amount = WrappingSub(@, amount),
                          ![mint].supply = WrappingSub(@, amount)])

Closer(a) == IF a.close_authority = None THEN a.owner ELSE a.close_authority

\* Mutant: the destination is looked at before it is credited.
WasNoSelfCloseEarly(dst) == lamports[dst] # 0

\* A destination left without lamports must have been the source.
WasNoSelfClose(dst) == lamports'[dst] # 0

CloseAccount(S, src, dst) ==
    /\ AccountFromBytes(data[src])
    /\ IsNative(data[src]) \/ data[src].amount = 0
    /\ ValidateOwner(Closer(data[src]), S)
    /\ LET paid == [lamports EXCEPT ![dst] = WrappingAdd(@, lamports[src])]
       IN  lamports' = [paid EXCEPT ![src] = 0]
    /\ owner' = [owner EXCEPT ![src] = SystemProgram]
    /\ data' = [data EXCEPT ![src] = EmptyData]
    /\ WasNoSelfClose(dst)
    /\ RuntimeAccepts(TokenProgram)

-----------------------------------------------------------------------------
MintAccounts == {k \in Key : data[k].kind = "mint"}

TokenAccounts == {k \in Key : data[k].kind = "account"}

ProcessInstruction(S) ==
    \/ \E k \in MintAccounts, decimals \in Decimals,
          mintAuthority \in MintAuthorities,
          freezeAuthority \in FreezeAuthorities \cup {None} :
          InitializeMint(k, decimals, mintAuthority, freezeAuthority)
    \/ \E k \in TokenAccounts, mint \in MintAccounts, newOwner \in Owners,
          stated \in StatedRent :
          InitializeAccount(k, mint, newOwner, stated)
    \/ \E src, dst \in TokenAccounts, amount \in Amount :
          Transfer(S, src, dst, amount)
    \/ \E mint \in MintAccounts, dst \in TokenAccounts, amount \in Amount :
          MintTo(S, mint, dst, amount)
    \/ \E src \in TokenAccounts, mint \in MintAccounts, amount \in Amount :
          Burn(S, src, mint, amount)
    \/ \E src \in TokenAccounts, dst \in Refund : CloseAccount(S, src, dst)

Next ==
    \/ Environment
    \/ \E S \in SUBSET Signer : ProcessInstruction(S)

Spec == Init /\ [][Next]_vars
=============================================================================
