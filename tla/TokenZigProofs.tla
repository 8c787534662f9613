--------------------------- MODULE TokenZigProofs ---------------------------
(***************************************************************************)
(* The Zig token program implements the Rust one, for every set of         *)
(* addresses and amounts, but for the rent of a new token account.         *)
(*                                                                         *)
(* The Zig program adds and subtracts without checks, and leaves fields as *)
(* they are where the Rust program writes them.  A step of the one is a    *)
(* step of the other only where no sum wraps around and those fields are   *)
(* as the Rust program would leave them.  The first follows from what is   *)
(* proved of the Rust program: its balances add up to their supply, its    *)
(* wrapped SOL is backed, and all lamports together are a u64.  The second *)
(* is AccountsArePlain, about the accounts six instructions can make.      *)
(* Since the Rust program keeps its invariant at every step of its own, it *)
(* need not be proved a second time for the Zig program.  An account that  *)
(* is opened at another rent than that of the chain is no step of the Rust *)
(* program; TokenProofs shows what it leaves of the invariant (OpensAt,    *)
(* ChainKept).                                                             *)
(***************************************************************************)
EXTENDS TokenZigProperties, TLAPS

-----------------------------------------------------------------------------
(* The theorems about the Rust program.                                    *)

\* The Zig program has no delegates: the Rust program it is compared with is
\* the one whose clients approve nothing and hand no account over to a closer.
RustFacts == INSTANCE TokenProofs
                WITH CloseAuthorities <- {}, Delegates <- {}, Allowance <- {}

\* The constants satisfy what those theorems assume.
LEMMA RustConstants ==
    /\ U64Max \in Nat
    /\ RustFacts!IsFiniteSet(Key)
    /\ {SystemProgram, Incinerator, NativeMint} \subseteq Key
    /\ None \notin Key
    /\ None \notin Nat
    /\ Decimals \subseteq Nat
    /\ NativeDecimals \in Decimals
    /\ MaxSigners \in Nat \ {0}
    /\ SystemProgram # Incinerator
    /\ NativeMint \notin {SystemProgram, Incinerator}
    /\ TokenProgram \notin {SystemProgram, OtherProgram}
    /\ SystemProgram # OtherProgram
    /\ (Signer \cup MintKey \cup AccountKey \cup MultisigKey \cup ForeignKey)
          \subseteq Key
    /\ ForeignData \subseteq RustFacts!Data
    /\ MinBalance \in [{"mint", "account", "multisig"} -> RustFacts!U64]
    /\ GenesisLamports \in [Key -> RustFacts!U64]
    /\ FundAmount \subseteq RustFacts!U64
    /\ GiftAmount \subseteq RustFacts!U64
    /\ {SystemProgram, Incinerator} \cap Signer = {}
    /\ RustFacts!Total(GenesisLamports) <= U64Max
    /\ MinBalance["mint"] <= GenesisLamports[NativeMint]
    /\ (MintAuthorities \cup FreezeAuthorities \cup Owners
          \cup {} \cup {} \cup Refund) \subseteq Key
    /\ Amount \cup {} \subseteq RustFacts!U64
<1>1. U64 = RustFacts!U64
  BY DEF U64, RustFacts!U64
<1>2. Data = RustFacts!Data
  BY DEF U64, RustFacts!U64, Data, RustFacts!Data, EmptyData, RustFacts!EmptyData,
     MintData, RustFacts!MintData, AccountData, RustFacts!AccountData,
     MultisigData, RustFacts!MultisigData, OptionalKey, RustFacts!OptionalKey,
     AccountState, RustFacts!AccountState
<1>3. RustFacts!Total(GenesisLamports) = Total(GenesisLamports)
  <2>1. RustFacts!Units(GenesisLamports) = Units(GenesisLamports)
    BY DEF RustFacts!Units, Units
  <2>2. RustFacts!Cardinality(Units(GenesisLamports))
           = Cardinality(Units(GenesisLamports))
    BY DEF RustFacts!Cardinality, Cardinality
  <2> QED
    BY <2>1, <2>2 DEF RustFacts!Total, Total
<1>4. RustFacts!IsFiniteSet(Key)
  BY KeyAssumption DEF RustFacts!IsFiniteSet, IsFiniteSet
<1> QED
  BY <1>1, <1>2, <1>3, <1>4, U64Assumption, KeyAssumption, SizeAssumption,
     DistinctKeys, ProgramAssumption, ClientAssumption, UnsignableAssumption,
     LamportsAssumption, InputAssumption

\* The Rust program keeps its invariant, at whatever rent accounts are opened.
LEMMA RustChainKept ==
    ASSUME RustFacts!ChainInv, [RustFacts!AnyRentNext]_(RustFacts!vars)
    PROVE  RustFacts!ChainInv'
BY RustConstants, RustFacts!ChainKept

\* Two instances of the same module: the one the refinement is stated with, and
\* the one the theorems are about.  Their definitions read the same.
LEMMA RustStep ==
    [Rust!Next]_(Rust!vars) => [RustFacts!Next]_(RustFacts!vars)
BY Zenon DEF
   Rust!Cardinality, RustFacts!Cardinality, Rust!Next, Rust!vars, Rust!Environment, Rust!Permissionless,
   Rust!SignedBy, Rust!SystemTransfer, Rust!Layouts, Rust!CreateAccount,
   Rust!EmptyData, Rust!OtherProgramWrites, Rust!OtherProgramAssigns,
   Rust!MintAccounts, Rust!InitializeMint, Rust!TokenAccounts,
   Rust!InitializeAccount, Rust!MultisigAccounts, Rust!SignerLists,
   Rust!InitializeMultisig, Rust!SyncNative, Rust!Expected, Rust!Transfer,
   Rust!Approve, Rust!Revoke, Rust!SetAuthority, Rust!MintTo, Rust!Burn,
   Rust!CloseAccount, Rust!ToggleFreezeAccount, Rust!IsWallet, Rust!Pay,
   Rust!ZeroMint, Rust!ZeroAccount, Rust!ZeroMultisig, Rust!AlreadyInUse,
   Rust!IsRentExempt, Rust!Pack, Rust!IsValidMint, Rust!IsValidSignerIndex,
   Rust!CheckAccountOwner, Rust!IsAccount, Rust!IsNative, Rust!Wrapped,
   Rust!IsFrozen, Rust!DecimalsMatch, Rust!MaySpend, Rust!IsSelfTransfer,
   Rust!CheckedAddFits, Rust!ReduceAllowance, Rust!RuntimeAccepts,
   Rust!ValidateOwner, Rust!SetAccountOwner, Rust!SetCloseAuthority,
   Rust!SetMintAuthority, Rust!SetFreezeAuthority, Rust!IsMint,
   Rust!IsOwnedBySystemProgramOrIncinerator, Rust!IsClosableInto,
   Rust!IsClosable, Rust!MayReceiveAbandoned, Rust!Closer,
   Rust!DeleteAccount, Rust!IsMultisig, Rust!Zeroed, Rust!HandOver,
   Rust!FreezeSetter, RustFacts!Next, RustFacts!vars, RustFacts!Environment,
   RustFacts!Permissionless, RustFacts!SignedBy, RustFacts!SystemTransfer,
   RustFacts!Layouts, RustFacts!CreateAccount, RustFacts!EmptyData,
   RustFacts!OtherProgramWrites, RustFacts!OtherProgramAssigns,
   RustFacts!MintAccounts, RustFacts!InitializeMint, RustFacts!TokenAccounts,
   RustFacts!InitializeAccount, RustFacts!MultisigAccounts,
   RustFacts!SignerLists, RustFacts!InitializeMultisig, RustFacts!SyncNative,
   RustFacts!Expected, RustFacts!Transfer, RustFacts!Approve,
   RustFacts!Revoke, RustFacts!SetAuthority, RustFacts!MintTo,
   RustFacts!Burn, RustFacts!CloseAccount, RustFacts!ToggleFreezeAccount,
   RustFacts!IsWallet, RustFacts!Pay, RustFacts!ZeroMint,
   RustFacts!ZeroAccount, RustFacts!ZeroMultisig, RustFacts!AlreadyInUse,
   RustFacts!IsRentExempt, RustFacts!Pack, RustFacts!IsValidMint,
   RustFacts!IsValidSignerIndex, RustFacts!CheckAccountOwner,
   RustFacts!IsAccount, RustFacts!IsNative, RustFacts!Wrapped,
   RustFacts!IsFrozen, RustFacts!DecimalsMatch, RustFacts!MaySpend,
   RustFacts!IsSelfTransfer, RustFacts!CheckedAddFits,
   RustFacts!ReduceAllowance, RustFacts!RuntimeAccepts,
   RustFacts!ValidateOwner, RustFacts!SetAccountOwner,
   RustFacts!SetCloseAuthority, RustFacts!SetMintAuthority,
   RustFacts!SetFreezeAuthority, RustFacts!IsMint,
   RustFacts!IsOwnedBySystemProgramOrIncinerator, RustFacts!IsClosableInto,
   RustFacts!IsClosable, RustFacts!MayReceiveAbandoned, RustFacts!Closer,
   RustFacts!DeleteAccount, RustFacts!IsMultisig, RustFacts!Zeroed,
   RustFacts!HandOver, RustFacts!FreezeSetter

-----------------------------------------------------------------------------
(* Arithmetic that does not wrap around.                                   *)

LEMMA ModuloOfSmall ==
    ASSUME NEW m \in Nat \ {0}, NEW x \in Nat
    PROVE  /\ x < m => x % m = x
           /\ m <= x /\ x < 2 * m => x % m = x - m
OBVIOUS

LEMMA WrappingIsExact ==
    ASSUME NEW a \in U64, NEW n \in U64
    PROVE  /\ WrappingAdd(a, n) \in U64
           /\ a + n <= U64Max => WrappingAdd(a, n) = a + n
           /\ n <= a => WrappingSub(a, n) = a - n
           /\ n # 0 => WrappingAdd(a, n) # a
<1>1. U64Max + 1 \in Nat \ {0}
  BY U64Assumption
<1>2. a \in Nat /\ n \in Nat /\ a <= U64Max /\ n <= U64Max
  BY U64Assumption DEF U64
<1>3. n <= a => WrappingSub(a, n) = a - n
  <2>1. n <= a => a - n \in Nat /\ a - n < U64Max + 1
    BY <1>2, U64Assumption
  <2> QED
    BY <1>1, <2>1, ModuloOfSmall DEF WrappingSub
<1>4. a + n <= U64Max => WrappingAdd(a, n) = a + n
  <2>1. a + n \in Nat /\ (a + n <= U64Max => a + n < U64Max + 1)
    BY <1>2, U64Assumption
  <2> QED
    BY <1>1, <2>1, ModuloOfSmall DEF WrappingAdd
<1>5. ASSUME a + n > U64Max
      PROVE  WrappingAdd(a, n) = (a + n) - (U64Max + 1)
  <2> DEFINE m == U64Max + 1
             x == a + n
  <2>1. m \in Nat \ {0} /\ x \in Nat /\ m <= x /\ x < 2 * m
    BY <1>2, <1>5, U64Assumption
  <2>2. WrappingAdd(a, n) = x % m
    BY DEF WrappingAdd
  <2> HIDE DEF m, x
  <2>3. x % m = x - m
    BY <2>1, ModuloOfSmall
  <2>4. WrappingAdd(a, n) = x - m
    BY <2>2, <2>3
  <2> QED
    BY <2>4 DEF m, x
<1> QED
  BY <1>2, <1>3, <1>4, <1>5, U64Assumption DEF U64

-----------------------------------------------------------------------------
(* The invariant of the Zig program.                                       *)

LiveMint(k) == owner[k] = TokenProgram /\ IsMint(data[k])

LiveAccount(k) == owner[k] = TokenProgram /\ IsAccount(data[k])

IsPlain(a) ==
    /\ a.delegate = None
    /\ a.close_authority = None
    /\ a.state = "Initialized"
    /\ a.owner \in Owners

\* Nothing the program does gives an account a delegate or a close authority,
\* or freezes it.
AccountsArePlain == \A k \in Key : LiveAccount(k) => IsPlain(data[k])

ZigInv == RustFacts!ChainInv /\ AccountsArePlain

\* What is used of the invariant of the Rust program.
LEMMA ChainFacts ==
    ASSUME RustFacts!ChainInv
    PROVE  /\ lamports \in [Key -> U64]
           /\ owner \in [Key -> Program]
           /\ data \in [Key -> Data]
           /\ \A k \in Key : owner[k] = TokenProgram =>
                 IsMint(data[k]) \/ IsAccount(data[k]) \/ IsMultisig(data[k])
                    \/ data[k] \in Zeroed
           /\ \A k \in Key : LiveAccount(k) =>
                 IF IsNative(data[k])
                 THEN /\ data[k].mint = NativeMint
                      /\ data[k].amount <= lamports[k]
                 ELSE /\ data[k].mint # NativeMint
                      /\ LiveMint(data[k].mint)
                      /\ data[k].amount <= data[data[k].mint].supply
           /\ \A j, k \in Key :
                 LiveAccount(j) /\ LiveAccount(k) /\ data[j].mint = data[k].mint
                    /\ j # k => data[j].amount + data[k].amount <= U64Max
           /\ \A j, k \in Key : j # k => lamports[j] + lamports[k] <= U64Max
<1> USE DEF RustFacts!ChainInv, RustFacts!TokenInv, RustFacts!U64, U64
<1>1. /\ lamports \in [Key -> U64]
      /\ owner \in [Key -> Program]
      /\ data \in [Key -> Data]
  BY DEF RustFacts!TypeOK, RustFacts!Program, Program, Data, RustFacts!Data,
         EmptyData, RustFacts!EmptyData, MintData, RustFacts!MintData,
         AccountData, RustFacts!AccountData, MultisigData,
         RustFacts!MultisigData, OptionalKey, RustFacts!OptionalKey,
         AccountState, RustFacts!AccountState
<1>2. \A k \in Key : owner[k] = TokenProgram =>
         IsMint(data[k]) \/ IsAccount(data[k]) \/ IsMultisig(data[k])
            \/ data[k] \in Zeroed
  BY DEF RustFacts!UnclaimedDataIsZero, IsMint, RustFacts!IsMint,
         IsAccount, RustFacts!IsAccount, IsMultisig, RustFacts!IsMultisig,
         Zeroed, RustFacts!Zeroed, EmptyData, RustFacts!EmptyData,
         ZeroMint, RustFacts!ZeroMint, ZeroAccount, RustFacts!ZeroAccount,
         ZeroMultisig, RustFacts!ZeroMultisig
<1>3. \A k \in Key : /\ RustFacts!IsLiveAccount(k) <=> LiveAccount(k)
                     /\ RustFacts!IsNative(data[k]) <=> IsNative(data[k])
  BY DEF RustFacts!IsLiveAccount, LiveAccount, RustFacts!IsAccount, IsAccount,
         RustFacts!IsNative, IsNative
<1>4. \A j, k \in Key : j # k => lamports[j] + lamports[k] <= U64Max
  BY RustConstants, RustFacts!LamportsFit
<1>5. RustFacts!BalancesFit
  BY RustConstants, RustFacts!ChainBalancesFit
<1>6. \A j, k \in Key :
         LiveAccount(j) /\ LiveAccount(k) /\ data[j].mint = data[k].mint
            /\ j # k => data[j].amount + data[k].amount <= U64Max
  BY <1>3, <1>5 DEF RustFacts!BalancesFit
<1>7. ASSUME NEW k \in Key, LiveAccount(k)
      PROVE  IF IsNative(data[k])
             THEN /\ data[k].mint = NativeMint
                  /\ data[k].amount <= lamports[k]
             ELSE /\ data[k].mint # NativeMint
                  /\ LiveMint(data[k].mint)
                  /\ data[k].amount <= data[data[k].mint].supply
  <2>1. CASE IsNative(data[k])
    <3>1. /\ data[k].mint = NativeMint
          /\ data[k].is_native + data[k].amount <= lamports[k]
      BY <1>3, <1>7, <2>1
         DEF RustFacts!AccountsNameMints, RustFacts!MoneyInv,
             RustFacts!WrappedLamportsBacked
    <3>2. data[k] \in AccountData
      BY <1>1, <1>7
         DEF LiveAccount, IsAccount, Data, EmptyData, MintData, MultisigData
    <3>3. /\ data[k].is_native \in Nat /\ data[k].amount \in Nat
          /\ lamports[k] \in Nat
      BY <1>1, <2>1, <3>2, U64Assumption DEF AccountData, IsNative
    <3> QED
      BY <2>1, <3>1, <3>3
  <2>2. CASE ~IsNative(data[k])
    <3>1. data[k].mint # NativeMint /\ RustFacts!IsLiveMint(data[k].mint)
      BY <1>3, <1>7, <2>2 DEF RustFacts!AccountsNameMints
    <3>2. data[k].amount <= data[data[k].mint].supply
      BY <1>3, <1>5, <1>7, <2>2 DEF RustFacts!BalancesFit
    <3> QED
      BY <2>2, <3>1, <3>2
         DEF RustFacts!IsLiveMint, RustFacts!IsMint, LiveMint, IsMint
  <2> QED
    BY <2>1, <2>2
<1> QED
  BY <1>1, <1>2, <1>4, <1>6, <1>7

LEMMA DataOfKind ==
    ASSUME NEW d \in Data
    PROVE  /\ d.kind = "account" => d \in AccountData
           /\ d.kind = "mint" => d \in MintData
BY DEF Data, EmptyData, MintData, AccountData, MultisigData

\* An account that a step changes has to come out plain.
LEMMA PlainKept ==
    ASSUME AccountsArePlain,
           \A k \in Key : LiveAccount(k)' =>
              \/ LiveAccount(k) /\ data'[k] = data[k]
              \/ IsPlain(data'[k])
    PROVE  AccountsArePlain'
BY DEF AccountsArePlain, LiveAccount, IsPlain

-----------------------------------------------------------------------------
(* What the two programs ask alike.                                        *)

LEMMA RustAccepts ==
    ASSUME RuntimeAccepts(TokenProgram)
    PROVE  Rust!RuntimeAccepts(TokenProgram)
BY DEF RuntimeAccepts, Rust!RuntimeAccepts, Zeroed, Rust!Zeroed, EmptyData,
       Rust!EmptyData, ZeroMint, Rust!ZeroMint, ZeroAccount, Rust!ZeroAccount,
       ZeroMultisig, Rust!ZeroMultisig

\* Whom the Zig program lets sign, the Rust program does.
LEMMA RustValidatesOwner ==
    ASSUME NEW expected, NEW S, ValidateOwner(expected, S)
    PROVE  Rust!ValidateOwner(expected, S)
BY DEF ValidateOwner, OwnedByToken, Rust!ValidateOwner

\* The owner of a plain account may spend it, and leaves no allowance behind.
LEMMA RustMaySpend ==
    ASSUME AccountsArePlain, NEW k \in Key, LiveAccount(k), NEW S, NEW amount,
           ValidateOwner(data[k].owner, S)
    PROVE  /\ data[k].owner \in Owners
           /\ Rust!MaySpend(data[k], data[k].owner, amount, S)
           /\ Rust!ReduceAllowance(data[k], data[k].owner, amount) = data[k]
<1>1. data[k].delegate = None /\ data[k].owner \in Owners
  BY DEF AccountsArePlain, IsPlain
<1>2. data[k].owner # None
  BY <1>1, KeyAssumption, InputAssumption
<1> QED
  BY <1>1, <1>2, RustValidatesOwner DEF Rust!MaySpend, Rust!ReduceAllowance

-----------------------------------------------------------------------------
(* The instructions.                                                       *)

LEMMA TransferIsRust ==
    ASSUME ZigInv, NEW S, NEW src \in Key, NEW dst \in Key, NEW amount \in U64,
           Transfer(S, src, dst, amount)
    PROVE  /\ Rust!Transfer(S, src, dst, data[src].owner, amount, None)
           /\ data[src].owner \in Owners
           /\ AccountsArePlain'
<1> DEFINE a == data[src]
           b == data[dst]
           balances == [k \in {src, dst} |-> data[k].amount]
           after == Moved(balances, src, dst, amount)
<1>1. /\ IsAccount(a) /\ ~IsFrozen(a) /\ IsAccount(b) /\ ~IsFrozen(b)
      /\ amount <= a.amount
      /\ a.mint = b.mint
      /\ ValidateOwner(a.owner, S)
      /\ lamports' = IF IsNative(a)
                     THEN Moved(lamports, src, dst, amount) ELSE lamports
      /\ after[src] = a.amount => owner[src] = TokenProgram
                                     /\ owner[dst] = TokenProgram
      /\ data' = [data EXCEPT ![src].amount = after[src],
                              ![dst].amount = after[dst]]
      /\ owner' = owner
      /\ RuntimeAccepts(TokenProgram)
  BY DEF Transfer, AccountFromBytes, OwnedByToken, Write
<1>2. /\ lamports \in [Key -> U64] /\ owner \in [Key -> Program]
      /\ data \in [Key -> Data]
      /\ AccountsArePlain
  BY ChainFacts DEF ZigInv
<1>3. a \in AccountData /\ b \in AccountData
  BY <1>1, <1>2, DataOfKind DEF IsAccount
<1>4. /\ a.amount \in U64 /\ b.amount \in U64
      /\ lamports[src] \in U64 /\ lamports[dst] \in U64
      /\ amount \in Nat /\ a.amount \in Nat /\ b.amount \in Nat
      /\ a.amount - amount \in U64 /\ (a.amount - amount) + amount = a.amount
  BY <1>1, <1>2, <1>3, U64Assumption DEF AccountData, U64
<1>5. WrappingSub(a.amount, amount) = a.amount - amount
  BY <1>1, <1>4, WrappingIsExact
<1>6. CASE src = dst
  <2>1. after[src] = a.amount
    <3>1. after[src] = WrappingAdd(WrappingSub(a.amount, amount), amount)
      BY <1>6 DEF Moved
    <3>2. (a.amount - amount) + amount <= U64Max
      BY <1>4, U64Assumption DEF U64
    <3> QED
      BY <1>4, <1>5, <3>1, <3>2, WrappingIsExact
  <2>2. LiveAccount(src)
    BY <1>1, <2>1 DEF LiveAccount
  <2>3. data' = data
    BY <1>1, <1>2, <1>3, <1>6, <2>1 DEF AccountData
  <2>4. lamports' = lamports
    <3> DEFINE n == lamports[src]
    <3>1. CASE IsNative(a)
      <4>1. amount <= n /\ n \in U64
        <5>1. a.amount <= n
          BY <2>2, <3>1, ChainFacts DEF ZigInv
        <5> QED
          BY <1>1, <1>4, <5>1, U64Assumption DEF U64
      <4>2. /\ n - amount \in U64 /\ (n - amount) + amount = n
            /\ (n - amount) + amount <= U64Max
        BY <1>4, <4>1, U64Assumption DEF U64
      <4>3. WrappingAdd(WrappingSub(n, amount), amount) = n
        BY <4>1, <4>2, WrappingIsExact
      <4> QED
        BY <1>1, <1>2, <1>6, <3>1, <4>3 DEF Moved
    <3> QED
      BY <1>1, <3>1
  <2>5. Rust!Transfer(S, src, dst, a.owner, amount, None)
    BY <1>1, <1>2, <1>6, <2>2, <2>3, <2>4, RustMaySpend
       DEF Rust!Transfer, Rust!IsAccount, Rust!IsFrozen, Rust!DecimalsMatch,
           Rust!IsSelfTransfer, Rust!CheckAccountOwner, Rust!vars,
           IsAccount, IsFrozen, LiveAccount
  <2> QED
    BY <1>1, <1>2, <2>2, <2>3, <2>5, RustMaySpend, PlainKept DEF LiveAccount
<1>7. CASE src # dst
  <2> DEFINE d == [a EXCEPT !.amount = a.amount - amount]
             e == [b EXCEPT !.amount = b.amount + amount]
  <2>1. after[src] = a.amount - amount /\ after[dst] = WrappingAdd(b.amount, amount)
    BY <1>5, <1>7 DEF Moved
  <2>2. LiveAccount(src) /\ LiveAccount(dst)
    <3>1. CASE amount = 0
      BY <1>1, <1>4, <2>1, <3>1 DEF LiveAccount
    <3>2. CASE amount # 0
      <4>1. /\ data'[src].amount = a.amount - amount
            /\ data'[dst].amount = WrappingAdd(b.amount, amount)
        BY <1>1, <1>2, <1>3, <1>7, <2>1 DEF AccountData
      <4>2. a.amount - amount # a.amount /\ WrappingAdd(b.amount, amount) # b.amount
        BY <1>4, <3>2, WrappingIsExact
      <4> QED
        BY <1>1, <4>1, <4>2 DEF RuntimeAccepts, LiveAccount
    <3> QED
      BY <3>1, <3>2
  <2>3. b.amount + amount <= U64Max
    <3>1. a.amount + b.amount <= U64Max
      BY <1>1, <1>7, <2>2, ChainFacts DEF ZigInv
    <3> QED
      BY <1>1, <1>4, <3>1, U64Assumption
  <2>4. data' = [data EXCEPT ![src] = d, ![dst] = e]
    <3>1. WrappingAdd(b.amount, amount) = b.amount + amount
      BY <1>4, <2>3, WrappingIsExact
    <3> QED
      BY <1>1, <1>2, <1>7, <2>1, <3>1
  <2>5. IsNative(a) => Rust!Pay(src, dst, amount)
    <3> SUFFICES ASSUME IsNative(a) PROVE Rust!Pay(src, dst, amount)
      OBVIOUS
    <3>1. amount <= lamports[src]
      <4>1. a.amount <= lamports[src]
        BY <2>2, ChainFacts DEF ZigInv
      <4> QED
        BY <1>1, <1>4, <4>1, U64Assumption DEF U64
    <3>2. lamports[dst] + amount <= U64Max
      <4>1. lamports[src] + lamports[dst] <= U64Max
        BY <1>7, ChainFacts DEF ZigInv
      <4> QED
        BY <1>4, <3>1, <4>1, U64Assumption DEF U64
    <3>3. /\ WrappingSub(lamports[src], amount) = lamports[src] - amount
          /\ WrappingAdd(lamports[dst], amount) = lamports[dst] + amount
      BY <1>4, <3>1, <3>2, WrappingIsExact
    <3>4. lamports' = [lamports EXCEPT ![src] = lamports[src] - amount,
                                       ![dst] = lamports[dst] + amount]
      BY <1>1, <1>2, <1>7, <3>3 DEF Moved
    <3> QED
      BY <1>7, <3>1, <3>2, <3>4 DEF Rust!Pay
  <2>6. /\ a.owner \in Owners
        /\ Rust!MaySpend(a, a.owner, amount, S)
        /\ Rust!ReduceAllowance(a, a.owner, amount) = a
    BY <1>1, <1>2, <2>2, RustMaySpend
  <2>7. Rust!RuntimeAccepts(TokenProgram)
    BY <1>1, RustAccepts
  <2>8. Rust!Transfer(S, src, dst, a.owner, amount, None)
    BY <1>1, <1>7, <2>2, <2>3, <2>4, <2>5, <2>6, <2>7
       DEF Rust!Transfer, Rust!IsAccount, Rust!IsFrozen, Rust!IsNative,
           Rust!DecimalsMatch, Rust!IsSelfTransfer, Rust!CheckAccountOwner,
           Rust!CheckedAddFits, IsAccount, IsFrozen, IsNative, LiveAccount
  <2>9. IsPlain(d) /\ IsPlain(e)
    BY <1>2, <1>3, <2>2 DEF AccountsArePlain, IsPlain, AccountData
  <2>10. AccountsArePlain'
    <3>1. \A k \in Key : data'[k] \in {d, e} \/ data'[k] = data[k]
      BY <1>2, <2>4
    <3> HIDE DEF d, e
    <3> QED
      BY <1>1, <1>2, <2>9, <3>1, PlainKept DEF LiveAccount
  <2> QED
    BY <2>6, <2>8, <2>10
<1> QED
  BY <1>6, <1>7

LEMMA InitializeMintIsRust ==
    ASSUME ZigInv, NEW k \in Key, NEW decimals, NEW mintAuthority,
           NEW freezeAuthority,
           InitializeMint(k, decimals, mintAuthority, freezeAuthority)
    PROVE  /\ Rust!InitializeMint(k, decimals, mintAuthority, freezeAuthority)
           /\ AccountsArePlain'
<1> DEFINE d == [data[k] EXCEPT !.mint_authority = mintAuthority,
                                !.decimals = decimals,
                                !.is_initialized = TRUE,
                                !.freeze_authority = freezeAuthority]
<1>1. data \in [Key -> Data] /\ AccountsArePlain
  BY ChainFacts DEF ZigInv
<1>2. /\ data[k].kind = "mint" /\ ~data[k].is_initialized /\ IsExempt(k, MinBalance["mint"])
      /\ lamports' = lamports /\ owner' = owner
      /\ data' = [data EXCEPT ![k].mint_authority = mintAuthority,
                              ![k].decimals = decimals,
                              ![k].is_initialized = TRUE,
                              ![k].freeze_authority = freezeAuthority]
      /\ RuntimeAccepts(TokenProgram)
  BY DEF InitializeMint, Write
<1>3. data' = [data EXCEPT ![k] = d]
  BY <1>1, <1>2
<1>4. d.kind = "mint"
  BY <1>1, <1>2, DataOfKind DEF MintData
<1>5. Rust!InitializeMint(k, decimals, mintAuthority, freezeAuthority)
  BY <1>2, <1>3, RustAccepts
     DEF Rust!InitializeMint, Rust!AlreadyInUse, Rust!IsMint, Rust!IsAccount,
         Rust!IsMultisig, Rust!IsRentExempt, IsExempt, Rust!Pack
<1>6. AccountsArePlain'
  <2> HIDE DEF d
  <2> QED
    BY <1>1, <1>2, <1>3, <1>4, PlainKept DEF LiveAccount, IsAccount
<1> QED
  BY <1>5, <1>6

\* Unclaimed data is zero, so that what the Zig program leaves as it finds is
\* what the Rust program writes there.
LEMMA InitializeAccountIsRust ==
    ASSUME ZigInv, NEW k \in Key, NEW mint \in Key, NEW newOwner \in Owners,
           NEW stated \in StatedRent, InitializeAccount(k, mint, newOwner, stated)
    PROVE  /\ RustAt(stated)!InitializeAccount(k, mint, newOwner)
           /\ RustFacts!OpensAt(k, mint, newOwner, stated)
           /\ AccountsArePlain'
<1> DEFINE opened == [data[k] EXCEPT !.mint = mint, !.owner = newOwner,
                                     !.state = "Initialized"]
           d == IF mint = NativeMint
                THEN [opened EXCEPT !.is_native = stated,
                                    !.amount = Wrapped(k, stated)]
                ELSE opened
           fresh == [kind |-> "account", mint |-> mint, owner |-> newOwner,
                     amount |-> IF mint = NativeMint
                                THEN lamports[k] - stated ELSE 0,
                     delegate |-> None, state |-> "Initialized",
                     is_native |-> IF mint = NativeMint
                                   THEN stated ELSE None,
                     delegated_amount |-> 0, close_authority |-> None]
<1>1. data \in [Key -> Data] /\ AccountsArePlain
  BY ChainFacts DEF ZigInv
<1>2. /\ data[k].kind = "account" /\ data[k].state = "Uninitialized"
      /\ IsExempt(k, stated)
      /\ mint # NativeMint => owner[mint] = TokenProgram /\ IsMint(data[mint])
      /\ lamports' = lamports /\ owner' = owner
      /\ data' = [data EXCEPT ![k] = d]
      /\ RuntimeAccepts(TokenProgram)
  BY DEF InitializeAccount, IsUnclaimed, OwnedByToken, MintFromBytes, Write
<1>3. data[k] = ZeroAccount
  <2>1. data[k] \in AccountData
    BY <1>1, <1>2, DataOfKind
  <2>2. d.state = "Initialized"
    BY <2>1 DEF AccountData
  <2>3. owner[k] = TokenProgram
    <3> HIDE DEF d
    <3>1. data'[k] # data[k]
      BY <1>1, <1>2, <2>2
    <3> QED
      BY <1>2, <3>1 DEF RuntimeAccepts
  <2>4. data[k] \in Zeroed
    BY <1>2, <2>3, ChainFacts DEF ZigInv, IsMint, IsAccount, IsMultisig
  <2> QED
    BY <1>2, <2>4 DEF Zeroed, EmptyData, ZeroMint, ZeroAccount, ZeroMultisig
<1>4. d = fresh
  <2>1. ASSUME NEW r,
               r = [ZeroAccount EXCEPT !.mint = mint, !.owner = newOwner,
                                       !.state = "Initialized"]
        PROVE  r = [kind |-> "account", mint |-> mint, owner |-> newOwner,
                    amount |-> 0, delegate |-> None, state |-> "Initialized",
                    is_native |-> None, delegated_amount |-> 0,
                    close_authority |-> None]
    BY <2>1 DEF ZeroAccount
  <2>2. ASSUME NEW r, NEW q, mint = NativeMint,
               r = [ZeroAccount EXCEPT !.mint = mint, !.owner = newOwner,
                                       !.state = "Initialized"],
               q = [r EXCEPT !.is_native = stated,
                             !.amount = Wrapped(k, stated)]
        PROVE  q = fresh
    BY <2>2 DEF ZeroAccount, Wrapped
  <2>3. CASE mint = NativeMint
    BY <1>3, <2>2, <2>3, Zenon
  <2>4. CASE mint # NativeMint
    BY <1>3, <2>1, <2>4
  <2> QED
    BY <2>3, <2>4
<1>5. data' = [data EXCEPT ![k] = fresh]
  BY <1>2, <1>4
<1>6. lamports[k] >= stated
  BY <1>2 DEF IsExempt
<1>7. RustFacts!OpensAt(k, mint, newOwner, stated)
  <2> HIDE DEF d
  <2>1. RustFacts!RuntimeAccepts(TokenProgram)
    BY <1>2 DEF RuntimeAccepts, RustFacts!RuntimeAccepts, Zeroed,
           RustFacts!Zeroed, EmptyData, RustFacts!EmptyData, ZeroMint,
           RustFacts!ZeroMint, ZeroAccount, RustFacts!ZeroAccount,
           ZeroMultisig, RustFacts!ZeroMultisig
  <2> QED
    BY <1>2, <1>5, <1>6, <2>1
       DEF RustFacts!OpensAt, RustFacts!AlreadyInUse, RustFacts!IsMint,
           RustFacts!IsAccount, RustFacts!IsMultisig, RustFacts!IsValidMint,
           RustFacts!CheckAccountOwner, RustFacts!Pack, IsMint
<1>8. RustAt(stated)!InitializeAccount(k, mint, newOwner)
  <2> HIDE DEF d
  <2>1. RustAt(stated)!RuntimeAccepts(TokenProgram)
    BY <1>2 DEF RuntimeAccepts, RustAt!RuntimeAccepts, Zeroed,
           RustAt!Zeroed, EmptyData, RustAt!EmptyData, ZeroMint,
           RustAt!ZeroMint, ZeroAccount, RustAt!ZeroAccount,
           ZeroMultisig, RustAt!ZeroMultisig
  <2>2. [MinBalance EXCEPT !["account"] = stated]["account"] = stated
    BY ClientAssumption
  <2> QED
    BY <1>2, <1>5, <1>6, <2>1, <2>2
       DEF RustAt!InitializeAccount, RustAt!AlreadyInUse, RustAt!IsMint,
           RustAt!IsAccount, RustAt!IsMultisig, RustAt!IsRentExempt,
           RustAt!IsValidMint, RustAt!CheckAccountOwner, RustAt!Pack, IsMint
<1>9. AccountsArePlain'
  <2>1. IsPlain(d)
    BY <1>4 DEF IsPlain
  <2> HIDE DEF d
  <2> QED
    BY <1>1, <1>2, <2>1, PlainKept DEF LiveAccount
<1> QED
  BY <1>7, <1>8, <1>9

\* What a holder has fits in the supply, so that the one checked addition
\* covers both.
LEMMA MintToIsRust ==
    ASSUME ZigInv, NEW S, NEW mint \in Key, NEW dst \in Key, NEW amount \in U64,
           MintTo(S, mint, dst, amount)
    PROVE  /\ Rust!MintTo(S, mint, dst, amount, None)
           /\ AccountsArePlain'
<1> DEFINE a == data[dst]
           m == data[mint]
           d == [a EXCEPT !.amount = a.amount + amount]
           p == [m EXCEPT !.supply = m.supply + amount]
<1>1. data \in [Key -> Data] /\ AccountsArePlain
  BY ChainFacts DEF ZigInv
<1>2. /\ IsAccount(a) /\ ~IsFrozen(a) /\ ~IsNative(a) /\ a.mint = mint
      /\ IsMint(m)
      /\ m.mint_authority # None /\ ValidateOwner(m.mint_authority, S)
      /\ amount = 0 => owner[mint] = TokenProgram /\ owner[dst] = TokenProgram
      /\ m.supply + amount <= U64Max
      /\ lamports' = lamports /\ owner' = owner
      /\ RuntimeAccepts(TokenProgram)
      /\ data' = [data EXCEPT ![mint].supply = WrappingAdd(@, amount),
                              ![dst].amount = WrappingAdd(@, amount)]
  BY DEF MintTo, AccountFromBytes, MintFromBytes, OwnedByToken, SupplyFits, Write
<1>3. a \in AccountData /\ m \in MintData /\ dst # mint
  BY <1>1, <1>2, DataOfKind DEF IsAccount, IsMint
<1>4. /\ a.amount \in U64 /\ m.supply \in U64 /\ amount \in Nat
      /\ a.amount \in Nat /\ m.supply \in Nat
  BY <1>3, U64Assumption DEF AccountData, MintData, U64
<1>5. LiveAccount(dst)
  <2>1. CASE amount = 0
    BY <1>2, <2>1 DEF LiveAccount
  <2>2. CASE amount # 0
    <3>1. data'[dst].amount = WrappingAdd(a.amount, amount)
      BY <1>1, <1>2, <1>3 DEF AccountData
    <3>2. WrappingAdd(a.amount, amount) # a.amount
      BY <1>4, <2>2, WrappingIsExact
    <3> QED
      BY <1>2, <3>1, <3>2 DEF RuntimeAccepts, LiveAccount
  <2> QED
    BY <2>1, <2>2
<1>6. a.amount + amount <= U64Max
  <2>1. a.amount <= m.supply
    BY <1>2, <1>5, ChainFacts DEF ZigInv
  <2> QED
    BY <1>2, <1>4, <2>1, U64Assumption
<1>7. data' = [data EXCEPT ![dst] = d, ![mint] = p]
  <2>1. /\ WrappingAdd(a.amount, amount) = a.amount + amount
        /\ WrappingAdd(m.supply, amount) = m.supply + amount
    BY <1>2, <1>4, <1>6, WrappingIsExact
  <2> QED
    BY <1>1, <1>2, <1>3, <2>1
<1>8. Rust!ValidateOwner(m.mint_authority, S) /\ Rust!RuntimeAccepts(TokenProgram)
  BY <1>2, RustValidatesOwner, RustAccepts
<1>9. Rust!MintTo(S, mint, dst, amount, None)
  BY <1>2, <1>6, <1>7, <1>8
     DEF Rust!MintTo, Rust!IsAccount, Rust!IsFrozen, Rust!IsNative, Rust!IsMint,
         Rust!DecimalsMatch, Rust!CheckAccountOwner, Rust!CheckedAddFits,
         Rust!Pack, IsAccount, IsFrozen, IsNative, IsMint
<1>10. AccountsArePlain'
  <2>1. IsPlain(d) /\ p.kind = "mint"
    BY <1>1, <1>2, <1>3, <1>5
       DEF AccountsArePlain, IsPlain, AccountData, MintData, IsMint
  <2>2. \A k \in Key : data'[k] \in {d, p} \/ data'[k] = data[k]
    BY <1>1, <1>7
  <2> HIDE DEF d, p
  <2> QED
    BY <1>1, <1>2, <2>1, <2>2, PlainKept DEF LiveAccount, IsAccount
<1> QED
  BY <1>9, <1>10

\* What a holder burns is in the supply.
LEMMA BurnIsRust ==
    ASSUME ZigInv, NEW S, NEW src \in Key, NEW mint \in Key, NEW amount \in U64,
           Burn(S, src, mint, amount)
    PROVE  /\ Rust!Burn(S, src, mint, data[src].owner, amount, None)
           /\ data[src].owner \in Owners
           /\ AccountsArePlain'
<1> DEFINE a == data[src]
           m == data[mint]
           d == [a EXCEPT !.amount = a.amount - amount]
           p == [m EXCEPT !.supply = m.supply - amount]
<1>1. data \in [Key -> Data] /\ AccountsArePlain
  BY ChainFacts DEF ZigInv
<1>2. /\ IsAccount(a) /\ ~IsFrozen(a) /\ ~IsNative(a) /\ a.mint = mint
      /\ IsMint(m)
      /\ amount <= a.amount
      /\ ValidateOwner(a.owner, S)
      /\ amount = 0 => owner[mint] = TokenProgram /\ owner[src] = TokenProgram
      /\ lamports' = lamports /\ owner' = owner
      /\ RuntimeAccepts(TokenProgram)
      /\ data' = [data EXCEPT ![src].amount = WrappingSub(@, amount),
                              ![mint].supply = WrappingSub(@, amount)]
  BY DEF Burn, AccountFromBytes, MintFromBytes, OwnedByToken, Write
<1>3. a \in AccountData /\ m \in MintData /\ src # mint
  BY <1>1, <1>2, DataOfKind DEF IsAccount, IsMint
<1>4. /\ a.amount \in U64 /\ m.supply \in U64 /\ amount \in Nat
      /\ a.amount \in Nat /\ m.supply \in Nat
  BY <1>3, U64Assumption DEF AccountData, MintData, U64
<1>5. WrappingSub(a.amount, amount) = a.amount - amount
  BY <1>2, <1>4, WrappingIsExact
<1>6. LiveAccount(src)
  <2>1. CASE amount = 0
    BY <1>2, <2>1 DEF LiveAccount
  <2>2. CASE amount # 0
    <3>1. data'[src].amount = a.amount - amount
      BY <1>1, <1>2, <1>3, <1>5 DEF AccountData
    <3>2. a.amount - amount # a.amount
      BY <1>4, <2>2
    <3> QED
      BY <1>2, <3>1, <3>2 DEF RuntimeAccepts, LiveAccount
  <2> QED
    BY <2>1, <2>2
<1>7. amount <= m.supply
  <2>1. a.amount <= m.supply
    BY <1>2, <1>6, ChainFacts DEF ZigInv
  <2> QED
    BY <1>2, <1>4, <2>1
<1>8. data' = [data EXCEPT ![src] = d, ![mint] = p]
  <2>1. WrappingSub(m.supply, amount) = m.supply - amount
    BY <1>4, <1>7, WrappingIsExact
  <2> QED
    BY <1>1, <1>2, <1>3, <1>5, <2>1
<1>9. /\ a.owner \in Owners
      /\ Rust!MaySpend(a, a.owner, amount, S)
      /\ Rust!ReduceAllowance(a, a.owner, amount) = a
      /\ Rust!RuntimeAccepts(TokenProgram)
  BY <1>1, <1>2, <1>6, RustMaySpend, RustAccepts
<1>10. Rust!Burn(S, src, mint, a.owner, amount, None)
  BY <1>2, <1>7, <1>8, <1>9
     DEF Rust!Burn, Rust!IsAccount, Rust!IsFrozen, Rust!IsNative, Rust!IsMint,
         Rust!DecimalsMatch, Rust!CheckAccountOwner, Rust!Pack,
         IsAccount, IsFrozen, IsNative, IsMint
<1>11. AccountsArePlain'
  <2>1. IsPlain(d) /\ p.kind = "mint"
    BY <1>1, <1>2, <1>3, <1>6
       DEF AccountsArePlain, IsPlain, AccountData, MintData, IsMint
  <2>2. \A k \in Key : data'[k] \in {d, p} \/ data'[k] = data[k]
    BY <1>1, <1>8
  <2> HIDE DEF d, p
  <2> QED
    BY <1>1, <1>2, <2>1, <2>2, PlainKept DEF LiveAccount, IsAccount
<1> QED
  BY <1>9, <1>10, <1>11

\* Who signs is neither the system program nor the incinerator, so that the
\* exception the Rust program makes for them does not arise.
LEMMA CloseAccountIsRust ==
    ASSUME ZigInv, NEW S \in SUBSET Signer, NEW src \in Key, NEW dst \in Key,
           CloseAccount(S, src, dst)
    PROVE  /\ Rust!CloseAccount(S, src, dst)
           /\ AccountsArePlain'
<1> DEFINE a == data[src]
<1>1. /\ lamports \in [Key -> U64] /\ owner \in [Key -> Program]
      /\ data \in [Key -> Data]
      /\ AccountsArePlain
  BY ChainFacts DEF ZigInv
<1>2. /\ IsAccount(a) /\ ~IsFrozen(a)
      /\ IsNative(a) \/ a.amount = 0
      /\ ValidateOwner(Closer(a), S)
      /\ owner' = [owner EXCEPT ![src] = SystemProgram]
      /\ data' = [data EXCEPT ![src] = EmptyData]
      /\ lamports'[dst] # 0
      /\ RuntimeAccepts(TokenProgram)
  BY DEF CloseAccount, AccountFromBytes, WasNoSelfClose
<1>3. lamports' = [[lamports EXCEPT ![dst] = WrappingAdd(lamports[dst],
                                                        lamports[src])]
                      EXCEPT ![src] = 0]
  BY DEF CloseAccount
<1>4. src # dst
  BY <1>1, <1>2, <1>3
<1>5. LiveAccount(src)
  <2>1. data'[src] # a
    BY <1>1, <1>2 DEF IsAccount, EmptyData
  <2> QED
    BY <1>2, <2>1 DEF RuntimeAccepts, LiveAccount
<1>6. lamports[dst] + lamports[src] <= U64Max
  BY <1>4, ChainFacts DEF ZigInv
<1>7. lamports' = [lamports EXCEPT ![dst] = lamports[dst] + lamports[src],
                                   ![src] = 0]
  <2>1. WrappingAdd(lamports[dst], lamports[src]) = lamports[dst] + lamports[src]
    BY <1>1, <1>6, WrappingIsExact
  <2> QED
    BY <1>1, <1>3, <2>1
<1>8. /\ a.close_authority = None
      /\ Closer(a) = a.owner
  BY <1>1, <1>5 DEF AccountsArePlain, IsPlain, Closer
<1>9. ~Rust!IsOwnedBySystemProgramOrIncinerator(a)
  <2>1. a.owner \in Signer
    BY <1>2, <1>8 DEF ValidateOwner
  <2> QED
    BY <2>1, UnsignableAssumption DEF Rust!IsOwnedBySystemProgramOrIncinerator
<1>10. /\ Rust!ValidateOwner(Rust!Closer(a), S)
       /\ Rust!RuntimeAccepts(TokenProgram)
  BY <1>2, <1>8, RustValidatesOwner, RustAccepts DEF Rust!Closer
<1>11. Rust!CloseAccount(S, src, dst)
  BY <1>2, <1>4, <1>6, <1>7, <1>9, <1>10
     DEF Rust!CloseAccount, Rust!IsClosableInto, Rust!IsClosable,
         Rust!IsAccount, Rust!IsNative, Rust!CheckedAddFits,
         Rust!DeleteAccount, Rust!EmptyData, IsAccount, IsNative, EmptyData
<1>12. AccountsArePlain'
  <2>1. \A k \in Key : LiveAccount(k)' => owner[k] = owner'[k] /\ data'[k] = data[k]
    BY <1>1, <1>2 DEF LiveAccount, IsAccount, EmptyData
  <2> QED
    BY <1>1, <2>1, PlainKept DEF LiveAccount
<1> QED
  BY <1>11, <1>12

LEMMA EnvironmentIsRust ==
    ASSUME ZigInv, Environment
    PROVE  Rust!Environment /\ AccountsArePlain'
<1>1. /\ owner \in [Key -> Program] /\ data \in [Key -> Data]
      /\ AccountsArePlain
  BY ChainFacts DEF ZigInv
<1>2. Rust!Environment
  BY DEF Environment, SystemTransfer, CreateAccount, OtherProgramWrites,
         OtherProgramAssigns, Layouts, Pay, IsWallet, EmptyData, ZeroMint,
         ZeroAccount, ZeroMultisig,
         Rust!Environment, Rust!SystemTransfer, Rust!CreateAccount,
         Rust!OtherProgramWrites, Rust!OtherProgramAssigns, Rust!Layouts,
         Rust!Pay, Rust!IsWallet, Rust!EmptyData, Rust!ZeroMint,
         Rust!ZeroAccount, Rust!ZeroMultisig
<1>3. /\ ForeignKey \subseteq Key
      /\ \A k \in Key : \A zero \in Layouts(k) \cup {EmptyData} : ~IsAccount(zero)
  BY ClientAssumption
     DEF Layouts, IsAccount, ZeroMint, ZeroAccount, ZeroMultisig, EmptyData
<1>4. \A k \in Key : LiveAccount(k)' => LiveAccount(k) /\ data'[k] = data[k]
  <2>1. ASSUME NEW from, NEW to, NEW n, SystemTransfer(from, to, n)
        PROVE  \A k \in Key : LiveAccount(k)' => LiveAccount(k) /\ data'[k] = data[k]
    BY <2>1 DEF SystemTransfer, LiveAccount
  <2>2. ASSUME NEW from, NEW j \in Key, NEW program, NEW n,
               NEW zero \in Layouts(j) \cup {EmptyData},
               CreateAccount(from, j, zero, program, n)
        PROVE  \A k \in Key : LiveAccount(k)' => LiveAccount(k) /\ data'[k] = data[k]
    BY <1>1, <1>3, <2>2 DEF CreateAccount, LiveAccount
  <2>3. ASSUME NEW j \in Key, NEW d, OtherProgramWrites(j, d)
        PROVE  \A k \in Key : LiveAccount(k)' => LiveAccount(k) /\ data'[k] = data[k]
    BY <1>1, <2>3, ProgramAssumption DEF OtherProgramWrites, LiveAccount
  <2>4. ASSUME NEW j \in Key, NEW zero \in Layouts(j), OtherProgramAssigns(j, zero)
        PROVE  \A k \in Key : LiveAccount(k)' => LiveAccount(k) /\ data'[k] = data[k]
    BY <1>1, <1>3, <2>4 DEF OtherProgramAssigns, LiveAccount
  <2> QED
    BY <1>3, <2>1, <2>2, <2>3, <2>4 DEF Environment
<1> QED
  BY <1>1, <1>2, <1>4, PlainKept

\* Every step of the Zig program is a step of the Rust program or opens an
\* account at the stated rent.
LEMMA NextIsRust ==
    ASSUME ZigInv, [Next]_vars
    PROVE  /\ [Rust!Next \/ OpensAtStatedRent]_vars
           /\ [RustFacts!AnyRentNext]_(RustFacts!vars)
           /\ AccountsArePlain'
<1>1. [Rust!Next]_vars => [RustFacts!AnyRentNext]_(RustFacts!vars)
  <2>1. [Rust!Next]_vars => [Rust!Next]_(Rust!vars)
    BY DEF vars, Rust!vars
  <2>2. [RustFacts!Next]_(RustFacts!vars)
           => [RustFacts!AnyRentNext]_(RustFacts!vars)
    BY RustConstants, RustFacts!NextIsAnyRent
  <2> QED
    BY <2>1, <2>2, RustStep
<1>2. CASE UNCHANGED vars
  BY <1>1, <1>2, PlainKept DEF vars, LiveAccount, ZigInv
<1>3. CASE Environment
  <2>1. Rust!Next /\ AccountsArePlain'
    BY <1>3, EnvironmentIsRust DEF Rust!Next
  <2> QED
    BY <1>1, <2>1
<1>4. ASSUME NEW k \in TokenAccounts, NEW mint \in MintAccounts,
             NEW newOwner \in Owners, NEW stated \in StatedRent,
             InitializeAccount(k, mint, newOwner, stated)
      PROVE  OpensAtStatedRent /\ RustFacts!AnyRentNext /\ AccountsArePlain'
  <2>1. k \in Key /\ mint \in Key /\ stated \in RustFacts!U64
    BY InputAssumption DEF MintAccounts, TokenAccounts, U64, RustFacts!U64
  <2>2. /\ RustAt(stated)!InitializeAccount(k, mint, newOwner)
        /\ RustFacts!OpensAt(k, mint, newOwner, stated)
        /\ AccountsArePlain'
    BY <1>4, <2>1, InitializeAccountIsRust
  <2>3. OpensAtStatedRent
    BY <2>2 DEF OpensAtStatedRent
  <2>4. RustFacts!AnyRentNext
    BY <2>1, <2>2 DEF RustFacts!AnyRentNext
  <2> QED
    BY <2>2, <2>3, <2>4
<1>5. ASSUME NEW S \in SUBSET Signer, ProcessInstruction(S),
             ~ \E k \in TokenAccounts, mint \in MintAccounts,
                  newOwner \in Owners, stated \in StatedRent :
                  InitializeAccount(k, mint, newOwner, stated)
      PROVE  Rust!Next /\ AccountsArePlain'
  <2>1. /\ MintAccounts \subseteq Key /\ TokenAccounts \subseteq Key
        /\ MintAccounts = Rust!MintAccounts /\ TokenAccounts = Rust!TokenAccounts
        /\ Refund \subseteq Key /\ Amount \subseteq U64
        /\ None \in Rust!Expected
    BY InputAssumption
       DEF MintAccounts, TokenAccounts, Rust!MintAccounts, Rust!TokenAccounts,
           Rust!Expected
  <2>2. ASSUME NEW k \in MintAccounts, NEW decimals \in Decimals,
               NEW mintAuthority \in MintAuthorities,
               NEW freezeAuthority \in FreezeAuthorities \cup {None},
               InitializeMint(k, decimals, mintAuthority, freezeAuthority)
        PROVE  Rust!Next /\ AccountsArePlain'
    <3>1. Rust!Permissionless /\ AccountsArePlain'
      BY <2>1, <2>2, InitializeMintIsRust DEF Rust!Permissionless
    <3> QED
      BY <3>1 DEF Rust!Next
  <2>4. ASSUME NEW src \in TokenAccounts, NEW dst \in TokenAccounts,
               NEW amount \in Amount, Transfer(S, src, dst, amount)
        PROVE  Rust!SignedBy(S) /\ AccountsArePlain'
    BY <2>1, <2>4, TransferIsRust DEF Rust!SignedBy
  <2>5. ASSUME NEW mint \in MintAccounts, NEW dst \in TokenAccounts,
               NEW amount \in Amount, MintTo(S, mint, dst, amount)
        PROVE  Rust!SignedBy(S) /\ AccountsArePlain'
    BY <2>1, <2>5, MintToIsRust DEF Rust!SignedBy
  <2>6. ASSUME NEW src \in TokenAccounts, NEW mint \in MintAccounts,
               NEW amount \in Amount, Burn(S, src, mint, amount)
        PROVE  Rust!SignedBy(S) /\ AccountsArePlain'
    BY <2>1, <2>6, BurnIsRust DEF Rust!SignedBy
  <2>7. ASSUME NEW src \in TokenAccounts, NEW dst \in Refund,
               CloseAccount(S, src, dst)
        PROVE  Rust!SignedBy(S) /\ AccountsArePlain'
    BY <2>1, <2>7, CloseAccountIsRust DEF Rust!SignedBy
  <2> QED
    BY <1>5, <2>2, <2>4, <2>5, <2>6, <2>7 DEF ProcessInstruction, Rust!Next
<1>6. CASE \E S \in SUBSET Signer : ProcessInstruction(S)
  <2>1. \/ OpensAtStatedRent /\ RustFacts!AnyRentNext /\ AccountsArePlain'
        \/ Rust!Next /\ AccountsArePlain'
    BY <1>4, <1>5, <1>6
  <2> QED
    BY <1>1, <2>1
<1> QED
  BY <1>2, <1>3, <1>6 DEF Next

LEMMA InitIsRust == Init => Rust!Init /\ ZigInv
<1> SUFFICES ASSUME Init PROVE Rust!Init /\ ZigInv
  OBVIOUS
<1>1. Rust!Init
  BY DEF Init, ZeroMint, EmptyData, Rust!Init, Rust!ZeroMint, Rust!EmptyData
<1>2. RustFacts!Init
  BY DEF Init, ZeroMint, EmptyData, RustFacts!Init, RustFacts!ZeroMint,
         RustFacts!EmptyData
<1>3. RustFacts!ChainInv
  BY <1>2, RustConstants, RustFacts!InitChain
<1>4. \A k \in Key : ~LiveAccount(k)
  BY DEF Init, LiveAccount, IsAccount, ZeroMint, EmptyData
<1> QED
  BY <1>1, <1>3, <1>4 DEF ZigInv, AccountsArePlain

LEMMA StepIsRust ==
    ZigInv /\ [Next]_vars => [Rust!Next \/ OpensAtStatedRent]_vars /\ ZigInv'
<1> SUFFICES ASSUME ZigInv, [Next]_vars
             PROVE  [Rust!Next \/ OpensAtStatedRent]_vars /\ ZigInv'
  OBVIOUS
<1>1. /\ [Rust!Next \/ OpensAtStatedRent]_vars
      /\ [RustFacts!AnyRentNext]_(RustFacts!vars)
      /\ AccountsArePlain'
  BY NextIsRust
<1>2. RustFacts!ChainInv'
  BY <1>1, RustChainKept DEF ZigInv
<1> QED
  BY <1>1, <1>2 DEF ZigInv

\* The invariant that the implementation rests on: what holds of the Rust
\* program's accounts, which keeps the unchecked sums in range, and that no
\* account has a delegate, a close authority or is frozen.
THEOREM ZigInvariant == Spec => []ZigInv
BY InitIsRust, StepIsRust, PTL DEF Spec

\* The Zig program implements the Rust program but for the rent it asks of a new
\* account: its six handlers, which leave fields as they find them, write in
\* place, add and subtract without a check and look at some results only
\* afterwards, do what the Rust handlers do, and initializeAccount what the Rust
\* handler would do where the rent is what the account passed as rent states.
THEOREM ZigImplementsRust == Spec => ImplementsRust
<1>1. Init => Rust!Init
  BY InitIsRust
<1>2. Spec => Rust!Init /\ [][Rust!Next \/ OpensAtStatedRent]_vars
  BY <1>1, StepIsRust, ZigInvariant, PTL DEF Spec
<1> QED
  BY <1>2 DEF ImplementsRust

\* Where every client passes the rent sysvar itself, nothing is excepted: the Zig
\* program then implements the Rust program, and all that is proved of the Rust
\* program, rent exemption included, holds of it.
THEOREM ZigImplementsRustAtItsRent ==
    ASSUME StatedRent \subseteq {MinBalance["account"]}
    PROVE  Spec => Rust!Spec
<1>1. OpensAtStatedRent => Rust!Next
  <2> SUFFICES ASSUME OpensAtStatedRent PROVE Rust!Next
    OBVIOUS
  <2>1. PICK k \in TokenAccounts, mint \in MintAccounts, newOwner \in Owners :
           RustAt(MinBalance["account"])!InitializeAccount(k, mint, newOwner)
    BY DEF OpensAtStatedRent
  <2>2. [MinBalance EXCEPT !["account"] = MinBalance["account"]] = MinBalance
    BY ClientAssumption
  <2>3. Rust!InitializeAccount(k, mint, newOwner)
    BY <2>1, <2>2, Zenon
       DEF RustAt!InitializeAccount, RustAt!AlreadyInUse, RustAt!IsMint,
           RustAt!IsAccount, RustAt!IsMultisig, RustAt!IsRentExempt,
           RustAt!IsValidMint, RustAt!CheckAccountOwner, RustAt!Pack,
           RustAt!RuntimeAccepts, RustAt!Zeroed, RustAt!EmptyData,
           RustAt!ZeroMint, RustAt!ZeroAccount, RustAt!ZeroMultisig,
           Rust!InitializeAccount, Rust!AlreadyInUse, Rust!IsMint,
           Rust!IsAccount, Rust!IsMultisig, Rust!IsRentExempt,
           Rust!IsValidMint, Rust!CheckAccountOwner, Rust!Pack,
           Rust!RuntimeAccepts, Rust!Zeroed, Rust!EmptyData,
           Rust!ZeroMint, Rust!ZeroAccount, Rust!ZeroMultisig
  <2> QED
    BY <2>3 DEF Rust!Next, Rust!Permissionless, Rust!TokenAccounts,
                Rust!MintAccounts, TokenAccounts, MintAccounts
<1>2. [Rust!Next \/ OpensAtStatedRent]_vars => [Rust!Next]_(Rust!vars)
  BY <1>1 DEF vars, Rust!vars
<1>3. Spec => Rust!Init /\ [][Rust!Next \/ OpensAtStatedRent]_vars
  BY ZigImplementsRust DEF ImplementsRust
<1> QED
  BY <1>2, <1>3, PTL DEF Rust!Spec

-----------------------------------------------------------------------------
(* What follows for the Zig program.                                       *)

\* The Zig program keeps the balances of the Rust program at whatever rent its
\* clients state: supplies match balances, wrapped SOL is backed on top of the
\* reserve its account recorded, and no lamport is made or lost, although nothing
\* in the Zig handlers checks for it.
THEOREM ZigKeepsBalances == Spec => []BalancesKept
<1>1. RustFacts!ChainInv => BalancesKept
  <2> USE DEF Rust!IsLiveMint, Rust!IsLiveAccount, Rust!IsMint,
              Rust!IsAccount, Rust!IsNative, RustFacts!IsLiveMint,
              RustFacts!IsLiveAccount, RustFacts!IsMint,
              RustFacts!IsAccount, RustFacts!IsNative
  <2>1. RustFacts!SupplyMatchesBalances => Rust!SupplyMatchesBalances
    BY Zenon DEF RustFacts!SupplyMatchesBalances, RustFacts!IsHolder,
           RustFacts!Total, RustFacts!Units, RustFacts!Cardinality,
           Rust!SupplyMatchesBalances, Rust!IsHolder,
           Rust!Total, Rust!Units, Rust!Cardinality
  <2>2. RustFacts!WrappedLamportsBacked => Rust!WrappedLamportsBacked
    BY DEF RustFacts!WrappedLamportsBacked, Rust!WrappedLamportsBacked
  <2>3. RustFacts!LamportsConserved => Rust!LamportsConserved
    BY DEF RustFacts!LamportsConserved, RustFacts!Total, RustFacts!Units,
           RustFacts!Cardinality, Rust!LamportsConserved, Rust!Total,
           Rust!Units, Rust!Cardinality
  <2> QED
    BY <2>1, <2>2, <2>3
       DEF RustFacts!ChainInv, RustFacts!MoneyInv, BalancesKept
<1> QED
  BY <1>1, ZigInvariant, PTL DEF ZigInv

\* An owner who signs in the Zig program signs alone.
LEMMA OwnerSignsAlone ==
    ASSUME AccountsArePlain, NEW k \in Key, LiveAccount(k),
           NEW S \in SUBSET Signer, ValidateOwner(Closer(data[k]), S)
    PROVE  SignsAlone(data[k].owner)
BY DEF AccountsArePlain, IsPlain, Closer, ValidateOwner, OwnedByToken, SignsAlone

LEMMA UnsignedKept ==
    ASSUME ZigInv, [Next]_vars, NEW k \in Key, Rust!IsLiveAccount(k),
           ~SignsAlone(data[k].owner)
    PROVE  StaysUnsigned(k)
<1>1. /\ owner \in [Key -> Program] /\ data \in [Key -> Data]
      /\ AccountsArePlain /\ LiveAccount(k)
  BY ChainFacts
     DEF ZigInv, LiveAccount, Rust!IsLiveAccount, Rust!IsAccount, IsAccount
<1>2. /\ data[k] \in AccountData /\ data[k].kind = "account"
      /\ data[k].state = "Initialized"
      /\ data[k].amount \in Nat /\ owner[k] = TokenProgram
  <2>1. data[k] \in AccountData
    BY <1>1, DataOfKind DEF LiveAccount, IsAccount
  <2> QED
    BY <1>1, <2>1, U64Assumption
       DEF LiveAccount, IsAccount, AccountsArePlain, IsPlain, AccountData, U64
<1>3. owner'[k] = owner[k] /\ data'[k] = data[k] => StaysUnsigned(k)
  BY <1>2 DEF StaysUnsigned, Rust!StaysLive, Rust!IsAccount
<1>4. ASSUME NEW n \in Nat, owner'[k] = owner[k],
             data'[k] = [data[k] EXCEPT !.amount = data[k].amount + n]
      PROVE  StaysUnsigned(k)
  BY <1>2, <1>4 DEF StaysUnsigned, Rust!StaysLive, Rust!IsAccount, AccountData
<1>5. \A S \in SUBSET Signer : ~ValidateOwner(Closer(data[k]), S)
  BY <1>1, OwnerSignsAlone
<1>6. Closer(data[k]) = data[k].owner
  BY <1>1 DEF AccountsArePlain, IsPlain, Closer
<1>7. CASE Environment
  BY <1>1, <1>2, <1>3, <1>7, ProgramAssumption, ClientAssumption
     DEF Environment, SystemTransfer, CreateAccount, OtherProgramWrites,
         OtherProgramAssigns, IsWallet
<1>8. ASSUME NEW S \in SUBSET Signer, ProcessInstruction(S)
      PROVE  StaysUnsigned(k)
  <2>1. /\ MintAccounts \subseteq Key /\ TokenAccounts \subseteq Key
        /\ Amount \subseteq U64 /\ \A n \in U64 : n \in Nat
    BY InputAssumption, U64Assumption DEF MintAccounts, TokenAccounts, U64
  <2>2. ASSUME NEW j \in MintAccounts, NEW decimals, NEW mintAuthority,
               NEW freezeAuthority,
               InitializeMint(j, decimals, mintAuthority, freezeAuthority)
        PROVE  StaysUnsigned(k)
    BY <1>1, <1>2, <1>3, <2>1, <2>2 DEF InitializeMint, Write
  <2>3. ASSUME NEW j \in TokenAccounts, NEW mint \in MintAccounts,
               NEW newOwner \in Owners, NEW stated \in StatedRent,
               InitializeAccount(j, mint, newOwner, stated)
        PROVE  StaysUnsigned(k)
    BY <1>1, <1>2, <1>3, <2>1, <2>3 DEF InitializeAccount, IsUnclaimed, Write
  <2>4. ASSUME NEW src \in TokenAccounts, NEW dst \in TokenAccounts,
               NEW amount \in Amount, Transfer(S, src, dst, amount)
        PROVE  StaysUnsigned(k)
    <3>1. src # k
      BY <1>5, <1>6, <2>4 DEF Transfer
    <3>2. Rust!Transfer(S, src, dst, data[src].owner, amount, None)
      BY <2>1, <2>4, TransferIsRust
    <3>3. owner' = owner
      BY <2>4 DEF Transfer, Write
    <3>4. \/ data'[k] = data[k]
          \/ data'[k] = [data[k] EXCEPT !.amount = data[k].amount + amount]
      BY <1>1, <2>1, <3>1, <3>2
         DEF Rust!Transfer, Rust!IsSelfTransfer, Rust!vars
    <3> QED
      BY <1>3, <1>4, <2>1, <3>3, <3>4
  <2>5. ASSUME NEW mint \in MintAccounts, NEW dst \in TokenAccounts,
               NEW amount \in Amount, MintTo(S, mint, dst, amount)
        PROVE  StaysUnsigned(k)
    <3>1. Rust!MintTo(S, mint, dst, amount, None)
      BY <2>1, <2>5, MintToIsRust
    <3>2. owner' = owner /\ mint # k
      BY <1>2, <2>5 DEF MintTo, Write, MintAccounts
    <3>3. \/ data'[k] = data[k]
          \/ data'[k] = [data[k] EXCEPT !.amount = data[k].amount + amount]
      BY <1>1, <2>1, <3>1, <3>2 DEF Rust!MintTo, Rust!Pack
    <3> QED
      BY <1>3, <1>4, <2>1, <3>2, <3>3
  <2>6. ASSUME NEW src \in TokenAccounts, NEW mint \in MintAccounts,
               NEW amount \in Amount, Burn(S, src, mint, amount)
        PROVE  StaysUnsigned(k)
    <3>1. src # k /\ mint # k
      BY <1>2, <1>5, <1>6, <2>6 DEF Burn, MintAccounts
    <3>2. owner'[k] = owner[k] /\ data'[k] = data[k]
      BY <1>1, <2>1, <2>6, <3>1 DEF Burn, Write
    <3> QED
      BY <1>3, <3>2
  <2>7. ASSUME NEW src \in TokenAccounts, NEW dst \in Refund,
               CloseAccount(S, src, dst)
        PROVE  StaysUnsigned(k)
    <3>1. src # k
      BY <1>5, <2>7 DEF CloseAccount
    <3> QED
      BY <1>1, <1>3, <2>1, <2>7, <3>1 DEF CloseAccount
  <2> QED
    BY <1>8, <2>2, <2>3, <2>4, <2>5, <2>6, <2>7 DEF ProcessInstruction
<1>9. CASE UNCHANGED vars
  BY <1>3, <1>9 DEF vars
<1> QED
  BY <1>7, <1>8, <1>9 DEF Next

\* In the Zig program tokens stay where nobody can sign for them alone: no
\* exception lets others burn or close what the system program or the
\* incinerator owns, and a multisig cannot act.
THEOREM ZigUnsignedTokensStay == Spec => UnsignedTokensStay
<1>1. ZigInv /\ [Next]_vars
         => \A k \in Key : Rust!IsLiveAccount(k) /\ ~SignsAlone(data[k].owner)
               => StaysUnsigned(k)
  BY UnsignedKept
<1> QED
  BY <1>1, ZigInvariant, PTL DEF Spec, UnsignedTokensStay

=============================================================================
