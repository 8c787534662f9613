----------------------------- MODULE TokenProofs -----------------------------
(***************************************************************************)
(* The token program implements the ledger of TokenLedger, and what it     *)
(* guarantees to those who hold tokens, delegate, freeze, mint and pay     *)
(* rent, for every set of addresses and amounts.                           *)
(*                                                                         *)
(* Every step of the program and of its environment leaves accounts with   *)
(* one of the layouts of the program and with u64 amounts.                 *)
(*                                                                         *)
(* The inductive invariant adds to the types that uninitialized data is    *)
(* zero, for InitializeMint creates a mint with the supply it finds, and   *)
(* that accounts follow their mints, for the handlers compare addresses.   *)
(* For every handler one lemma says which step of the ledger it is and     *)
(* that it keeps the invariant.                                            *)
(*                                                                         *)
(* Every handler writes one or two accounts.  KeyStep(S, k) is what the    *)
(* accounts at k can go through when S signed, whichever handler runs, and *)
(* UnsignedStep(k) what can happen there without any signature that        *)
(* counts.  For every handler one lemma shows the first, and for the       *)
(* environment and the permissionless instructions the second; the         *)
(* properties of TokenProperties are then read off these few cases.  A     *)
(* step that needs a signature has the consent of the signer because the   *)
(* same change of the accounts, whoever else might have signed for it, is  *)
(* the same step.                                                          *)
(*                                                                         *)
(* The rent of the chain has lemmas of its own.  The others are shown of   *)
(* AnyRentNext, where an account may also be opened at any other rent, for *)
(* a port of the program that takes the rent from its client               *)
(* (TokenZigProofs).                                                       *)
(***************************************************************************)
EXTENDS TokenProperties, TotalsTheorems

-----------------------------------------------------------------------------
(* Data of a kind has the layout of the kind.                              *)

LEMMA KindOfData ==
    ASSUME NEW d \in Data
    PROVE  /\ d.kind = "mint" => d \in MintData
           /\ d.kind = "account" => d \in AccountData
           /\ d.kind = "multisig" => d \in MultisigData
<1>1. CASE d = EmptyData
  BY <1>1 DEF EmptyData
<1>2. CASE d \in MintData
  BY <1>2 DEF MintData
<1>3. CASE d \in AccountData
  BY <1>3 DEF AccountData
<1>4. CASE d \in MultisigData
  BY <1>4 DEF MultisigData
<1> QED
  BY <1>1, <1>2, <1>3, <1>4 DEF Data

LEMMA KindOfAccount ==
    ASSUME TypeOK, NEW k \in Key
    PROVE  /\ data[k].kind = "mint" => data[k] \in MintData
           /\ data[k].kind = "account" => data[k] \in AccountData
           /\ data[k].kind = "multisig" => data[k] \in MultisigData
BY KindOfData DEF TypeOK

LEMMA ZeroIsU64 == 0 \in U64
BY U64Assumption DEF U64

LEMMA ZeroedIsData == Zeroed \subseteq Data
<1>1. EmptyData \in Data
  BY DEF Data
<1>2. ZeroMint \in MintData
  BY U64Assumption DEF ZeroMint, MintData, OptionalKey, U64
<1>3. ZeroAccount \in AccountData
  BY U64Assumption, KeyAssumption
     DEF ZeroAccount, AccountData, OptionalKey, AccountState, U64
<1>4. ZeroMultisig \in MultisigData
  <2>1. 0 \in 0 .. MaxSigners
    BY SizeAssumption
  <2>2. [p \in 1 .. 0 |-> SystemProgram] \in [1 .. 0 -> Key]
    BY KeyAssumption
  <2> QED
    BY <2>1, <2>2 DEF ZeroMultisig, MultisigData
<1> QED
  BY <1>1, <1>2, <1>3, <1>4 DEF Zeroed, Data

LEMMA PackTyped ==
    ASSUME TypeOK, NEW k \in Key, NEW d \in Data,
           Pack([data EXCEPT ![k] = d])
    PROVE  TypeOK'
BY DEF Pack, TypeOK

LEMMA PackTwoTyped ==
    ASSUME TypeOK, NEW j \in Key, NEW k \in Key, NEW d \in Data, NEW e \in Data,
           Pack([data EXCEPT ![j] = d, ![k] = e])
    PROVE  TypeOK'
BY DEF Pack, TypeOK

-----------------------------------------------------------------------------
(* One lemma per instruction.                                              *)

LEMMA InitializeMintTyped ==
    ASSUME TypeOK, NEW k \in Key, NEW decimals \in Decimals,
           NEW mintAuthority \in Key, NEW freezeAuthority \in OptionalKey,
           InitializeMint(k, decimals, mintAuthority, freezeAuthority)
    PROVE  TypeOK'
<1> DEFINE d == [data[k] EXCEPT !.mint_authority = mintAuthority,
                                !.decimals = decimals,
                                !.is_initialized = TRUE,
                                !.freeze_authority = freezeAuthority]
<1>1. data[k] \in MintData
  BY KindOfAccount DEF InitializeMint
<1>2. d \in MintData
  BY <1>1 DEF MintData, OptionalKey
<1>3. Pack([data EXCEPT ![k] = d])
  BY DEF InitializeMint
<1> QED
  BY <1>2, <1>3, PackTyped DEF Data

\* An account is opened as by InitializeAccount, but at any rent: it has to hold
\* the given reserve.  But for its rent nothing is owed to the amount that
\* InitializeAccount asks for, and what is shown of the other invariants is
\* shown of both.
OpensAt(k, mint, newOwner, reserve) ==
    /\ data[k].kind = "account"
    /\ ~AlreadyInUse(k)
    /\ lamports[k] >= reserve
    /\ IsValidMint(mint)
    /\ Pack([data EXCEPT ![k] =
          [kind |-> "account", mint |-> mint, owner |-> newOwner,
           amount |-> IF mint = NativeMint THEN lamports[k] - reserve ELSE 0,
           delegate |-> None, state |-> "Initialized",
           is_native |-> IF mint = NativeMint THEN reserve ELSE None,
           delegated_amount |-> 0, close_authority |-> None]])

LEMMA InitializeAccountOpens ==
    ASSUME NEW k, NEW mint, NEW newOwner, InitializeAccount(k, mint, newOwner)
    PROVE  OpensAt(k, mint, newOwner, MinBalance["account"])
BY DEF InitializeAccount, OpensAt, IsRentExempt

LEMMA OpensAtTyped ==
    ASSUME TypeOK, NEW k \in Key, NEW mint \in Key, NEW newOwner \in Key,
           NEW reserve \in U64, OpensAt(k, mint, newOwner, reserve)
    PROVE  TypeOK'
<1> DEFINE amount == IF mint = NativeMint THEN lamports[k] - reserve ELSE 0
           native == IF mint = NativeMint THEN reserve ELSE None
           d == [kind |-> "account", mint |-> mint, owner |-> newOwner,
                 amount |-> amount, delegate |-> None,
                 state |-> "Initialized", is_native |-> native,
                 delegated_amount |-> 0, close_authority |-> None]
<1>1. lamports[k] \in U64 /\ lamports[k] >= reserve
  BY DEF TypeOK, OpensAt
<1>2. amount \in U64 /\ native \in U64 \cup {None} /\ 0 \in U64
  BY <1>1, U64Assumption DEF U64
<1>3. d \in AccountData
  BY <1>2 DEF AccountData, OptionalKey, AccountState
<1>4. Pack([data EXCEPT ![k] = d])
  BY DEF OpensAt
<1> QED
  BY <1>3, <1>4, PackTyped DEF Data

LEMMA InitializeAccountTyped ==
    ASSUME TypeOK, NEW k \in Key, NEW mint \in Key, NEW newOwner \in Key,
           InitializeAccount(k, mint, newOwner)
    PROVE  TypeOK'
BY OpensAtTyped, InitializeAccountOpens, ClientAssumption

LEMMA InitializeMultisigTyped ==
    ASSUME TypeOK, NEW k \in Key, NEW m, NEW n \in 0 .. MaxSigners + 1,
           NEW signers \in [1 .. n -> Key],
           InitializeMultisig(k, m, signers)
    PROVE  TypeOK'
<1> DEFINE d == [kind |-> "multisig", m |-> m, is_initialized |-> TRUE,
                 signers |-> signers]
<1>1. n \in 0 .. MaxSigners
  <2>1. DOMAIN signers = 1 .. n /\ n \in Nat
    BY SizeAssumption
  <2>2. Cardinality(1 .. n) = n
    BY <2>1, FS_Interval
  <2>3. n \in 1 .. MaxSigners
    BY <2>1, <2>2 DEF InitializeMultisig, IsValidSignerIndex
  <2> QED
    BY <2>3, SizeAssumption
<1>2. m \in 0 .. MaxSigners
  BY SizeAssumption DEF InitializeMultisig, IsValidSignerIndex
<1>3. signers \in UNION {[1 .. i -> Key] : i \in 0 .. MaxSigners}
  BY <1>1
<1>4. d \in MultisigData
  BY <1>2, <1>3 DEF MultisigData
<1>5. Pack([data EXCEPT ![k] = d])
  BY DEF InitializeMultisig
<1> QED
  BY <1>4, <1>5, PackTyped DEF Data

\* What an allowance loses it had.
LEMMA ReduceAllowanceTyped ==
    ASSUME NEW a \in AccountData, NEW auth \in Key, NEW amount \in U64,
           NEW S, MaySpend(a, auth, amount, S)
    PROVE  /\ ReduceAllowance(a, auth, amount) \in AccountData
           /\ \A n \in U64 :
                 [ReduceAllowance(a, auth, amount) EXCEPT !.amount = n]
                    \in AccountData
<1>1. ReduceAllowance(a, auth, amount) \in AccountData
  <2>1. CASE a.delegate = auth
    <3>1. a.delegated_amount \in U64 /\ amount <= a.delegated_amount
      BY <2>1 DEF MaySpend, AccountData
    <3>2. a.delegated_amount - amount \in U64
      BY <3>1, U64Assumption DEF U64
    <3> QED
      BY <2>1, <3>2 DEF ReduceAllowance, AccountData, OptionalKey
  <2>2. CASE a.delegate # auth
    BY <2>2 DEF ReduceAllowance
  <2> QED
    BY <2>1, <2>2
<1> QED
  BY <1>1 DEF AccountData

LEMMA PayTyped ==
    ASSUME TypeOK, NEW from \in Key, NEW to \in Key, NEW n \in U64,
           Pay(from, to, n)
    PROVE  lamports' \in [Key -> U64]
<1>1. lamports[from] - n \in U64 /\ lamports[to] + n \in U64
  BY U64Assumption DEF TypeOK, Pay, U64
<1> QED
  BY <1>1 DEF TypeOK, Pay

LEMMA TransferTyped ==
    ASSUME TypeOK, NEW S, NEW src \in Key, NEW dst \in Key, NEW auth \in Key,
           NEW amount \in U64, NEW expected,
           Transfer(S, src, dst, auth, amount, expected)
    PROVE  TypeOK'
<1> DEFINE a == data[src]
           b == data[dst]
           d == [ReduceAllowance(a, auth, amount)
                    EXCEPT !.amount = a.amount - amount]
           e == [b EXCEPT !.amount = b.amount + amount]
<1>1. CASE src = dst
  BY <1>1 DEF Transfer, IsSelfTransfer, TypeOK, vars
<1>2. CASE src # dst
  <2>1. a \in AccountData /\ b \in AccountData
    BY KindOfAccount DEF Transfer, IsAccount
  <2>2. a.amount - amount \in U64 /\ b.amount + amount \in U64
    BY <1>2, <2>1, U64Assumption
       DEF Transfer, IsSelfTransfer, CheckedAddFits, AccountData, U64
  <2>3. d \in AccountData
    BY <2>1, <2>2, ReduceAllowanceTyped DEF Transfer
  <2>4. e \in AccountData
    BY <2>1, <2>2 DEF AccountData
  <2>5. data' = [data EXCEPT ![src] = d, ![dst] = e] /\ owner' = owner
    BY <1>2 DEF Transfer, IsSelfTransfer
  <2>6. lamports' \in [Key -> U64]
    BY <1>2, PayTyped DEF Transfer, IsSelfTransfer, TypeOK
  <2> HIDE DEF d, e
  <2> QED
    BY <2>3, <2>4, <2>5, <2>6 DEF TypeOK, Data
<1> QED
  BY <1>1, <1>2

LEMMA ApproveTyped ==
    ASSUME TypeOK, NEW S, NEW src \in Key, NEW delegate \in Key,
           NEW amount \in U64, NEW expected,
           Approve(S, src, delegate, amount, expected)
    PROVE  TypeOK'
<1> DEFINE d == [data[src] EXCEPT !.delegate = delegate,
                                  !.delegated_amount = amount]
<1>1. data[src] \in AccountData
  BY KindOfAccount DEF Approve, IsAccount
<1>2. d \in AccountData
  BY <1>1 DEF AccountData, OptionalKey
<1>3. Pack([data EXCEPT ![src] = d])
  BY DEF Approve
<1> QED
  BY <1>2, <1>3, PackTyped DEF Data

LEMMA RevokeTyped ==
    ASSUME TypeOK, NEW S, NEW src \in Key, Revoke(S, src)
    PROVE  TypeOK'
<1> DEFINE d == [data[src] EXCEPT !.delegate = None, !.delegated_amount = 0]
<1>1. data[src] \in AccountData
  BY KindOfAccount DEF Revoke, IsAccount
<1>2. d \in AccountData
  BY <1>1, ZeroIsU64 DEF AccountData, OptionalKey
<1>3. Pack([data EXCEPT ![src] = d])
  BY DEF Revoke
<1> QED
  BY <1>2, <1>3, PackTyped DEF Data

LEMMA SetAuthorityTyped ==
    ASSUME TypeOK, NEW S, SetAuthority(S)
    PROVE  TypeOK'
<1>1. ASSUME NEW k \in Key, NEW new \in Key, SetAccountOwner(S, k, new)
      PROVE  TypeOK'
  <2>1. data[k] \in AccountData
    BY <1>1, KindOfAccount DEF SetAccountOwner, IsAccount
  <2>2. HandOver(data[k], new) \in AccountData
    BY <2>1, ZeroIsU64 DEF HandOver, AccountData, OptionalKey
  <2> QED
    BY <1>1, <2>2, PackTyped DEF SetAccountOwner, Data
<1>2. ASSUME NEW k \in Key, NEW new \in OptionalKey, SetCloseAuthority(S, k, new)
      PROVE  TypeOK'
  <2>1. data[k] \in AccountData
    BY <1>2, KindOfAccount DEF SetCloseAuthority, IsAccount
  <2>2. [data[k] EXCEPT !.close_authority = new] \in AccountData
    BY <2>1 DEF AccountData
  <2> QED
    BY <1>2, <2>2, PackTyped DEF SetCloseAuthority, Data
<1>3. ASSUME NEW k \in Key, NEW new \in OptionalKey, SetMintAuthority(S, k, new)
      PROVE  TypeOK'
  <2>1. data[k] \in MintData
    BY <1>3, KindOfAccount DEF SetMintAuthority, IsMint
  <2>2. [data[k] EXCEPT !.mint_authority = new] \in MintData
    BY <2>1 DEF MintData
  <2> QED
    BY <1>3, <2>2, PackTyped DEF SetMintAuthority, Data
<1>4. ASSUME NEW k \in Key, NEW new \in OptionalKey, SetFreezeAuthority(S, k, new)
      PROVE  TypeOK'
  <2>1. data[k] \in MintData
    BY <1>4, KindOfAccount DEF SetFreezeAuthority, IsMint
  <2>2. [data[k] EXCEPT !.freeze_authority = new] \in MintData
    BY <2>1 DEF MintData
  <2> QED
    BY <1>4, <2>2, PackTyped DEF SetFreezeAuthority, Data
<1> QED
  BY <1>1, <1>2, <1>3, <1>4, InputAssumption
     DEF SetAuthority, TokenAccounts, MintAccounts, OptionalKey

LEMMA MintToTyped ==
    ASSUME TypeOK, NEW S, NEW mint \in Key, NEW dst \in Key, NEW amount \in U64,
           NEW expected, MintTo(S, mint, dst, amount, expected)
    PROVE  TypeOK'
<1> DEFINE d == [data[dst] EXCEPT !.amount = data[dst].amount + amount]
           e == [data[mint] EXCEPT !.supply = data[mint].supply + amount]
<1>1. data[dst] \in AccountData /\ data[mint] \in MintData
  BY KindOfAccount DEF MintTo, IsAccount, IsMint
<1>2. /\ data[dst].amount \in U64 /\ data[mint].supply \in U64
      /\ data[dst].amount + amount <= U64Max
      /\ data[mint].supply + amount <= U64Max
  BY <1>1 DEF MintTo, CheckedAddFits, AccountData, MintData
<1>3. data[dst].amount + amount \in U64 /\ data[mint].supply + amount \in U64
  BY <1>2, U64Assumption DEF U64
<1>4. d \in AccountData /\ e \in MintData
  BY <1>1, <1>3 DEF AccountData, MintData
<1>5. Pack([data EXCEPT ![dst] = d, ![mint] = e])
  BY DEF MintTo
<1> HIDE DEF d, e
<1> QED
  BY <1>4, <1>5, PackTwoTyped DEF Data

LEMMA BurnTyped ==
    ASSUME TypeOK, NEW S, NEW src \in Key, NEW mint \in Key, NEW auth \in Key,
           NEW amount \in U64, NEW expected,
           Burn(S, src, mint, auth, amount, expected)
    PROVE  TypeOK'
<1> DEFINE a == data[src]
           abandoned == IsOwnedBySystemProgramOrIncinerator(a)
           rest == IF abandoned THEN a ELSE ReduceAllowance(a, auth, amount)
           d == [rest EXCEPT !.amount = a.amount - amount]
           e == [data[mint] EXCEPT !.supply = data[mint].supply - amount]
<1>1. a \in AccountData /\ data[mint] \in MintData
  BY KindOfAccount DEF Burn, IsAccount, IsMint
<1>2. /\ a.amount \in U64 /\ data[mint].supply \in U64
      /\ amount <= a.amount /\ amount <= data[mint].supply
  BY <1>1 DEF Burn, AccountData, MintData
<1>3. a.amount - amount \in U64 /\ data[mint].supply - amount \in U64
  BY <1>2, U64Assumption DEF U64
<1>4. rest \in AccountData
  <2>1. CASE abandoned
    BY <1>1, <2>1
  <2>2. CASE ~abandoned
    <3>1. MaySpend(a, auth, amount, S)
      BY <2>2 DEF Burn
    <3> QED
      BY <1>1, <2>2, <3>1, ReduceAllowanceTyped
  <2> QED
    BY <2>1, <2>2
<1>5. Pack([data EXCEPT ![src] = d, ![mint] = e])
  BY DEF Burn
<1>6. d \in AccountData /\ e \in MintData
  <2> HIDE DEF rest
  <2> QED
    BY <1>1, <1>3, <1>4 DEF AccountData, MintData
<1> HIDE DEF d, e
<1> QED
  BY <1>5, <1>6, PackTwoTyped DEF Data

LEMMA CloseAccountTyped ==
    ASSUME TypeOK, NEW S, NEW src \in Key, NEW dst \in Key,
           CloseAccount(S, src, dst)
    PROVE  TypeOK'
<1>1. lamports[dst] + lamports[src] \in U64
  BY U64Assumption DEF CloseAccount, CheckedAddFits, TypeOK, U64
<1>2. lamports' \in [Key -> U64]
  BY <1>1, ZeroIsU64 DEF CloseAccount, TypeOK
<1>3. owner' \in [Key -> Program] /\ data' \in [Key -> Data]
  BY DEF CloseAccount, DeleteAccount, TypeOK, Program, Data
<1> QED
  BY <1>2, <1>3 DEF TypeOK

LEMMA ToggleFreezeAccountTyped ==
    ASSUME TypeOK, NEW S, NEW src \in Key, NEW mint \in Key,
           NEW freeze \in BOOLEAN, ToggleFreezeAccount(S, src, mint, freeze)
    PROVE  TypeOK'
<1> DEFINE d == [data[src] EXCEPT !.state =
                    IF freeze THEN "Frozen" ELSE "Initialized"]
<1>1. data[src] \in AccountData
  BY KindOfAccount DEF ToggleFreezeAccount, IsAccount
<1>2. d \in AccountData
  BY <1>1 DEF AccountData, AccountState
<1>3. Pack([data EXCEPT ![src] = d])
  BY DEF ToggleFreezeAccount
<1> QED
  BY <1>2, <1>3, PackTyped DEF Data

LEMMA SyncNativeTyped ==
    ASSUME TypeOK, NEW k \in Key, SyncNative(k)
    PROVE  TypeOK'
<1> DEFINE d == [data[k] EXCEPT !.amount = Wrapped(k)]
<1>1. data[k] \in AccountData
  BY KindOfAccount DEF SyncNative, IsAccount
<1>2. data[k].is_native \in U64 /\ data[k].amount \in U64 /\ lamports[k] \in U64
  BY <1>1 DEF SyncNative, IsNative, AccountData, TypeOK
<1>3. Wrapped(k) \in U64
  BY <1>2, U64Assumption DEF SyncNative, Wrapped, U64
<1>4. d \in AccountData
  BY <1>1, <1>3 DEF AccountData
<1>5. Pack([data EXCEPT ![k] = d])
  BY DEF SyncNative
<1> QED
  BY <1>4, <1>5, PackTyped DEF Data

-----------------------------------------------------------------------------
(* The whole next-state relation.                                          *)

LEMMA EnvironmentTyped ==
    ASSUME TypeOK, Environment
    PROVE  TypeOK'
<1>1. ASSUME NEW from \in Key, NEW to \in Key, NEW n \in U64,
             SystemTransfer(from, to, n)
      PROVE  TypeOK'
  BY <1>1, PayTyped DEF SystemTransfer, TypeOK
<1>2. ASSUME NEW from \in Key, NEW k \in Key, NEW zero \in Data,
             NEW program \in Program, NEW n \in U64,
             CreateAccount(from, k, zero, program, n)
      PROVE  TypeOK'
  <2>1. lamports' \in [Key -> U64]
    BY <1>2, PayTyped DEF CreateAccount
  <2> QED
    BY <1>2, <2>1 DEF CreateAccount, TypeOK
<1>3. ASSUME NEW k \in Key, NEW d \in Data, OtherProgramWrites(k, d)
      PROVE  TypeOK'
  BY <1>3 DEF OtherProgramWrites, TypeOK
<1>4. ASSUME NEW k \in Key, NEW zero \in Data, OtherProgramAssigns(k, zero)
      PROVE  TypeOK'
  BY <1>4 DEF OtherProgramAssigns, TypeOK, Program
<1>5. \A k : Layouts(k) \subseteq Data
  BY ZeroedIsData DEF Layouts, Zeroed
<1>6. EmptyData \in Data /\ {TokenProgram, OtherProgram} \subseteq Program
  BY DEF Data, Program
<1>7. /\ Signer \subseteq Key /\ ForeignKey \subseteq Key
      /\ ForeignData \subseteq Data
      /\ FundAmount \subseteq U64 /\ GiftAmount \subseteq U64
  BY ClientAssumption
<1> QED
  BY <1>1, <1>2, <1>3, <1>4, <1>5, <1>6, <1>7 DEF Environment

LEMMA PermissionlessTyped ==
    ASSUME TypeOK, Permissionless
    PROVE  TypeOK'
<1>1. ASSUME NEW k \in MultisigAccounts, NEW m \in 0 .. MaxSigners + 1,
             NEW signers \in SignerLists, InitializeMultisig(k, m, signers)
      PROVE  TypeOK'
  <2>1. PICK n \in 0 .. MaxSigners + 1 : signers \in [1 .. n -> Signer]
    BY DEF SignerLists
  <2>2. signers \in [1 .. n -> Key] /\ k \in Key
    BY <2>1, ClientAssumption DEF MultisigAccounts
  <2> QED
    BY <1>1, <2>2, InitializeMultisigTyped
<1>2. /\ MintAccounts \subseteq Key /\ TokenAccounts \subseteq Key
      /\ MintAuthorities \subseteq Key /\ Owners \subseteq Key
      /\ FreezeAuthorities \cup {None} \subseteq OptionalKey
  BY InputAssumption DEF MintAccounts, TokenAccounts, OptionalKey
<1> QED
  BY <1>1, <1>2, InitializeMintTyped, InitializeAccountTyped, SyncNativeTyped
     DEF Permissionless

LEMMA SignedByTyped ==
    ASSUME TypeOK, NEW S, SignedBy(S)
    PROVE  TypeOK'
<1>1. /\ MintAccounts \subseteq Key /\ TokenAccounts \subseteq Key
      /\ Owners \cup Delegates \subseteq Key /\ Delegates \subseteq Key
      /\ Refund \subseteq Key /\ Amount \subseteq U64 /\ Allowance \subseteq U64
  BY InputAssumption DEF MintAccounts, TokenAccounts
<1> QED
  BY <1>1, TransferTyped, ApproveTyped, RevokeTyped, SetAuthorityTyped,
     MintToTyped, BurnTyped, CloseAccountTyped, ToggleFreezeAccountTyped
     DEF SignedBy

LEMMA InitTyped == Init => TypeOK
<1> SUFFICES ASSUME Init PROVE TypeOK
  OBVIOUS
<1>1. [ZeroMint EXCEPT !.decimals = NativeDecimals, !.is_initialized = TRUE]
         \in MintData
  BY ZeroIsU64, SizeAssumption DEF ZeroMint, MintData, OptionalKey
<1>2. data \in [Key -> Data]
  BY <1>1 DEF Init, Data
<1>3. owner \in [Key -> Program]
  BY DEF Init, Program
<1>4. lamports \in [Key -> U64]
  BY ClientAssumption DEF Init
<1> QED
  BY <1>2, <1>3, <1>4 DEF TypeOK

LEMMA NextTyped ==
    ASSUME TypeOK, [Next]_vars
    PROVE  TypeOK'
<1>1. CASE Environment
  BY <1>1, EnvironmentTyped
<1>2. CASE Permissionless
  BY <1>2, PermissionlessTyped
<1>3. CASE \E S \in SUBSET Signer : SignedBy(S)
  BY <1>3, SignedByTyped
<1>4. CASE UNCHANGED vars
  BY <1>4 DEF vars, TypeOK
<1> QED
  BY <1>1, <1>2, <1>3, <1>4 DEF Next

\* The steps of the program, and accounts opened at any rent.
AnyRentNext ==
    \/ Next
    \/ \E k, mint \in Key, newOwner \in Owners, reserve \in U64 :
          OpensAt(k, mint, newOwner, reserve)

LEMMA NextIsAnyRent == [Next]_vars => [AnyRentNext]_vars
BY DEF AnyRentNext

LEMMA AnyRentTyped ==
    ASSUME TypeOK, [AnyRentNext]_vars
    PROVE  TypeOK'
BY NextTyped, OpensAtTyped, InputAssumption DEF AnyRentNext

\* No instruction of the token program, whoever signs it and whatever accounts
\* it is given, brings an account out of its layout or an amount out of u64:
\* every addition and subtraction of processor.rs stays in range.
THEOREM TokenTypeOK == Spec => []TypeOK
<1>1. TypeOK /\ [Next]_vars => TypeOK'
  BY NextTyped
<1> QED
  BY <1>1, InitTyped, PTL DEF Spec

-----------------------------------------------------------------------------
(* The inductive invariant, and what the ledger sees.                      *)

TokenInv == TypeOK /\ UnclaimedDataIsZero /\ AccountsNameMints

\* What the ledger sees of the accounts.
bars == <<supplyBar, mintOfBar, balanceBar>>

\* What is left to show of a step that keeps the types.
Refines == /\ [Ledger!Next]_bars
           /\ UnclaimedDataIsZero'
           /\ AccountsNameMints'

-----------------------------------------------------------------------------
(* Steps that the ledger does not see.                                     *)

\* The address k means the same to the ledger after the step, its mint or its
\* account included.
Unmoved(k) ==
    /\ IsLiveMint(k)' <=> IsLiveMint(k)
    /\ IsLiveMint(k) => data'[k].supply = data[k].supply
    /\ IsLiveAccount(k)' <=> IsLiveAccount(k)
    /\ IsLiveAccount(k) =>
          /\ data'[k].mint = data[k].mint
          /\ data'[k].is_native = data[k].is_native
          /\ IsNative(data[k]) \/ data'[k].amount = data[k].amount

LEMMA UntouchedUnmoved ==
    ASSUME NEW k \in Key, owner'[k] = owner[k], data'[k] = data[k]
    PROVE  Unmoved(k)
BY DEF Unmoved, IsLiveMint, IsLiveAccount

LEMMA UnmovedStutters ==
    ASSUME \A k \in Key : Unmoved(k)
    PROVE  UNCHANGED bars
<1>1. \A k \in Key : IsHolder(k)' <=> IsHolder(k)
  BY DEF Unmoved, IsHolder, IsNative
<1>2. \A k \in Key : IsHolder(k) => data'[k].mint = data[k].mint
                                     /\ data'[k].amount = data[k].amount
  BY DEF Unmoved, IsHolder
<1>3. supplyBar' = supplyBar
  BY DEF Unmoved, supplyBar
<1>4. mintOfBar' = mintOfBar
  BY <1>1, <1>2 DEF mintOfBar
<1>5. balanceBar' = balanceBar
  BY <1>1, <1>2 DEF balanceBar
<1> QED
  BY <1>3, <1>4, <1>5 DEF bars

\* The account at k and its mint are as AccountsNameMints wants them.
FollowsItsMint(k) ==
    IF IsNative(data[k])
    THEN data[k].mint = NativeMint
    ELSE data[k].mint # NativeMint /\ IsLiveMint(data[k].mint)

\* Accounts go on following their mints if no mint is lost and the accounts
\* that are not new keep to theirs.
LEMMA FollowingKept ==
    ASSUME TypeOK, AccountsNameMints,
           \A m \in Key : IsLiveMint(m) => IsLiveMint(m)',
           \A k \in Key : IsLiveAccount(k)' =>
              \/ FollowsItsMint(k)'
              \/ /\ IsLiveAccount(k)
                 /\ data'[k].mint = data[k].mint
                 /\ data'[k].is_native = data[k].is_native
    PROVE  AccountsNameMints'
<1> SUFFICES ASSUME NEW k \in Key, IsLiveAccount(k)'
             PROVE  FollowsItsMint(k)'
  BY DEF AccountsNameMints, FollowsItsMint
<1>1. CASE FollowsItsMint(k)'
  BY <1>1
<1>2. CASE /\ IsLiveAccount(k)
           /\ data'[k].mint = data[k].mint
           /\ data'[k].is_native = data[k].is_native
  <2>1. data[k].mint \in Key
    BY <1>2, KindOfAccount DEF IsLiveAccount, IsAccount, AccountData
  <2>2. IsLiveMint(data[k].mint) => IsLiveMint(data[k].mint)'
    BY <1>2, <2>1 DEF IsLiveMint
  <2> QED
    BY <1>2, <2>2 DEF AccountsNameMints, FollowsItsMint, IsNative
<1> QED
  BY <1>1, <1>2

LEMMA UnmovedKeepsMints ==
    ASSUME TypeOK, AccountsNameMints, \A k \in Key : Unmoved(k)
    PROVE  AccountsNameMints'
<1>1. \A m \in Key : IsLiveMint(m) => IsLiveMint(m)'
  BY DEF Unmoved
<1>2. \A k \in Key : IsLiveAccount(k)' =>
         /\ IsLiveAccount(k)
         /\ data'[k].mint = data[k].mint
         /\ data'[k].is_native = data[k].is_native
  BY DEF Unmoved
<1> QED
  BY <1>1, <1>2, FollowingKept

\* A handler that rewrites one account and neither its mint nor, unless it is
\* native, its amount.
LEMMA AccountRewritten ==
    ASSUME TokenInv, NEW k \in Key, NEW d,
           IsAccount(data[k]), IsAccount(d),
           d.mint = data[k].mint, d.is_native = data[k].is_native,
           IsNative(d) \/ d.amount = data[k].amount,
           Pack([data EXCEPT ![k] = d])
    PROVE  Refines
<1>1. /\ data'[k] = d /\ owner' = owner
      /\ \A j \in Key \ {k} : data'[j] = data[j]
  BY DEF Pack, TokenInv, TypeOK
<1>2. Unmoved(k)
  <2>1. d.kind = "account" /\ data[k].kind = "account"
    BY DEF IsAccount
  <2>2. ~IsLiveMint(k) /\ ~IsLiveMint(k)'
    BY <1>1, <2>1 DEF IsLiveMint, IsMint
  <2>3. IsLiveAccount(k)' <=> IsLiveAccount(k)
    BY <1>1 DEF IsLiveAccount
  <2> QED
    BY <1>1, <2>2, <2>3 DEF Unmoved, IsNative
<1>3. \A j \in Key : Unmoved(j)
  BY <1>1, <1>2, UntouchedUnmoved
<1>4. UnclaimedDataIsZero'
  BY <1>1 DEF TokenInv, UnclaimedDataIsZero
<1> QED
  BY <1>3, <1>4, UnmovedStutters, UnmovedKeepsMints DEF Refines, TokenInv

\* A handler that rewrites one mint and not its supply.
LEMMA MintRewritten ==
    ASSUME TokenInv, NEW k \in Key, NEW d,
           IsMint(data[k]), IsMint(d), d.supply = data[k].supply,
           Pack([data EXCEPT ![k] = d])
    PROVE  Refines
<1>1. /\ data'[k] = d /\ owner' = owner
      /\ \A j \in Key \ {k} : data'[j] = data[j]
  BY DEF Pack, TokenInv, TypeOK
<1>2. Unmoved(k)
  <2>1. d.kind = "mint" /\ data[k].kind = "mint"
    BY DEF IsMint
  <2>2. ~IsLiveAccount(k) /\ ~IsLiveAccount(k)'
    BY <1>1, <2>1 DEF IsLiveAccount, IsAccount
  <2>3. IsLiveMint(k)' <=> IsLiveMint(k)
    BY <1>1 DEF IsLiveMint
  <2> QED
    BY <1>1, <2>2, <2>3 DEF Unmoved
<1>3. \A j \in Key : Unmoved(j)
  BY <1>1, <1>2, UntouchedUnmoved
<1>4. UnclaimedDataIsZero'
  BY <1>1 DEF TokenInv, UnclaimedDataIsZero
<1> QED
  BY <1>3, <1>4, UnmovedStutters, UnmovedKeepsMints DEF Refines, TokenInv

LEMMA ApproveRefines ==
    ASSUME TokenInv, NEW S, NEW src \in Key, NEW delegate, NEW amount,
           NEW expected, Approve(S, src, delegate, amount, expected)
    PROVE  Refines
<1> DEFINE d == [data[src] EXCEPT !.delegate = delegate,
                                  !.delegated_amount = amount]
<1>1. data[src] \in AccountData
  BY KindOfAccount DEF Approve, IsAccount, TokenInv
<1>2. /\ d.kind = data[src].kind /\ d.state = data[src].state
      /\ d.mint = data[src].mint /\ d.is_native = data[src].is_native
      /\ d.amount = data[src].amount
  BY <1>1 DEF AccountData
<1>3. IsAccount(data[src]) /\ Pack([data EXCEPT ![src] = d])
  BY DEF Approve
<1> HIDE DEF d
<1> QED
  BY <1>2, <1>3, AccountRewritten DEF IsAccount

LEMMA RevokeRefines ==
    ASSUME TokenInv, NEW S, NEW src \in Key, Revoke(S, src)
    PROVE  Refines
<1> DEFINE d == [data[src] EXCEPT !.delegate = None, !.delegated_amount = 0]
<1>1. data[src] \in AccountData
  BY KindOfAccount DEF Revoke, IsAccount, TokenInv
<1>2. /\ d.kind = data[src].kind /\ d.state = data[src].state
      /\ d.mint = data[src].mint /\ d.is_native = data[src].is_native
      /\ d.amount = data[src].amount
  BY <1>1 DEF AccountData
<1>3. IsAccount(data[src]) /\ Pack([data EXCEPT ![src] = d])
  BY DEF Revoke
<1> HIDE DEF d
<1> QED
  BY <1>2, <1>3, AccountRewritten DEF IsAccount

LEMMA ToggleFreezeAccountRefines ==
    ASSUME TokenInv, NEW S, NEW src \in Key, NEW mint, NEW freeze,
           ToggleFreezeAccount(S, src, mint, freeze)
    PROVE  Refines
<1> DEFINE d == [data[src] EXCEPT !.state =
                    IF freeze THEN "Frozen" ELSE "Initialized"]
<1>1. data[src] \in AccountData
  BY KindOfAccount DEF ToggleFreezeAccount, IsAccount, TokenInv
<1>2. /\ d.kind = data[src].kind /\ d.state # "Uninitialized"
      /\ d.mint = data[src].mint /\ d.is_native = data[src].is_native
      /\ d.amount = data[src].amount
  BY <1>1 DEF AccountData
<1>3. IsAccount(data[src]) /\ Pack([data EXCEPT ![src] = d])
  BY DEF ToggleFreezeAccount
<1> HIDE DEF d
<1> QED
  BY <1>2, <1>3, AccountRewritten DEF IsAccount

LEMMA SyncNativeRefines ==
    ASSUME TokenInv, NEW k \in Key, SyncNative(k)
    PROVE  Refines
<1> DEFINE d == [data[k] EXCEPT !.amount = Wrapped(k)]
<1>1. data[k] \in AccountData
  BY KindOfAccount DEF SyncNative, IsAccount, TokenInv
<1>2. /\ d.kind = data[k].kind /\ d.state = data[k].state
      /\ d.mint = data[k].mint /\ d.is_native = data[k].is_native
  BY <1>1 DEF AccountData
<1>3. IsAccount(data[k]) /\ IsNative(data[k]) /\ Pack([data EXCEPT ![k] = d])
  BY DEF SyncNative
<1> HIDE DEF d
<1> QED
  BY <1>2, <1>3, AccountRewritten DEF IsAccount, IsNative

LEMMA SetAuthorityRefines ==
    ASSUME TokenInv, NEW S, SetAuthority(S)
    PROVE  Refines
<1>1. ASSUME NEW k \in Key, NEW new, SetAccountOwner(S, k, new)
      PROVE  Refines
  <2> DEFINE d == HandOver(data[k], new)
  <2>1. data[k] \in AccountData
    BY <1>1, KindOfAccount DEF SetAccountOwner, IsAccount, TokenInv
  <2>2. /\ d.kind = data[k].kind /\ d.state = data[k].state
        /\ d.mint = data[k].mint /\ d.is_native = data[k].is_native
        /\ d.amount = data[k].amount
    BY <2>1 DEF AccountData, HandOver
  <2>3. IsAccount(data[k]) /\ Pack([data EXCEPT ![k] = d])
    BY <1>1 DEF SetAccountOwner
  <2> HIDE DEF d
  <2> QED
    BY <2>2, <2>3, AccountRewritten DEF IsAccount
<1>2. ASSUME NEW k \in Key, NEW new, SetCloseAuthority(S, k, new)
      PROVE  Refines
  <2> DEFINE d == [data[k] EXCEPT !.close_authority = new]
  <2>1. data[k] \in AccountData
    BY <1>2, KindOfAccount DEF SetCloseAuthority, IsAccount, TokenInv
  <2>2. /\ d.kind = data[k].kind /\ d.state = data[k].state
        /\ d.mint = data[k].mint /\ d.is_native = data[k].is_native
        /\ d.amount = data[k].amount
    BY <2>1 DEF AccountData
  <2>3. IsAccount(data[k]) /\ Pack([data EXCEPT ![k] = d])
    BY <1>2 DEF SetCloseAuthority
  <2> HIDE DEF d
  <2> QED
    BY <2>2, <2>3, AccountRewritten DEF IsAccount
<1>3. ASSUME NEW k \in Key, NEW new, SetMintAuthority(S, k, new)
      PROVE  Refines
  <2> DEFINE d == [data[k] EXCEPT !.mint_authority = new]
  <2>1. data[k] \in MintData
    BY <1>3, KindOfAccount DEF SetMintAuthority, IsMint, TokenInv
  <2>2. /\ d.kind = data[k].kind /\ d.is_initialized = data[k].is_initialized
        /\ d.supply = data[k].supply
    BY <2>1 DEF MintData
  <2>3. IsMint(data[k]) /\ Pack([data EXCEPT ![k] = d])
    BY <1>3 DEF SetMintAuthority
  <2> HIDE DEF d
  <2> QED
    BY <2>2, <2>3, MintRewritten DEF IsMint
<1>4. ASSUME NEW k \in Key, NEW new, SetFreezeAuthority(S, k, new)
      PROVE  Refines
  <2> DEFINE d == [data[k] EXCEPT !.freeze_authority = new]
  <2>1. data[k] \in MintData
    BY <1>4, KindOfAccount DEF SetFreezeAuthority, IsMint, TokenInv
  <2>2. /\ d.kind = data[k].kind /\ d.is_initialized = data[k].is_initialized
        /\ d.supply = data[k].supply
    BY <2>1 DEF MintData
  <2>3. IsMint(data[k]) /\ Pack([data EXCEPT ![k] = d])
    BY <1>4 DEF SetFreezeAuthority
  <2> HIDE DEF d
  <2> QED
    BY <2>2, <2>3, MintRewritten DEF IsMint
<1> QED
  BY <1>1, <1>2, <1>3, <1>4 DEF SetAuthority, TokenAccounts, MintAccounts

-----------------------------------------------------------------------------
(* Initializers and the environment.                                       *)

\* The environment only touches addresses that hold nothing of the ledger,
\* and leaves nothing of it there.
LEMMA BlankRewritten ==
    ASSUME TokenInv, NEW k \in Key,
           \A j \in Key \ {k} : data'[j] = data[j] /\ owner'[j] = owner[j],
           ~IsLiveMint(k), ~IsLiveMint(k)',
           ~IsLiveAccount(k), ~IsLiveAccount(k)',
           \/ owner'[k] # TokenProgram
           \/ data'[k] \in Zeroed
           \/ IsMultisig(data'[k])
    PROVE  Refines
<1>1. \A j \in Key : Unmoved(j)
  BY UntouchedUnmoved DEF Unmoved
<1>2. UnclaimedDataIsZero'
  BY DEF TokenInv, UnclaimedDataIsZero
<1> QED
  BY <1>1, <1>2, UnmovedStutters, UnmovedKeepsMints DEF Refines, TokenInv

LEMMA ZeroedIsBlank ==
    ASSUME NEW d \in Zeroed
    PROVE  ~IsMint(d) /\ ~IsAccount(d) /\ ~IsMultisig(d)
BY DEF Zeroed, EmptyData, ZeroMint, ZeroAccount, ZeroMultisig,
       IsMint, IsAccount, IsMultisig

LEMMA EnvironmentRefines ==
    ASSUME TokenInv, Environment
    PROVE  Refines
<1>1. ASSUME NEW from \in Key, NEW to \in Key, NEW n, SystemTransfer(from, to, n)
      PROVE  Refines
  <2>1. owner' = owner /\ data' = data
    BY <1>1 DEF SystemTransfer
  <2>2. \A k \in Key : Unmoved(k)
    BY <2>1, UntouchedUnmoved
  <2>3. UnclaimedDataIsZero'
    BY <2>1 DEF TokenInv, UnclaimedDataIsZero
  <2> QED
    BY <2>2, <2>3, UnmovedStutters, UnmovedKeepsMints DEF Refines, TokenInv
<1>2. ASSUME NEW from \in Key, NEW k \in Key, NEW zero \in Zeroed, NEW program,
             NEW n, CreateAccount(from, k, zero, program, n)
      PROVE  Refines
  <2>1. /\ data'[k] = zero /\ data[k] = EmptyData
        /\ \A j \in Key \ {k} : data'[j] = data[j] /\ owner'[j] = owner[j]
    BY <1>2 DEF CreateAccount, IsWallet, TokenInv, TypeOK
  <2>2. ~IsLiveMint(k) /\ ~IsLiveAccount(k)
    BY <2>1 DEF IsLiveMint, IsLiveAccount, IsMint, IsAccount, EmptyData
  <2>3. ~IsLiveMint(k)' /\ ~IsLiveAccount(k)'
    BY <2>1, ZeroedIsBlank DEF IsLiveMint, IsLiveAccount
  <2> QED
    BY <2>1, <2>2, <2>3, BlankRewritten
<1>3. ASSUME NEW k \in Key, NEW d, OtherProgramWrites(k, d)
      PROVE  Refines
  <2>1. /\ owner[k] = OtherProgram /\ owner'[k] = OtherProgram
        /\ \A j \in Key \ {k} : data'[j] = data[j] /\ owner'[j] = owner[j]
    BY <1>3 DEF OtherProgramWrites, TokenInv, TypeOK
  <2>2. OtherProgram # TokenProgram
    BY ProgramAssumption
  <2>3. /\ ~IsLiveMint(k) /\ ~IsLiveAccount(k)
        /\ ~IsLiveMint(k)' /\ ~IsLiveAccount(k)'
    BY <2>1, <2>2 DEF IsLiveMint, IsLiveAccount
  <2> QED
    BY <2>1, <2>2, <2>3, BlankRewritten
<1>4. ASSUME NEW k \in Key, NEW zero \in Zeroed, OtherProgramAssigns(k, zero)
      PROVE  Refines
  <2>1. /\ owner[k] = OtherProgram /\ data'[k] = zero
        /\ \A j \in Key \ {k} : data'[j] = data[j] /\ owner'[j] = owner[j]
    BY <1>4 DEF OtherProgramAssigns, TokenInv, TypeOK
  <2>2. ~IsLiveMint(k) /\ ~IsLiveAccount(k)
    BY <2>1, ProgramAssumption DEF IsLiveMint, IsLiveAccount
  <2>3. ~IsLiveMint(k)' /\ ~IsLiveAccount(k)'
    BY <2>1, ZeroedIsBlank DEF IsLiveMint, IsLiveAccount
  <2> QED
    BY <2>1, <2>2, <2>3, BlankRewritten
<1>5. /\ \A k : Layouts(k) \subseteq Zeroed
      /\ EmptyData \in Zeroed
  BY DEF Layouts, Zeroed
<1>6. Signer \subseteq Key /\ ForeignKey \subseteq Key
  BY ClientAssumption
<1> QED
  BY <1>1, <1>2, <1>3, <1>4, <1>5, <1>6 DEF Environment

LEMMA InitializeMultisigRefines ==
    ASSUME TokenInv, NEW k \in Key, NEW m, NEW signers,
           InitializeMultisig(k, m, signers)
    PROVE  Refines
<1> DEFINE d == [kind |-> "multisig", m |-> m, is_initialized |-> TRUE,
                 signers |-> signers]
<1>1. /\ data'[k] = d /\ owner' = owner
      /\ \A j \in Key \ {k} : data'[j] = data[j]
  BY DEF InitializeMultisig, Pack, TokenInv, TypeOK
<1>2. data[k].kind = "multisig" /\ d.kind = "multisig" /\ IsMultisig(d)
  BY DEF InitializeMultisig, IsMultisig
<1>3. /\ ~IsLiveMint(k) /\ ~IsLiveAccount(k)
      /\ ~IsLiveMint(k)' /\ ~IsLiveAccount(k)'
  BY <1>1, <1>2 DEF IsLiveMint, IsLiveAccount, IsMint, IsAccount
<1> QED
  BY <1>1, <1>2, <1>3, BlankRewritten

\* Writing a mint the program has to own it, so it was zero: a new mint
\* starts without supply.
LEMMA InitializeMintRefines ==
    ASSUME TokenInv, NEW k \in Key, NEW decimals, NEW mintAuthority,
           NEW freezeAuthority,
           InitializeMint(k, decimals, mintAuthority, freezeAuthority)
    PROVE  Refines
<1> DEFINE d == [data[k] EXCEPT !.mint_authority = mintAuthority,
                                !.decimals = decimals,
                                !.is_initialized = TRUE,
                                !.freeze_authority = freezeAuthority]
<1>1. data[k] \in MintData /\ data[k].kind = "mint" /\ ~IsMint(data[k])
  BY KindOfAccount DEF InitializeMint, AlreadyInUse, TokenInv
<1>2. d.kind = "mint" /\ d.is_initialized = TRUE /\ d.supply = data[k].supply
  BY <1>1 DEF MintData
<1>3. Pack([data EXCEPT ![k] = d])
  BY DEF InitializeMint
<1> HIDE DEF d
<1>4. /\ data'[k] = d /\ owner' = owner
      /\ \A j \in Key \ {k} : data'[j] = data[j]
  BY <1>3 DEF Pack, TokenInv, TypeOK
<1>5. owner[k] = TokenProgram
  <2>1. d # data[k]
    BY <1>1, <1>2 DEF IsMint
  <2> QED
    BY <1>3, <1>4, <2>1 DEF Pack, RuntimeAccepts
<1>6. data[k].supply = 0
  BY <1>1, <1>5
     DEF TokenInv, UnclaimedDataIsZero, IsAccount, IsMultisig, Zeroed,
         EmptyData, ZeroMint, ZeroAccount, ZeroMultisig
<1>7. /\ ~IsLiveMint(k) /\ IsLiveMint(k)'
      /\ ~IsLiveAccount(k) /\ ~IsLiveAccount(k)'
  BY <1>1, <1>2, <1>4, <1>5 DEF IsLiveMint, IsLiveAccount, IsMint, IsAccount
<1>8. Ledger!CreateMint(k)
  <2>1. supplyBar[k] = None /\ data'[k].supply = 0
    BY <1>2, <1>4, <1>6, <1>7 DEF supplyBar
  <2>2. supplyBar' = [supplyBar EXCEPT ![k] = 0]
    BY <1>4, <1>7, <2>1 DEF supplyBar, IsLiveMint
  <2>3. \A j \in Key : IsHolder(j)' <=> IsHolder(j)
    BY <1>4, <1>7 DEF IsHolder, IsLiveAccount
  <2>4. \A j \in Key : IsHolder(j) => data'[j] = data[j]
    BY <1>4, <1>7 DEF IsHolder
  <2>5. mintOfBar' = mintOfBar /\ balanceBar' = balanceBar
    BY <2>3, <2>4 DEF mintOfBar, balanceBar
  <2> QED
    BY <2>1, <2>2, <2>5 DEF Ledger!CreateMint
<1>9. UnclaimedDataIsZero'
  BY <1>2, <1>4 DEF TokenInv, UnclaimedDataIsZero, IsMint
<1>10. AccountsNameMints'
  <2>1. \A m \in Key : IsLiveMint(m) => IsLiveMint(m)'
    BY <1>4, <1>7 DEF IsLiveMint
  <2>2. \A j \in Key : IsLiveAccount(j)' =>
           IsLiveAccount(j) /\ data'[j] = data[j]
    BY <1>4, <1>7 DEF IsLiveAccount
  <2> QED
    BY <2>1, <2>2, FollowingKept DEF TokenInv
<1> QED
  BY <1>8, <1>9, <1>10 DEF Refines, Ledger!Next

LEMMA SupplyIsNoOption ==
    ASSUME TypeOK, NEW m \in Key, IsLiveMint(m)
    PROVE  supplyBar[m] = data[m].supply /\ supplyBar[m] \in U64 /\ supplyBar[m] # None
<1>1. data[m] \in MintData
  BY KindOfAccount DEF IsLiveMint, IsMint
<1>2. data[m].supply \in U64 /\ supplyBar[m] = data[m].supply
  BY <1>1 DEF MintData, supplyBar
<1>3. \A n \in U64 : n # None
  BY KeyAssumption, U64Assumption DEF U64
<1> QED
  BY <1>2, <1>3

LEMMA OpensAtRefines ==
    ASSUME TokenInv, NEW k \in Key, NEW mint \in Key, NEW newOwner,
           NEW reserve \in U64, OpensAt(k, mint, newOwner, reserve)
    PROVE  Refines
<1> DEFINE native == mint = NativeMint
           d == [kind |-> "account", mint |-> mint, owner |-> newOwner,
                 amount |-> IF native THEN lamports[k] - reserve ELSE 0,
                 delegate |-> None, state |-> "Initialized",
                 is_native |-> IF native THEN reserve ELSE None,
                 delegated_amount |-> 0, close_authority |-> None]
<1>1. data[k].kind = "account" /\ ~IsAccount(data[k])
  BY DEF OpensAt, AlreadyInUse
<1>2. /\ d.kind = "account" /\ d.state # "Uninitialized" /\ d.mint = mint
      /\ IsNative(d) <=> native
      /\ ~native => d.amount = 0
  <2>1. reserve # None
    BY KeyAssumption, U64Assumption DEF U64
  <2> QED
    BY <2>1 DEF IsNative
<1>3. Pack([data EXCEPT ![k] = d])
  BY DEF OpensAt
<1> HIDE DEF d
<1>4. /\ data'[k] = d /\ owner' = owner
      /\ \A j \in Key \ {k} : data'[j] = data[j]
  BY <1>3 DEF Pack, TokenInv, TypeOK
<1>5. owner[k] = TokenProgram
  <2>1. d # data[k]
    BY <1>1, <1>2 DEF IsAccount
  <2> QED
    BY <1>3, <1>4, <2>1 DEF Pack, RuntimeAccepts
<1>6. /\ ~IsLiveAccount(k) /\ IsLiveAccount(k)'
      /\ ~IsLiveMint(k) /\ ~IsLiveMint(k)'
  BY <1>1, <1>2, <1>4, <1>5 DEF IsLiveMint, IsLiveAccount, IsMint, IsAccount
<1>7. /\ \A m \in Key : IsLiveMint(m)' <=> IsLiveMint(m)
      /\ \A m \in Key : IsLiveMint(m) => data'[m] = data[m]
  BY <1>4, <1>6 DEF IsLiveMint
<1>8. supplyBar' = supplyBar
  BY <1>7 DEF supplyBar
<1>9. \A j \in Key \ {k} : /\ IsLiveAccount(j)' <=> IsLiveAccount(j)
                           /\ IsHolder(j)' <=> IsHolder(j)
  BY <1>4 DEF IsHolder, IsLiveAccount
<1>10. ~native => IsLiveMint(mint)
  BY DEF OpensAt, IsValidMint, CheckAccountOwner, IsLiveMint
<1>11. [Ledger!Next]_bars
  <2>1. ~IsHolder(k) /\ (IsHolder(k)' <=> ~native)
    BY <1>2, <1>4, <1>6 DEF IsHolder, IsNative
  <2>2. CASE native
    <3>1. mintOfBar' = mintOfBar /\ balanceBar' = balanceBar
      BY <1>4, <1>9, <2>1, <2>2 DEF mintOfBar, balanceBar
    <3> QED
      BY <1>8, <3>1 DEF bars
  <2>3. CASE ~native
    <3>1. supplyBar[mint] # None
      BY <1>10, <2>3, SupplyIsNoOption DEF TokenInv
    <3>2. mintOfBar[k] = None
      BY <2>1 DEF mintOfBar
    <3>3. mintOfBar' = [mintOfBar EXCEPT ![k] = mint]
      BY <1>2, <1>4, <1>9, <2>1, <2>3 DEF mintOfBar
    <3>4. balanceBar' = balanceBar
      BY <1>2, <1>4, <1>9, <2>1, <2>3 DEF balanceBar
    <3>5. Ledger!Open(k, mint)
      BY <1>8, <3>1, <3>2, <3>3, <3>4 DEF Ledger!Open
    <3> QED
      BY <3>5 DEF Ledger!Next
  <2> QED
    BY <2>2, <2>3
<1>12. UnclaimedDataIsZero'
  BY <1>2, <1>4 DEF TokenInv, UnclaimedDataIsZero, IsAccount
<1>13. AccountsNameMints'
  <2>1. FollowsItsMint(k)'
    <3>1. native => FollowsItsMint(k)'
      BY <1>2, <1>4 DEF FollowsItsMint, IsNative
    <3>2. ~native => FollowsItsMint(k)'
      BY <1>2, <1>4, <1>7, <1>10 DEF FollowsItsMint, IsNative, IsLiveMint
    <3> QED
      BY <3>1, <3>2
  <2>2. \A j \in Key \ {k} : IsLiveAccount(j)' =>
           /\ IsLiveAccount(j)
           /\ data'[j].mint = data[j].mint
           /\ data'[j].is_native = data[j].is_native
    BY <1>4, <1>9
  <2>3. \A m \in Key : IsLiveMint(m) => IsLiveMint(m)'
    BY <1>7
  <2> QED
    BY <2>1, <2>2, <2>3, FollowingKept DEF TokenInv
<1> QED
  BY <1>11, <1>12, <1>13 DEF Refines

LEMMA InitializeAccountRefines ==
    ASSUME TokenInv, NEW k \in Key, NEW mint \in Key, NEW newOwner,
           InitializeAccount(k, mint, newOwner)
    PROVE  Refines
BY OpensAtRefines, InitializeAccountOpens, ClientAssumption

-----------------------------------------------------------------------------
(* Closing, minting, burning and transferring.                             *)

LEMMA CloseAccountRefines ==
    ASSUME TokenInv, NEW S, NEW src \in Key, NEW dst \in Key,
           CloseAccount(S, src, dst)
    PROVE  Refines
<1>1. /\ IsAccount(data[src])
      /\ data'[src] = EmptyData /\ owner'[src] = SystemProgram
      /\ \A j \in Key \ {src} : data'[j] = data[j] /\ owner'[j] = owner[j]
  BY DEF CloseAccount, DeleteAccount, TokenInv, TypeOK
<1>2. owner[src] = TokenProgram /\ SystemProgram # TokenProgram
  <2>1. data'[src] # data[src]
    BY <1>1 DEF EmptyData, IsAccount
  <2> QED
    BY <2>1, ProgramAssumption DEF CloseAccount, RuntimeAccepts
<1>3. /\ IsLiveAccount(src) /\ ~IsLiveAccount(src)'
      /\ ~IsLiveMint(src) /\ ~IsLiveMint(src)'
  BY <1>1, <1>2 DEF IsLiveMint, IsLiveAccount, IsMint, IsAccount
<1>4. /\ \A m \in Key : IsLiveMint(m)' <=> IsLiveMint(m)
      /\ \A m \in Key : IsLiveMint(m) => data'[m] = data[m]
  BY <1>1, <1>3 DEF IsLiveMint
<1>5. \A j \in Key \ {src} : /\ IsLiveAccount(j)' <=> IsLiveAccount(j)
                             /\ IsHolder(j)' <=> IsHolder(j)
  BY <1>1 DEF IsHolder, IsLiveAccount
<1>6. supplyBar' = supplyBar
  BY <1>4 DEF supplyBar
<1>7. [Ledger!Next]_bars
  <2>1. ~IsHolder(src)'
    BY <1>3 DEF IsHolder
  <2>2. CASE IsNative(data[src])
    <3>1. ~IsHolder(src)
      BY <2>2 DEF IsHolder
    <3>2. mintOfBar' = mintOfBar /\ balanceBar' = balanceBar
      BY <1>1, <1>5, <2>1, <3>1 DEF mintOfBar, balanceBar
    <3> QED
      BY <1>6, <3>2 DEF bars
  <2>3. CASE ~IsNative(data[src])
    <3>1. IsHolder(src) /\ data[src].amount = 0
      BY <1>3, <2>3 DEF IsHolder, CloseAccount, IsClosable
    <3>2. data[src] \in AccountData
      BY <1>1, KindOfAccount DEF TokenInv, IsAccount
    <3>3. mintOfBar[src] # None
      BY <3>1, <3>2, KeyAssumption DEF mintOfBar, AccountData
    <3>4. balanceBar[src] = 0
      BY <3>1 DEF balanceBar
    <3>5. mintOfBar' = [mintOfBar EXCEPT ![src] = None]
      BY <1>1, <1>5, <2>1 DEF mintOfBar
    <3>6. balanceBar' = balanceBar
      BY <1>1, <1>5, <2>1, <3>1 DEF balanceBar
    <3>7. Ledger!Close(src)
      BY <1>6, <3>3, <3>4, <3>5, <3>6 DEF Ledger!Close
    <3> QED
      BY <3>7 DEF Ledger!Next
  <2> QED
    BY <2>2, <2>3
<1>8. UnclaimedDataIsZero'
  BY <1>1, <1>2 DEF TokenInv, UnclaimedDataIsZero
<1>9. AccountsNameMints'
  <2>1. \A j \in Key : IsLiveAccount(j)' => IsLiveAccount(j) /\ data'[j] = data[j]
    BY <1>1, <1>3, <1>5
  <2> QED
    BY <1>4, <2>1, FollowingKept DEF TokenInv
<1> QED
  BY <1>7, <1>8, <1>9 DEF Refines

\* What a handler that writes a holder's balance and its mint's supply does to
\* the ledger.
LEMMA HolderAndMintRewritten ==
    ASSUME TokenInv, NEW h \in Key, NEW m \in Key, NEW d, NEW e,
           IsLiveAccount(h), ~IsNative(data[h]), data[h].mint = m,
           IsLiveMint(m),
           IsAccount(d), d.mint = m, d.is_native = data[h].is_native,
           IsMint(e),
           Pack([data EXCEPT ![h] = d, ![m] = e])
    PROVE  /\ mintOfBar[h] = m /\ mintOfBar[h] # None
           /\ supplyBar[m] = data[m].supply
           /\ balanceBar[h] = data[h].amount
           /\ mintOfBar' = mintOfBar
           /\ supplyBar' = [supplyBar EXCEPT ![m] = e.supply]
           /\ balanceBar' = [balanceBar EXCEPT ![h] = d.amount]
           /\ UnclaimedDataIsZero'
           /\ AccountsNameMints'
<1>1. h # m
  BY DEF IsLiveAccount, IsLiveMint, IsAccount, IsMint
<1>2. /\ data'[h] = d /\ data'[m] = e /\ owner' = owner
      /\ \A j \in Key \ {h, m} : data'[j] = data[j]
  BY <1>1 DEF Pack, TokenInv, TypeOK
<1>3. /\ IsLiveAccount(h)' /\ IsLiveMint(m)'
      /\ ~IsLiveMint(h) /\ ~IsLiveMint(h)'
      /\ ~IsLiveAccount(m) /\ ~IsLiveAccount(m)'
  BY <1>2 DEF IsLiveAccount, IsLiveMint, IsAccount, IsMint
<1>4. \A j \in Key : /\ IsLiveMint(j)' <=> IsLiveMint(j)
                     /\ IsLiveAccount(j)' <=> IsLiveAccount(j)
  BY <1>2, <1>3 DEF IsLiveAccount, IsLiveMint
<1>5. /\ IsHolder(h) /\ IsHolder(h)'
      /\ \A j \in Key : IsHolder(j)' <=> IsHolder(j)
  BY <1>2, <1>3, <1>4 DEF IsHolder, IsNative
<1>6. \A j \in Key : IsHolder(j) /\ j # h => data'[j] = data[j]
  BY <1>2, <1>3 DEF IsHolder
<1>7. mintOfBar' = mintOfBar
  BY <1>2, <1>5, <1>6 DEF mintOfBar
<1>8. balanceBar' = [balanceBar EXCEPT ![h] = d.amount]
  BY <1>2, <1>5, <1>6 DEF balanceBar
<1>9. supplyBar' = [supplyBar EXCEPT ![m] = e.supply]
  <2>1. \A j \in Key : IsLiveMint(j) /\ j # m => data'[j] = data[j]
    BY <1>2, <1>3
  <2> QED
    BY <1>2, <1>3, <1>4, <2>1 DEF supplyBar
<1>10. /\ mintOfBar[h] = m /\ mintOfBar[h] # None
       /\ supplyBar[m] = data[m].supply
       /\ balanceBar[h] = data[h].amount
  BY <1>5, KeyAssumption DEF mintOfBar, supplyBar, balanceBar
<1>11. UnclaimedDataIsZero'
  BY <1>2 DEF TokenInv, UnclaimedDataIsZero
<1>12. AccountsNameMints'
  <2>1. \A j \in Key : IsLiveAccount(j)' =>
           /\ IsLiveAccount(j)
           /\ data'[j].mint = data[j].mint
           /\ data'[j].is_native = data[j].is_native
    BY <1>2, <1>3, <1>4
  <2> QED
    BY <1>4, <2>1, FollowingKept DEF TokenInv
<1> QED
  BY <1>7, <1>8, <1>9, <1>10, <1>11, <1>12

LEMMA MintToRefines ==
    ASSUME TokenInv, NEW S, NEW mint \in Key, NEW dst \in Key,
           NEW amount \in U64, NEW expected,
           MintTo(S, mint, dst, amount, expected)
    PROVE  Refines
<1> DEFINE d == [data[dst] EXCEPT !.amount = data[dst].amount + amount]
           e == [data[mint] EXCEPT !.supply = data[mint].supply + amount]
<1>1. data[dst] \in AccountData /\ data[mint] \in MintData
  BY KindOfAccount DEF MintTo, IsAccount, IsMint, TokenInv
<1>2. /\ IsAccount(data[dst]) /\ ~IsNative(data[dst]) /\ data[dst].mint = mint
      /\ IsMint(data[mint])
      /\ data[mint].supply + amount <= U64Max
      /\ Pack([data EXCEPT ![dst] = d, ![mint] = e])
  BY DEF MintTo, CheckedAddFits
<1>3. /\ d.kind = data[dst].kind /\ d.state = data[dst].state
      /\ d.mint = mint /\ d.is_native = data[dst].is_native
      /\ d.amount = data[dst].amount + amount
      /\ e.kind = data[mint].kind
      /\ e.is_initialized = data[mint].is_initialized
      /\ e.supply = data[mint].supply + amount
  BY <1>1, <1>2 DEF AccountData, MintData
<1>4. data[dst].amount \in Nat /\ data[mint].supply \in Nat /\ amount \in Nat
  BY <1>1, U64Assumption DEF AccountData, MintData, U64
<1> HIDE DEF d, e
<1>5. dst # mint
  BY <1>2 DEF IsAccount, IsMint
<1>6. data'[dst] = d /\ data'[mint] = e
  BY <1>2, <1>5 DEF Pack, TokenInv, TypeOK
<1>7. owner[dst] = TokenProgram /\ owner[mint] = TokenProgram
  <2>1. CASE amount = 0
    BY <2>1 DEF MintTo, CheckAccountOwner
  <2>2. CASE amount # 0
    <3>1. d # data[dst] /\ e # data[mint]
      BY <1>3, <1>4, <2>2
    <3> QED
      BY <1>2, <1>6, <3>1 DEF Pack, RuntimeAccepts
  <2> QED
    BY <2>1, <2>2
<1>8. IsAccount(d) /\ IsMint(e)
  BY <1>2, <1>3 DEF IsAccount, IsMint
<1>9. /\ mintOfBar[dst] = mint /\ mintOfBar[dst] # None
      /\ supplyBar[mint] = data[mint].supply
      /\ balanceBar[dst] = data[dst].amount
      /\ mintOfBar' = mintOfBar
      /\ supplyBar' = [supplyBar EXCEPT ![mint] = e.supply]
      /\ balanceBar' = [balanceBar EXCEPT ![dst] = d.amount]
      /\ UnclaimedDataIsZero'
      /\ AccountsNameMints'
  <2>1. IsLiveAccount(dst) /\ IsLiveMint(mint)
    BY <1>2, <1>7 DEF IsLiveAccount, IsLiveMint
  <2> QED
    BY <1>2, <1>3, <1>8, <2>1, HolderAndMintRewritten
<1>10. Ledger!Mint(dst, amount)
  BY <1>2, <1>3, <1>9 DEF Ledger!Mint
<1> QED
  BY <1>9, <1>10 DEF Refines, Ledger!Next, U64, Ledger!U64

LEMMA ReduceAllowanceKeeps ==
    ASSUME NEW a \in AccountData, NEW auth, NEW amount
    PROVE  /\ ReduceAllowance(a, auth, amount).state = a.state
           /\ ReduceAllowance(a, auth, amount).mint = a.mint
           /\ ReduceAllowance(a, auth, amount).is_native = a.is_native
BY DEF ReduceAllowance, AccountData

LEMMA BurnRefines ==
    ASSUME TokenInv, NEW S, NEW src \in Key, NEW mint \in Key, NEW auth \in Key,
           NEW amount \in U64, NEW expected,
           Burn(S, src, mint, auth, amount, expected)
    PROVE  Refines
<1> DEFINE a == data[src]
           abandoned == IsOwnedBySystemProgramOrIncinerator(a)
           rest == IF abandoned THEN a ELSE ReduceAllowance(a, auth, amount)
           d == [rest EXCEPT !.amount = a.amount - amount]
           e == [data[mint] EXCEPT !.supply = data[mint].supply - amount]
<1>1. a \in AccountData /\ data[mint] \in MintData
  BY KindOfAccount DEF Burn, IsAccount, IsMint, TokenInv
<1>2. /\ IsAccount(a) /\ ~IsNative(a) /\ a.mint = mint
      /\ IsMint(data[mint])
      /\ amount <= a.amount
      /\ Pack([data EXCEPT ![src] = d, ![mint] = e])
  BY DEF Burn
<1>3. /\ rest \in AccountData
      /\ rest.state = a.state /\ rest.mint = a.mint
      /\ rest.is_native = a.is_native
  <2>1. CASE abandoned
    BY <1>1, <2>1
  <2>2. CASE ~abandoned
    <3>1. MaySpend(a, auth, amount, S)
      BY <2>2 DEF Burn
    <3> QED
      BY <1>1, <2>2, <3>1, ReduceAllowanceTyped, ReduceAllowanceKeeps
  <2> QED
    BY <2>1, <2>2
<1>4. /\ d.kind = "account" /\ d.state = a.state
      /\ d.mint = mint /\ d.is_native = a.is_native
      /\ d.amount = a.amount - amount
  <2> HIDE DEF rest
  <2> QED
    BY <1>2, <1>3 DEF AccountData
<1>5. /\ e.kind = data[mint].kind
      /\ e.is_initialized = data[mint].is_initialized
      /\ e.supply = data[mint].supply - amount
  BY <1>1 DEF MintData
<1>6. a.amount \in Nat /\ data[mint].supply \in Nat /\ amount \in Nat
  BY <1>1, U64Assumption DEF AccountData, MintData, U64
<1> HIDE DEF d, e, rest
<1>7. src # mint
  BY <1>2 DEF IsAccount, IsMint
<1>8. data'[src] = d /\ data'[mint] = e
  BY <1>2, <1>7 DEF Pack, TokenInv, TypeOK
<1>9. owner[src] = TokenProgram /\ owner[mint] = TokenProgram
  <2>1. CASE amount = 0
    BY <2>1 DEF Burn, CheckAccountOwner
  <2>2. CASE amount # 0
    <3>1. d # a /\ e # data[mint]
      BY <1>4, <1>5, <1>6, <2>2
    <3> QED
      BY <1>2, <1>8, <3>1 DEF Pack, RuntimeAccepts
  <2> QED
    BY <2>1, <2>2
<1>10. IsAccount(d) /\ IsMint(e)
  BY <1>2, <1>4, <1>5 DEF IsAccount, IsMint
<1>11. /\ mintOfBar[src] = mint /\ mintOfBar[src] # None
       /\ supplyBar[mint] = data[mint].supply
       /\ balanceBar[src] = a.amount
       /\ mintOfBar' = mintOfBar
       /\ supplyBar' = [supplyBar EXCEPT ![mint] = e.supply]
       /\ balanceBar' = [balanceBar EXCEPT ![src] = d.amount]
       /\ UnclaimedDataIsZero'
       /\ AccountsNameMints'
  <2>1. IsLiveAccount(src) /\ IsLiveMint(mint)
    BY <1>2, <1>9 DEF IsLiveAccount, IsLiveMint
  <2> QED
    BY <1>2, <1>4, <1>10, <2>1, HolderAndMintRewritten
<1>12. Ledger!Burn(src, amount)
  BY <1>2, <1>4, <1>5, <1>11 DEF Ledger!Burn
<1> QED
  BY <1>11, <1>12 DEF Refines, Ledger!Next, U64, Ledger!U64

LEMMA TransferRefines ==
    ASSUME TokenInv, NEW S, NEW src \in Key, NEW dst \in Key, NEW auth \in Key,
           NEW amount \in U64, NEW expected,
           Transfer(S, src, dst, auth, amount, expected)
    PROVE  Refines
<1> DEFINE a == data[src]
           b == data[dst]
           rest == ReduceAllowance(a, auth, amount)
           d == [rest EXCEPT !.amount = a.amount - amount]
           e == [b EXCEPT !.amount = b.amount + amount]
<1>1. CASE src = dst
  <2>1. owner' = owner /\ data' = data
    BY <1>1 DEF Transfer, IsSelfTransfer, vars
  <2>2. \A k \in Key : Unmoved(k)
    BY <2>1, UntouchedUnmoved
  <2>3. UnclaimedDataIsZero'
    BY <2>1 DEF TokenInv, UnclaimedDataIsZero
  <2> QED
    BY <2>2, <2>3, UnmovedStutters, UnmovedKeepsMints DEF Refines, TokenInv
<1>2. CASE src # dst
  <2>1. a \in AccountData /\ b \in AccountData
    BY KindOfAccount DEF Transfer, IsAccount, TokenInv
  <2>2. /\ IsAccount(a) /\ IsAccount(b) /\ a.mint = b.mint
        /\ amount <= a.amount /\ MaySpend(a, auth, amount, S)
    BY DEF Transfer
  <2>3. /\ data' = [data EXCEPT ![src] = d, ![dst] = e]
        /\ owner' = owner /\ RuntimeAccepts(TokenProgram)
    BY <1>2 DEF Transfer, IsSelfTransfer
  <2>4. /\ rest \in AccountData
        /\ rest.state = a.state /\ rest.mint = a.mint
        /\ rest.is_native = a.is_native
    BY <2>1, <2>2, ReduceAllowanceTyped, ReduceAllowanceKeeps
  <2>5. /\ d.kind = "account" /\ d.state = a.state
        /\ d.mint = a.mint /\ d.is_native = a.is_native
        /\ d.amount = a.amount - amount
    <3> HIDE DEF rest
    <3> QED
      BY <2>4 DEF AccountData
  <2>6. /\ e.kind = "account" /\ e.state = b.state
        /\ e.mint = b.mint /\ e.is_native = b.is_native
        /\ e.amount = b.amount + amount
    BY <2>1 DEF AccountData
  <2>7. a.amount \in Nat /\ b.amount \in Nat /\ amount \in Nat
    BY <2>1, U64Assumption DEF AccountData, U64
  <2> HIDE DEF d, e, rest
  <2>8. /\ data'[src] = d /\ data'[dst] = e
        /\ \A j \in Key \ {src, dst} : data'[j] = data[j]
    BY <1>2, <2>3 DEF TokenInv, TypeOK
  <2>9. owner[src] = TokenProgram /\ owner[dst] = TokenProgram
    <3>1. CASE amount = 0
      BY <3>1 DEF Transfer, CheckAccountOwner
    <3>2. CASE amount # 0
      <4>1. d # a /\ e # b
        BY <2>5, <2>6, <2>7, <3>2
      <4> QED
        BY <2>3, <2>8, <4>1 DEF RuntimeAccepts
    <3> QED
      BY <3>1, <3>2
  <2>10. /\ IsLiveAccount(src) /\ IsLiveAccount(src)'
         /\ IsLiveAccount(dst) /\ IsLiveAccount(dst)'
         /\ ~IsLiveMint(src) /\ ~IsLiveMint(src)'
         /\ ~IsLiveMint(dst) /\ ~IsLiveMint(dst)'
    BY <2>2, <2>3, <2>5, <2>6, <2>8, <2>9
       DEF IsLiveAccount, IsLiveMint, IsAccount, IsMint
  <2>11. IsNative(a) <=> IsNative(b)
    BY <2>2, <2>10 DEF TokenInv, AccountsNameMints
  <2>12. /\ \A j \in Key : IsLiveMint(j)' <=> IsLiveMint(j)
         /\ \A j \in Key : IsLiveMint(j) => data'[j] = data[j]
    BY <2>3, <2>8, <2>10 DEF IsLiveMint
  <2>13. \A j \in Key : IsLiveAccount(j)' <=> IsLiveAccount(j)
    BY <2>3, <2>8, <2>10 DEF IsLiveAccount
  <2>14. supplyBar' = supplyBar
    BY <2>12 DEF supplyBar
  <2>15. \A j \in Key : IsHolder(j)' <=> IsHolder(j)
    BY <2>5, <2>6, <2>8, <2>13 DEF IsHolder, IsNative
  <2>16. mintOfBar' = mintOfBar
    BY <2>5, <2>6, <2>8, <2>15 DEF mintOfBar
  <2>17. [Ledger!Next]_bars
    <3>1. CASE IsNative(a)
      <4>1. ~IsHolder(src) /\ ~IsHolder(dst)
        BY <2>11, <3>1 DEF IsHolder
      <4>2. balanceBar' = balanceBar
        BY <2>8, <2>15, <4>1 DEF balanceBar
      <4> QED
        BY <2>14, <2>16, <4>2 DEF bars
    <3>2. CASE ~IsNative(a)
      <4>1. IsHolder(src) /\ IsHolder(dst)
        BY <2>10, <2>11, <3>2 DEF IsHolder
      <4>2. mintOfBar[src] # None /\ mintOfBar[dst] = mintOfBar[src]
        BY <2>1, <2>2, <4>1, KeyAssumption DEF mintOfBar, AccountData
      <4>3. balanceBar[src] = a.amount /\ balanceBar[dst] = b.amount
        BY <4>1 DEF balanceBar
      <4>4. balanceBar' = [balanceBar EXCEPT ![src] = d.amount,
                                             ![dst] = e.amount]
        BY <1>2, <2>8, <2>15, <4>1 DEF balanceBar
      <4>5. Ledger!Move(src, dst, amount)
        BY <1>2, <2>2, <2>5, <2>6, <2>14, <2>16, <4>2, <4>3, <4>4
           DEF Ledger!Move
      <4> QED
        BY <4>5 DEF Ledger!Next, U64, Ledger!U64
    <3> QED
      BY <3>1, <3>2
  <2>18. UnclaimedDataIsZero'
    BY <2>2, <2>3, <2>5, <2>6, <2>8, Zenon DEF TokenInv, UnclaimedDataIsZero, IsAccount
  <2>19. AccountsNameMints'
    <3>1. \A j \in Key : IsLiveAccount(j)' =>
             /\ IsLiveAccount(j)
             /\ data'[j].mint = data[j].mint
             /\ data'[j].is_native = data[j].is_native
      BY <2>5, <2>6, <2>8, <2>13
    <3> QED
      BY <2>12, <3>1, FollowingKept DEF TokenInv
  <2> QED
    BY <2>17, <2>18, <2>19 DEF Refines
<1> QED
  BY <1>1, <1>2

-----------------------------------------------------------------------------
(* The theorems.                                                           *)

LEMMA NextRefines ==
    ASSUME TokenInv, [Next]_vars
    PROVE  Refines
<1>1. CASE Environment
  BY <1>1, EnvironmentRefines
<1>2. CASE Permissionless
  <2>1. /\ MintAccounts \subseteq Key /\ TokenAccounts \subseteq Key
        /\ MultisigAccounts \subseteq Key
    BY DEF MintAccounts, TokenAccounts, MultisigAccounts
  <2> QED
    BY <1>2, <2>1, InitializeMintRefines, InitializeAccountRefines,
       InitializeMultisigRefines, SyncNativeRefines DEF Permissionless
<1>3. CASE \E S \in SUBSET Signer : SignedBy(S)
  <2>1. PICK S \in SUBSET Signer : SignedBy(S)
    BY <1>3
  <2>2. /\ MintAccounts \subseteq Key /\ TokenAccounts \subseteq Key
        /\ Owners \cup Delegates \subseteq Key
        /\ Refund \subseteq Key /\ Amount \subseteq U64
    BY InputAssumption DEF MintAccounts, TokenAccounts
  <2> QED
    BY <2>1, <2>2, TransferRefines, ApproveRefines, RevokeRefines,
       SetAuthorityRefines, MintToRefines, BurnRefines, CloseAccountRefines,
       ToggleFreezeAccountRefines DEF SignedBy
<1>4. CASE UNCHANGED vars
  <2>1. owner' = owner /\ data' = data
    BY <1>4 DEF vars
  <2>2. \A k \in Key : Unmoved(k)
    BY <2>1, UntouchedUnmoved
  <2>3. UnclaimedDataIsZero'
    BY <2>1 DEF TokenInv, UnclaimedDataIsZero
  <2> QED
    BY <2>2, <2>3, UnmovedStutters, UnmovedKeepsMints DEF Refines, TokenInv
<1> QED
  BY <1>1, <1>2, <1>3, <1>4 DEF Next

LEMMA AnyRentRefines ==
    ASSUME TokenInv, [AnyRentNext]_vars
    PROVE  Refines
BY NextRefines, OpensAtRefines DEF AnyRentNext

LEMMA InitRefines ==
    ASSUME Init
    PROVE  /\ Ledger!Init
           /\ UnclaimedDataIsZero
           /\ AccountsNameMints
<1>1. \A k \in Key : data[k].kind \in {"mint", "none"}
  BY DEF Init, ZeroMint, EmptyData
<1>2. \A k \in Key : ~IsLiveAccount(k) /\ ~IsHolder(k)
  BY <1>1 DEF IsLiveAccount, IsHolder, IsAccount
<1>3. \A k \in Key : IsMint(data[k]) => data[k].supply = 0
  BY DEF Init, ZeroMint, EmptyData, IsMint
<1>4. UnclaimedDataIsZero
  BY DEF Init, UnclaimedDataIsZero, ZeroMint, EmptyData, Zeroed, IsMint
<1>5. supplyBar \in [Key -> {0, None}]
  BY <1>3 DEF supplyBar, IsLiveMint
<1>6. mintOfBar = [k \in Key |-> None] /\ balanceBar = [k \in Key |-> 0]
  BY <1>2 DEF mintOfBar, balanceBar
<1> QED
  BY <1>2, <1>4, <1>5, <1>6 DEF AccountsNameMints, Ledger!Init

\* Data the token program owns and nobody has initialized is zero, and the mint
\* of every account is live: what the handlers rely on without checking it
\* (InitializeMint, and every handler that compares a mint's address).
THEOREM TokenInvariant == Spec => [](UnclaimedDataIsZero /\ AccountsNameMints)
<1>1. Init => UnclaimedDataIsZero /\ AccountsNameMints
  BY InitRefines
<1>2. TypeOK /\ (UnclaimedDataIsZero /\ AccountsNameMints) /\ [Next]_vars
         => (UnclaimedDataIsZero /\ AccountsNameMints)'
  BY NextRefines DEF TokenInv, Refines
<1> QED
  BY <1>1, <1>2, TokenTypeOK, PTL DEF Spec

\* Data of the token program that nobody has initialized is zero, however often
\* its address was closed and used again: process_initialize_mint takes over the
\* supply it finds there.
THEOREM TokenUnclaimedDataIsZero == Spec => []UnclaimedDataIsZero
BY TokenInvariant, PTL

\* Every instruction of the token program, and whatever happens around it, is
\* one step of the abstract ledger or leaves the ledger as it is.
THEOREM TokenImplementsLedger == Spec => LedgerSpec
<1>1. Init => Ledger!Init
  BY InitRefines
<1>2. TypeOK /\ (UnclaimedDataIsZero /\ AccountsNameMints) /\ [Next]_vars
         => [Ledger!Next]_(Ledger!ledgerVars)
  BY NextRefines DEF TokenInv, Refines, bars, Ledger!ledgerVars
<1> QED
  BY <1>1, <1>2, TokenTypeOK, TokenInvariant, PTL DEF Spec, LedgerSpec, Ledger!Spec

-----------------------------------------------------------------------------
(* What the ledger conserves, the token program conserves.                 *)

\* The ledger's theorems, about the supplies and balances of the token program.
LedgerFacts == INSTANCE TokenLedgerProofs
                  WITH supply <- supplyBar, mintOf <- mintOfBar,
                       balance <- balanceBar

\* What the ledger's theorems assume of the constants.
LEMMA LedgerConstants ==
    /\ U64Max \in Nat
    /\ LedgerFacts!IsFiniteSet(Key)
    /\ None \notin Key
    /\ None \notin LedgerFacts!U64
<1>1. U64Max \in Nat /\ None \notin U64
  BY U64Assumption, KeyAssumption DEF U64
<1>2. IsFiniteSet(Key) /\ None \notin Key
  BY KeyAssumption
<1>3. LedgerFacts!IsFiniteSet(Key)
  BY <1>2, Zenon DEF LedgerFacts!IsFiniteSet, IsFiniteSet
<1>4. LedgerFacts!U64 = U64
  BY Zenon DEF LedgerFacts!U64, U64
<1> QED
  BY <1>1, <1>2, <1>3, <1>4, Zenon

\* The supply of a mint is conserved in the ledger exactly when its accounts
\* hold it.
LEMMA SupplyIsConserved ==
    TypeOK => (LedgerFacts!Conserved <=> SupplyMatchesBalances)
<1> DEFINE held(m) == [k \in Key |-> IF IsHolder(k) /\ data[k].mint = m
                                     THEN data[k].amount ELSE 0]
<1> SUFFICES ASSUME TypeOK
             PROVE  LedgerFacts!Conserved <=> SupplyMatchesBalances
  OBVIOUS
<1>1. SupplyMatchesBalances <=>
         \A m \in Key : IsLiveMint(m) => data[m].supply = Total(held(m))
  BY DEF SupplyMatchesBalances
<1>2. \A m \in Key :
         /\ supplyBar[m] # None <=> IsLiveMint(m)
         /\ IsLiveMint(m) => supplyBar[m] = data[m].supply
  BY SupplyIsNoOption DEF supplyBar
<1>3. ASSUME NEW m \in Key
      PROVE  LedgerFacts!Total(LedgerFacts!Holding(m)) = Total(held(m))
  <2>1. \A k \in Key : mintOfBar[k] = m <=> IsHolder(k) /\ data[k].mint = m
    BY KeyAssumption DEF mintOfBar
  <2>2. LedgerFacts!Holding(m) = held(m)
    BY <2>1 DEF LedgerFacts!Holding, balanceBar
  <2> HIDE DEF held
  <2>3. LedgerFacts!Units(held(m)) = Units(held(m))
    BY DEF LedgerFacts!Units, Units
  <2>4. LedgerFacts!Cardinality(Units(held(m))) = Cardinality(Units(held(m)))
    BY DEF LedgerFacts!Cardinality, Cardinality
  <2> QED
    BY <2>2, <2>3, <2>4 DEF LedgerFacts!Total, Total
<1> HIDE DEF held
<1> QED
  BY <1>1, <1>2, <1>3 DEF LedgerFacts!Conserved

LEMMA SupplyIsConservedNext ==
    TypeOK' => (LedgerFacts!Conserved' <=> SupplyMatchesBalances')
BY SupplyIsConserved, PTL

LEMMA LedgerStep ==
    [Ledger!Next]_(Ledger!ledgerVars)
       => [LedgerFacts!Next]_(LedgerFacts!ledgerVars)
BY DEF Ledger!Next, Ledger!ledgerVars, Ledger!CreateMint, Ledger!Open,
       Ledger!Close, Ledger!Mint, Ledger!Burn, Ledger!Move, Ledger!U64,
       LedgerFacts!Next, LedgerFacts!ledgerVars, LedgerFacts!CreateMint,
       LedgerFacts!Open, LedgerFacts!Close, LedgerFacts!Mint,
       LedgerFacts!Burn, LedgerFacts!Move, LedgerFacts!U64

LEMMA InitSupply ==
    ASSUME Init
    PROVE  SupplyMatchesBalances
<1>1. LedgerFacts!Init
  BY InitRefines DEF Ledger!Init, LedgerFacts!Init
<1>2. LedgerFacts!Conserved
  BY <1>1, LedgerConstants, LedgerFacts!InitEstablishesLedgerInv
     DEF LedgerFacts!LedgerInv
<1> QED
  BY <1>2, SupplyIsConserved, InitTyped

\* SupplyMatchesBalances is inductive together with TokenInv, because the
\* ledger's invariant is.
LEMMA SupplyKept ==
    ASSUME TokenInv, TypeOK', [AnyRentNext]_vars, SupplyMatchesBalances
    PROVE  SupplyMatchesBalances'
<1>1. LedgerFacts!Conserved
  BY SupplyIsConserved DEF TokenInv
<1>2. LedgerFacts!TypeOK
  <2>1. \A k \in Key : IsLiveMint(k) => data[k].supply \in U64
    BY KindOfAccount DEF TokenInv, IsLiveMint, IsMint, MintData
  <2>2. \A k \in Key : IsHolder(k) =>
           data[k].mint \in Key /\ data[k].amount \in U64
    BY KindOfAccount
       DEF TokenInv, IsHolder, IsLiveAccount, IsAccount, AccountData
  <2>3. 0 \in U64
    BY ZeroIsU64
  <2> QED
    BY <2>1, <2>2, <2>3
       DEF LedgerFacts!TypeOK, LedgerFacts!U64, U64,
           supplyBar, mintOfBar, balanceBar
<1>3. LedgerFacts!HoldersHaveMints
  <2>1. ASSUME NEW k \in Key, IsHolder(k)
        PROVE  /\ mintOfBar[k] = data[k].mint /\ data[k].mint \in Key
               /\ supplyBar[data[k].mint] # None
    <3>1. data[k].mint \in Key
      BY <2>1, KindOfAccount
         DEF TokenInv, IsHolder, IsLiveAccount, IsAccount, AccountData
    <3>2. IsLiveMint(data[k].mint)
      BY <2>1 DEF TokenInv, AccountsNameMints, IsHolder
    <3> QED
      BY <2>1, <3>1, <3>2, SupplyIsNoOption DEF mintOfBar, supplyBar, TokenInv
  <2>2. \A k \in Key : ~IsHolder(k) => mintOfBar[k] = None /\ balanceBar[k] = 0
    BY DEF mintOfBar, balanceBar
  <2> QED
    BY <2>1, <2>2, KeyAssumption DEF LedgerFacts!HoldersHaveMints
<1>4. [LedgerFacts!Next]_(LedgerFacts!ledgerVars)
  <2>1. [Ledger!Next]_(Ledger!ledgerVars)
    BY AnyRentRefines DEF Refines, bars, Ledger!ledgerVars
  <2> QED
    BY <2>1, LedgerStep
<1>5. LedgerFacts!LedgerInv'
  <2>1. LedgerFacts!LedgerInv
    BY <1>1, <1>2, <1>3 DEF LedgerFacts!LedgerInv
  <2> QED
    BY <1>4, <2>1, LedgerConstants, LedgerFacts!NextKeepsLedgerInv
<1> QED
  BY <1>5, SupplyIsConservedNext DEF LedgerFacts!LedgerInv

\* After any sequence of instructions the supply of every live mint is what its
\* live accounts hold together: the number process_mint_to and process_burn
\* keep in two places at once.
THEOREM TokenSupplyMatchesBalances == Spec => []SupplyMatchesBalances
<1>1. LedgerFacts!Spec => [](LedgerFacts!Conserved /\ LedgerFacts!HoldersHaveMints)
  BY LedgerConstants, LedgerFacts!LedgerConserved
<1>2. Ledger!Init => LedgerFacts!Init
  BY DEF Ledger!Init, LedgerFacts!Init
<1> QED
  BY <1>1, <1>2, LedgerStep, SupplyIsConserved, TokenImplementsLedger,
     TokenTypeOK, PTL
     DEF LedgerSpec, Ledger!Spec, LedgerFacts!Spec

-----------------------------------------------------------------------------
(* The steps of an account.                                                *)

\* Nothing happens at k but that lamports may arrive.
Kept(k) ==
    /\ data'[k] = data[k]
    /\ owner'[k] = owner[k]
    /\ lamports'[k] >= lamports[k]

\* The handler writes d to the account at k.
Becomes(k, d) == data'[k] = d /\ owner'[k] = owner[k]

\* The lamports of a native account change with its amount, by n.
Follow(k, n) ==
    lamports'[k] = IF IsNative(data[k]) THEN lamports[k] + n ELSE lamports[k]

\* auth transfers or burns n tokens of the account.
SpentBy(auth, n, S, k) ==
    /\ ~IsFrozen(data[k])
    /\ n <= data[k].amount
    /\ MaySpend(data[k], auth, n, S)
    /\ Becomes(k, [ReduceAllowance(data[k], auth, n)
                      EXCEPT !.amount = data[k].amount - n])
    /\ Follow(k, -n)

Spent(S, k) == \E auth \in Key, n \in U64 : SpentBy(auth, n, S, k)

\* Somebody burns n of the tokens that nobody can sign for.
BurntAbandoned(k) ==
    \E n \in U64 :
       /\ IsOwnedBySystemProgramOrIncinerator(data[k])
       /\ ~IsFrozen(data[k])
       /\ ~IsNative(data[k])
       /\ n <= data[k].amount
       /\ Becomes(k, [data[k] EXCEPT !.amount = data[k].amount - n])
       /\ data'[data[k].mint].supply = data[data[k].mint].supply - n
       /\ Follow(k, -n)

\* n tokens arrive.
Credited(k) ==
    \E n \in U64 :
       /\ ~IsFrozen(data[k])
       /\ Becomes(k, [data[k] EXCEPT !.amount = data[k].amount + n])
       /\ Follow(k, n)

\* Lamports that arrived before are counted.
Synced(k) ==
    /\ IsNative(data[k])
    /\ data[k].amount <= Wrapped(k)
    /\ Becomes(k, [data[k] EXCEPT !.amount = Wrapped(k)])
    /\ lamports'[k] = lamports[k]

\* The owner names a delegate, or none any more.
Delegated(S, k) ==
    \E delegate \in Delegates \cup {None}, amount \in U64 :
       /\ ~IsFrozen(data[k])
       /\ ValidateOwner(data[k].owner, S)
       /\ Becomes(k, [data[k] EXCEPT !.delegate = delegate,
                                     !.delegated_amount = amount])
       /\ lamports'[k] = lamports[k]

HandedOver(S, k) ==
    \E newOwner \in Owners :
       /\ ~IsFrozen(data[k])
       /\ ValidateOwner(data[k].owner, S)
       /\ Becomes(k, HandOver(data[k], newOwner))
       /\ lamports'[k] = lamports[k]

CloserSet(S, k) ==
    \E closer :
       /\ ~IsFrozen(data[k])
       /\ ValidateOwner(Closer(data[k]), S)
       /\ Becomes(k, [data[k] EXCEPT !.close_authority = closer])
       /\ lamports'[k] = lamports[k]

\* The freeze authority of the mint freezes or thaws the account.
Toggled(S, k) ==
    LET authority == data[data[k].mint].freeze_authority IN
    /\ ~IsNative(data[k])
    /\ authority # None
    /\ ValidateOwner(authority, S)
    /\ Becomes(k, [data[k] EXCEPT !.state =
                      IF IsFrozen(data[k]) THEN "Initialized" ELSE "Frozen"])
    /\ lamports'[k] = lamports[k]

Closed(S, k) ==
    /\ IsClosable(data[k])
    /\ IF IsOwnedBySystemProgramOrIncinerator(data[k])
       THEN lamports'[Incinerator] = lamports[Incinerator] + lamports[k]
       ELSE ValidateOwner(Closer(data[k]), S)
    /\ owner'[k] = SystemProgram
    /\ data'[k] = EmptyData
    /\ lamports'[k] = 0

AccountStep(S, k) ==
    \/ Kept(k)
    \/ Spent(S, k) \/ BurntAbandoned(k) \/ Credited(k) \/ Synced(k)
    \/ Delegated(S, k) \/ HandedOver(S, k) \/ CloserSet(S, k) \/ Toggled(S, k)
    \/ Closed(S, k)

-----------------------------------------------------------------------------
(* The steps of a mint.                                                    *)

Issued(S, k) ==
    \E n \in U64 :
       /\ data[k].mint_authority # None
       /\ ValidateOwner(data[k].mint_authority, S)
       /\ Becomes(k, [data[k] EXCEPT !.supply = data[k].supply + n])

Burnt(k) ==
    \E n \in U64 :
       /\ n <= data[k].supply
       /\ Becomes(k, [data[k] EXCEPT !.supply = data[k].supply - n])

MinterSet(S, k) ==
    \E minter :
       /\ data[k].mint_authority # None
       /\ ValidateOwner(data[k].mint_authority, S)
       /\ Becomes(k, [data[k] EXCEPT !.mint_authority = minter])

FreezerSet(S, k) ==
    \E freezer :
       /\ data[k].freeze_authority # None
       /\ ValidateOwner(data[k].freeze_authority, S)
       /\ Becomes(k, [data[k] EXCEPT !.freeze_authority = freezer])

MintStep(S, k) ==
    \/ Kept(k)
    \/ /\ Issued(S, k) \/ Burnt(k) \/ MinterSet(S, k) \/ FreezerSet(S, k)
       /\ lamports'[k] = lamports[k]

-----------------------------------------------------------------------------
(* The steps of every other address.                                       *)

IsLive(k) == IsLiveMint(k) \/ IsLiveAccount(k) \/ IsLiveMultisig(k)

\* InitializeAccount: what was blank is a fresh account.
Opened(k) ==
    /\ IsLiveAccount(k)'
    /\ data'[k].owner \in Owners
    /\ data'[k].delegate = None
    /\ data'[k].close_authority = None
    /\ data'[k].state = "Initialized"
    /\ IsNative(data'[k]) =>
          data'[k].is_native + data'[k].amount = lamports'[k]

BlankStep(k) ==
    /\ owner[k] = TokenProgram => lamports'[k] >= lamports[k]
    /\ IsLiveAccount(k)' => Opened(k)

\* What was initialized holds the rent of the chain, and a native account
\* recorded it.
Exempted(k) ==
    IsLive(k)' =>
       /\ lamports'[k] >= MinBalance[data'[k].kind]
       /\ IsLiveAccount(k)' /\ IsNative(data'[k]) =>
             data'[k].is_native = MinBalance["account"]

\* What happens at k when S signed.
KeyStep(S, k) ==
    /\ IsLiveAccount(k) => AccountStep(S, k)
    /\ IsLiveMint(k) => MintStep(S, k)
    /\ IsLiveMultisig(k) => Kept(k)
    /\ ~IsLive(k) => BlankStep(k)

\* The same for the instructions that S signs, which initialize nothing.
SignedStep(S, k) ==
    /\ IsLiveAccount(k) => AccountStep(S, k)
    /\ IsLiveMint(k) => MintStep(S, k)
    /\ IsLiveMultisig(k) \/ ~IsLive(k) => Kept(k)

\* What happens at k whoever signed.
UnsignedStep(k) ==
    /\ IsLiveAccount(k) => Kept(k) \/ Synced(k)
    /\ IsLiveMint(k) \/ IsLiveMultisig(k) => Kept(k)
    /\ ~IsLive(k) => BlankStep(k) /\ Exempted(k)

LEMMA UnsignedIsKeyStep ==
    ASSUME NEW S, NEW k, UnsignedStep(k)
    PROVE  KeyStep(S, k)
BY DEF UnsignedStep, KeyStep, AccountStep, MintStep

\* An address is one thing at a time.
LEMMA LiveIsOneKind ==
    ASSUME NEW k
    PROVE  /\ IsLiveAccount(k) => ~IsLiveMint(k) /\ ~IsLiveMultisig(k)
           /\ IsLiveMint(k) => ~IsLiveMultisig(k)
BY DEF IsLiveAccount, IsLiveMint, IsLiveMultisig, IsAccount, IsMint, IsMultisig

LEMMA KeptIsUnsigned ==
    ASSUME NEW k, Kept(k)
    PROVE  UnsignedStep(k)
<1>1. IsLive(k)' => IsLive(k)
  BY DEF Kept, IsLive, IsLiveAccount, IsLiveMint, IsLiveMultisig
<1> QED
  BY <1>1 DEF UnsignedStep, BlankStep, Exempted, Kept, IsLive

LEMMA KeptIsSignedStep ==
    ASSUME NEW S, NEW k, Kept(k)
    PROVE  SignedStep(S, k)
BY DEF SignedStep, AccountStep, MintStep

LEMMA SignedIsKeyStep ==
    ASSUME NEW S, NEW k, SignedStep(S, k)
    PROVE  KeyStep(S, k) /\ (~IsLive(k) => Exempted(k))
<1>1. CASE IsLive(k)
  BY <1>1 DEF SignedStep, KeyStep, IsLive
<1>2. CASE ~IsLive(k)
  <2>1. UnsignedStep(k)
    BY <1>2, KeptIsUnsigned DEF SignedStep
  <2> QED
    BY <1>2, <2>1, UnsignedIsKeyStep DEF UnsignedStep
<1> QED
  BY <1>1, <1>2

\* An address that a step leaves alone is kept.
LEMMA UntouchedKept ==
    ASSUME TypeOK, NEW k \in Key,
           data'[k] = data[k], owner'[k] = owner[k], lamports'[k] = lamports[k]
    PROVE  Kept(k)
BY U64Assumption DEF Kept, TypeOK, U64

-----------------------------------------------------------------------------
(* Handlers that write one account or one mint.                            *)

\* A handler that packs d into the account at k: only an account of the token
\* program can change that way.
LEMMA AccountPacked ==
    ASSUME TokenInv, NEW S, NEW k \in Key, NEW d,
           IsAccount(data[k]), Pack([data EXCEPT ![k] = d]),
           Becomes(k, d) /\ lamports'[k] = lamports[k] => AccountStep(S, k)
    PROVE  \A j \in Key : SignedStep(S, j)
<1>1. /\ data'[k] = d /\ owner' = owner /\ lamports' = lamports
      /\ \A j \in Key \ {k} : data'[j] = data[j]
  BY DEF Pack, TokenInv, TypeOK
<1>2. SignedStep(S, k)
  <2>1. CASE owner[k] = TokenProgram
    <3>1. IsLiveAccount(k) /\ AccountStep(S, k)
      BY <1>1, <2>1 DEF IsLiveAccount, Becomes
    <3> QED
      BY <3>1, LiveIsOneKind DEF SignedStep, IsLive
  <2>2. CASE owner[k] # TokenProgram
    <3>1. data'[k] = data[k]
      BY <2>2 DEF Pack, RuntimeAccepts
    <3> QED
      BY <1>1, <3>1, UntouchedKept, KeptIsSignedStep DEF TokenInv
  <2> QED
    BY <2>1, <2>2
<1> QED
  BY <1>1, <1>2, UntouchedKept, KeptIsSignedStep DEF TokenInv

LEMMA MintPacked ==
    ASSUME TokenInv, NEW S, NEW k \in Key, NEW d,
           IsMint(data[k]), Pack([data EXCEPT ![k] = d]),
           Becomes(k, d) /\ lamports'[k] = lamports[k] => MintStep(S, k)
    PROVE  \A j \in Key : SignedStep(S, j)
<1>1. /\ data'[k] = d /\ owner' = owner /\ lamports' = lamports
      /\ \A j \in Key \ {k} : data'[j] = data[j]
  BY DEF Pack, TokenInv, TypeOK
<1>2. SignedStep(S, k)
  <2>1. CASE owner[k] = TokenProgram
    <3>1. IsLiveMint(k) /\ MintStep(S, k)
      BY <1>1, <2>1 DEF IsLiveMint, Becomes
    <3> QED
      BY <3>1, LiveIsOneKind DEF SignedStep, IsLive
  <2>2. CASE owner[k] # TokenProgram
    <3>1. data'[k] = data[k]
      BY <2>2 DEF Pack, RuntimeAccepts
    <3> QED
      BY <1>1, <3>1, UntouchedKept, KeptIsSignedStep DEF TokenInv
  <2> QED
    BY <2>1, <2>2
<1> QED
  BY <1>1, <1>2, UntouchedKept, KeptIsSignedStep DEF TokenInv

LEMMA ApproveStep ==
    ASSUME TokenInv, NEW S, NEW src \in Key, NEW delegate \in Delegates,
           NEW amount \in U64, NEW expected,
           Approve(S, src, delegate, amount, expected)
    PROVE  \A k \in Key : SignedStep(S, k)
<1> DEFINE d == [data[src] EXCEPT !.delegate = delegate,
                                  !.delegated_amount = amount]
<1>1. IsAccount(data[src]) /\ Pack([data EXCEPT ![src] = d])
  BY DEF Approve
<1>2. Becomes(src, d) /\ lamports'[src] = lamports[src] => AccountStep(S, src)
  BY Zenon DEF Approve, Delegated, AccountStep
<1> HIDE DEF d
<1> QED
  BY <1>1, <1>2, AccountPacked

LEMMA RevokeStep ==
    ASSUME TokenInv, NEW S, NEW src \in Key, Revoke(S, src)
    PROVE  \A k \in Key : SignedStep(S, k)
<1> DEFINE d == [data[src] EXCEPT !.delegate = None, !.delegated_amount = 0]
<1>1. IsAccount(data[src]) /\ Pack([data EXCEPT ![src] = d])
  BY DEF Revoke
<1>2. Becomes(src, d) /\ lamports'[src] = lamports[src] => AccountStep(S, src)
  <2>1. None \in Delegates \cup {None} /\ 0 \in U64
    BY U64Assumption DEF U64
  <2> QED
    BY <2>1, Zenon DEF Revoke, Delegated, AccountStep
<1> HIDE DEF d
<1> QED
  BY <1>1, <1>2, AccountPacked

LEMMA SetAuthorityStep ==
    ASSUME TokenInv, NEW S, SetAuthority(S)
    PROVE  \A k \in Key : SignedStep(S, k)
<1>1. ASSUME NEW k \in Key, NEW new \in Owners, SetAccountOwner(S, k, new)
      PROVE  \A j \in Key : SignedStep(S, j)
  <2>1. /\ IsAccount(data[k])
        /\ Pack([data EXCEPT ![k] = HandOver(data[k], new)])
    BY <1>1 DEF SetAccountOwner
  <2>2. Becomes(k, HandOver(data[k], new)) /\ lamports'[k] = lamports[k]
           => AccountStep(S, k)
    BY <1>1 DEF SetAccountOwner, HandedOver, AccountStep
  <2> QED
    BY <2>1, <2>2, AccountPacked
<1>2. ASSUME NEW k \in Key, NEW new, SetCloseAuthority(S, k, new)
      PROVE  \A j \in Key : SignedStep(S, j)
  <2> DEFINE d == [data[k] EXCEPT !.close_authority = new]
  <2>1. IsAccount(data[k]) /\ Pack([data EXCEPT ![k] = d])
    BY <1>2 DEF SetCloseAuthority
  <2>2. Becomes(k, d) /\ lamports'[k] = lamports[k] => AccountStep(S, k)
    BY <1>2 DEF SetCloseAuthority, CloserSet, AccountStep
  <2> HIDE DEF d
  <2> QED
    BY <2>1, <2>2, AccountPacked
<1>3. ASSUME NEW k \in Key, NEW new, SetMintAuthority(S, k, new)
      PROVE  \A j \in Key : SignedStep(S, j)
  <2> DEFINE d == [data[k] EXCEPT !.mint_authority = new]
  <2>1. IsMint(data[k]) /\ Pack([data EXCEPT ![k] = d])
    BY <1>3 DEF SetMintAuthority
  <2>2. Becomes(k, d) /\ lamports'[k] = lamports[k] => MintStep(S, k)
    BY <1>3 DEF SetMintAuthority, MinterSet, MintStep
  <2> HIDE DEF d
  <2> QED
    BY <2>1, <2>2, MintPacked
<1>4. ASSUME NEW k \in Key, NEW new, SetFreezeAuthority(S, k, new)
      PROVE  \A j \in Key : SignedStep(S, j)
  <2> DEFINE d == [data[k] EXCEPT !.freeze_authority = new]
  <2>1. IsMint(data[k]) /\ Pack([data EXCEPT ![k] = d])
    BY <1>4 DEF SetFreezeAuthority
  <2>2. Becomes(k, d) /\ lamports'[k] = lamports[k] => MintStep(S, k)
    BY <1>4 DEF SetFreezeAuthority, FreezeSetter, FreezerSet, MintStep
  <2> HIDE DEF d
  <2> QED
    BY <2>1, <2>2, MintPacked
<1> QED
  BY <1>1, <1>2, <1>3, <1>4 DEF SetAuthority, TokenAccounts, MintAccounts

LEMMA ToggleFreezeAccountStep ==
    ASSUME TokenInv, NEW S, NEW src \in Key, NEW mint, NEW freeze \in BOOLEAN,
           ToggleFreezeAccount(S, src, mint, freeze)
    PROVE  \A k \in Key : SignedStep(S, k)
<1> DEFINE state == IF freeze THEN "Frozen" ELSE "Initialized"
           d == [data[src] EXCEPT !.state = state]
<1>1. IsAccount(data[src]) /\ Pack([data EXCEPT ![src] = d])
  BY DEF ToggleFreezeAccount
<1>2. state = IF IsFrozen(data[src]) THEN "Initialized" ELSE "Frozen"
  BY DEF ToggleFreezeAccount, IsFrozen
<1>3. Becomes(src, d) /\ lamports'[src] = lamports[src] => AccountStep(S, src)
  <2> HIDE DEF state
  <2> QED
    BY <1>2 DEF ToggleFreezeAccount, Toggled, AccountStep
<1> HIDE DEF d
<1> QED
  BY <1>1, <1>3, AccountPacked

-----------------------------------------------------------------------------
(* Handlers that write two accounts.                                       *)

\* Two accounts of the token program are written and no others.
LEMMA TwoPacked ==
    ASSUME TokenInv, NEW S, NEW j \in Key, NEW k \in Key,
           SignedStep(S, j), SignedStep(S, k), owner' = owner,
           \A i \in Key \ {j, k} : data'[i] = data[i] /\ lamports'[i] = lamports[i]
    PROVE  \A i \in Key : SignedStep(S, i)
BY UntouchedKept, KeptIsSignedStep DEF TokenInv

LEMMA LiveAccountStep ==
    ASSUME NEW S, NEW k, IsLiveAccount(k), AccountStep(S, k)
    PROVE  SignedStep(S, k)
BY LiveIsOneKind DEF SignedStep, IsLive

LEMMA LiveMintStep ==
    ASSUME NEW S, NEW k, IsLiveMint(k), MintStep(S, k)
    PROVE  SignedStep(S, k)
BY LiveIsOneKind DEF SignedStep, IsLive

LEMMA MintToStep ==
    ASSUME TokenInv, NEW S, NEW mint \in Key, NEW dst \in Key,
           NEW amount \in U64, NEW expected,
           MintTo(S, mint, dst, amount, expected)
    PROVE  \A k \in Key : SignedStep(S, k)
<1> DEFINE d == [data[dst] EXCEPT !.amount = data[dst].amount + amount]
           e == [data[mint] EXCEPT !.supply = data[mint].supply + amount]
<1>1. data[dst] \in AccountData /\ data[mint] \in MintData
  BY KindOfAccount DEF MintTo, IsAccount, IsMint, TokenInv
<1>2. /\ IsAccount(data[dst]) /\ ~IsFrozen(data[dst]) /\ ~IsNative(data[dst])
      /\ IsMint(data[mint])
      /\ data[mint].mint_authority # None
      /\ ValidateOwner(data[mint].mint_authority, S)
      /\ Pack([data EXCEPT ![dst] = d, ![mint] = e])
  BY DEF MintTo
<1>3. /\ d.amount = data[dst].amount + amount
      /\ e.supply = data[mint].supply + amount
  BY <1>1 DEF AccountData, MintData
<1>4. data[dst].amount \in Nat /\ data[mint].supply \in Nat /\ amount \in Nat
  BY <1>1, U64Assumption DEF AccountData, MintData, U64
<1>5. dst # mint
  BY <1>2 DEF IsAccount, IsMint
<1>6. /\ data'[dst] = d /\ data'[mint] = e
      /\ owner' = owner /\ lamports' = lamports
      /\ \A k \in Key \ {dst, mint} : data'[k] = data[k]
  <2> HIDE DEF d, e
  <2> QED
    BY <1>2, <1>5 DEF Pack, TokenInv, TypeOK
<1>7. owner[dst] = TokenProgram /\ owner[mint] = TokenProgram
  <2>1. CASE amount = 0
    BY <2>1 DEF MintTo, CheckAccountOwner
  <2>2. CASE amount # 0
    <3>1. d # data[dst] /\ e # data[mint]
      <4> HIDE DEF d, e
      <4> QED
        BY <1>3, <1>4, <2>2
    <3> HIDE DEF d, e
    <3> QED
      BY <1>2, <1>6, <3>1 DEF Pack, RuntimeAccepts
  <2> QED
    BY <2>1, <2>2
<1>8. SignedStep(S, dst)
  <2>1. IsLiveAccount(dst)
    BY <1>2, <1>7 DEF IsLiveAccount
  <2>2. Credited(dst)
    BY <1>2, <1>6 DEF Credited, Becomes, Follow
  <2> QED
    BY <2>1, <2>2, LiveAccountStep DEF AccountStep
<1>9. SignedStep(S, mint)
  <2>1. IsLiveMint(mint)
    BY <1>2, <1>7 DEF IsLiveMint
  <2>2. Issued(S, mint)
    BY <1>2, <1>6 DEF Issued, Becomes
  <2> QED
    BY <1>6, <2>1, <2>2, LiveMintStep DEF MintStep
<1> QED
  BY <1>6, <1>8, <1>9, TwoPacked

LEMMA BurnStep ==
    ASSUME TokenInv, NEW S, NEW src \in Key, NEW mint \in Key, NEW auth \in Key,
           NEW amount \in U64, NEW expected,
           Burn(S, src, mint, auth, amount, expected)
    PROVE  \A k \in Key : SignedStep(S, k)
<1> DEFINE a == data[src]
           abandoned == IsOwnedBySystemProgramOrIncinerator(a)
           rest == IF abandoned THEN a ELSE ReduceAllowance(a, auth, amount)
           d == [rest EXCEPT !.amount = a.amount - amount]
           e == [data[mint] EXCEPT !.supply = data[mint].supply - amount]
<1>1. a \in AccountData /\ data[mint] \in MintData
  BY KindOfAccount DEF Burn, IsAccount, IsMint, TokenInv
<1>2. /\ IsAccount(a) /\ ~IsFrozen(a) /\ ~IsNative(a) /\ a.mint = mint
      /\ IsMint(data[mint])
      /\ amount <= a.amount /\ amount <= data[mint].supply
      /\ abandoned \/ MaySpend(a, auth, amount, S)
      /\ Pack([data EXCEPT ![src] = d, ![mint] = e])
  BY DEF Burn
<1>3. rest \in AccountData
  <2>1. CASE abandoned
    BY <1>1, <2>1
  <2>2. CASE ~abandoned
    BY <1>1, <1>2, <2>2, ReduceAllowanceTyped
  <2> QED
    BY <2>1, <2>2
<1>4. d.amount = a.amount - amount
  <2> HIDE DEF rest
  <2> QED
    BY <1>3 DEF AccountData
<1>5. e.supply = data[mint].supply - amount
  BY <1>1 DEF MintData
<1>6. /\ a.amount \in Nat /\ data[mint].supply \in Nat /\ amount \in Nat
      /\ lamports[src] \in Nat
  BY <1>1, U64Assumption DEF AccountData, MintData, U64, TokenInv, TypeOK
<1>7. src # mint
  BY <1>2 DEF IsAccount, IsMint
<1>8. /\ data'[src] = d /\ data'[mint] = e
      /\ owner' = owner /\ lamports' = lamports
      /\ \A k \in Key \ {src, mint} : data'[k] = data[k]
  <2> HIDE DEF d, e
  <2> QED
    BY <1>2, <1>7 DEF Pack, TokenInv, TypeOK
<1>9. owner[src] = TokenProgram /\ owner[mint] = TokenProgram
  <2>1. CASE amount = 0
    BY <2>1 DEF Burn, CheckAccountOwner
  <2>2. CASE amount # 0
    <3> HIDE DEF d, e
    <3>1. d # a /\ e # data[mint]
      BY <1>4, <1>5, <1>6, <2>2
    <3> QED
      BY <1>2, <1>8, <3>1 DEF Pack, RuntimeAccepts
  <2> QED
    BY <2>1, <2>2
<1>10. SignedStep(S, src)
  <2>1. IsLiveAccount(src)
    BY <1>2, <1>9 DEF IsLiveAccount
  <2>2. Follow(src, -amount)
    BY <1>2, <1>8 DEF Follow
  <2>3. CASE abandoned
    <3>1. Becomes(src, [a EXCEPT !.amount = a.amount - amount])
      BY <1>8, <2>3 DEF Becomes
    <3>2. data'[mint].supply = data[mint].supply - amount
      BY <1>5, <1>8
    <3>3. BurntAbandoned(src)
      BY <1>2, <2>2, <2>3, <3>1, <3>2 DEF BurntAbandoned
    <3> QED
      BY <2>1, <3>3, LiveAccountStep DEF AccountStep
  <2>4. CASE ~abandoned
    <3>1. Becomes(src, [ReduceAllowance(a, auth, amount)
                           EXCEPT !.amount = a.amount - amount])
      BY <1>8, <2>4 DEF Becomes
    <3>2. SpentBy(auth, amount, S, src)
      BY <1>2, <2>2, <2>4, <3>1 DEF SpentBy
    <3> QED
      BY <2>1, <3>2, LiveAccountStep DEF AccountStep, Spent
  <2> QED
    BY <2>3, <2>4
<1>11. SignedStep(S, mint)
  <2>1. IsLiveMint(mint)
    BY <1>2, <1>9 DEF IsLiveMint
  <2>2. Burnt(mint)
    BY <1>2, <1>8 DEF Burnt, Becomes
  <2> QED
    BY <1>8, <2>1, <2>2, LiveMintStep DEF MintStep
<1> QED
  BY <1>8, <1>10, <1>11, TwoPacked

LEMMA TransferStep ==
    ASSUME TokenInv, NEW S, NEW src \in Key, NEW dst \in Key, NEW auth \in Key,
           NEW amount \in U64, NEW expected,
           Transfer(S, src, dst, auth, amount, expected)
    PROVE  \A k \in Key : SignedStep(S, k)
<1> DEFINE a == data[src]
           b == data[dst]
           rest == ReduceAllowance(a, auth, amount)
           d == [rest EXCEPT !.amount = a.amount - amount]
           e == [b EXCEPT !.amount = b.amount + amount]
<1>1. CASE src = dst
  <2>1. UNCHANGED <<lamports, owner, data>>
    BY <1>1 DEF Transfer, IsSelfTransfer, vars
  <2> QED
    BY <2>1, UntouchedKept, KeptIsSignedStep DEF TokenInv
<1>2. CASE src # dst
  <2>1. a \in AccountData /\ b \in AccountData
    BY KindOfAccount DEF Transfer, IsAccount, TokenInv
  <2>2. /\ IsAccount(a) /\ IsAccount(b) /\ a.mint = b.mint
        /\ ~IsFrozen(a) /\ ~IsFrozen(b)
        /\ amount <= a.amount /\ MaySpend(a, auth, amount, S)
    BY DEF Transfer
  <2>3. /\ data' = [data EXCEPT ![src] = d, ![dst] = e]
        /\ owner' = owner /\ RuntimeAccepts(TokenProgram)
        /\ IF IsNative(a) THEN Pay(src, dst, amount) ELSE lamports' = lamports
    BY <1>2 DEF Transfer, IsSelfTransfer
  <2>4. rest \in AccountData
    BY <2>1, <2>2, ReduceAllowanceTyped
  <2>5. d.amount = a.amount - amount
    <3> HIDE DEF rest
    <3> QED
      BY <2>4 DEF AccountData
  <2>6. e.amount = b.amount + amount
    BY <2>1 DEF AccountData
  <2>7. /\ a.amount \in Nat /\ b.amount \in Nat /\ amount \in Nat
        /\ lamports[src] \in Nat /\ lamports[dst] \in Nat
    BY <2>1, U64Assumption DEF AccountData, U64, TokenInv, TypeOK
  <2>8. /\ data'[src] = d /\ data'[dst] = e
        /\ \A k \in Key \ {src, dst} : data'[k] = data[k]
    <3> HIDE DEF d, e
    <3> QED
      BY <1>2, <2>3 DEF TokenInv, TypeOK
  <2>9. owner[src] = TokenProgram /\ owner[dst] = TokenProgram
    <3>1. CASE amount = 0
      BY <3>1 DEF Transfer, CheckAccountOwner
    <3>2. CASE amount # 0
      <4> HIDE DEF d, e
      <4>1. d # a /\ e # b
        BY <2>5, <2>6, <2>7, <3>2
      <4> QED
        BY <2>3, <2>8, <4>1 DEF RuntimeAccepts
    <3> QED
      BY <3>1, <3>2
  <2>10. IsLiveAccount(src) /\ IsLiveAccount(dst)
    BY <2>2, <2>9 DEF IsLiveAccount
  <2>11. IsNative(a) <=> IsNative(b)
    BY <2>2, <2>10 DEF TokenInv, AccountsNameMints
  <2>12. /\ Follow(src, -amount) /\ Follow(dst, amount)
         /\ \A k \in Key \ {src, dst} : lamports'[k] = lamports[k]
    <3>1. CASE IsNative(a)
      BY <1>2, <2>3, <2>7, <2>11, <3>1 DEF Pay, Follow, TokenInv, TypeOK
    <3>2. CASE ~IsNative(a)
      BY <2>3, <2>11, <3>2 DEF Follow
    <3> QED
      BY <3>1, <3>2
  <2>13. SignedStep(S, src)
    <3>1. Becomes(src, [ReduceAllowance(a, auth, amount)
                           EXCEPT !.amount = a.amount - amount])
      BY <2>3, <2>8 DEF Becomes
    <3>2. SpentBy(auth, amount, S, src)
      BY <2>2, <2>12, <3>1 DEF SpentBy
    <3> QED
      BY <2>10, <3>2, LiveAccountStep DEF AccountStep, Spent
  <2>14. SignedStep(S, dst)
    <3>1. Credited(dst)
      BY <2>2, <2>3, <2>8, <2>12 DEF Credited, Becomes
    <3> QED
      BY <2>10, <3>1, LiveAccountStep DEF AccountStep
  <2> QED
    BY <2>3, <2>8, <2>12, <2>13, <2>14, TwoPacked
<1> QED
  BY <1>1, <1>2

LEMMA CloseAccountStep ==
    ASSUME TokenInv, NEW S, NEW src \in Key, NEW dst \in Key,
           CloseAccount(S, src, dst)
    PROVE  \A k \in Key : SignedStep(S, k)
<1>1. /\ IsAccount(data[src]) /\ src # dst
      /\ data'[src] = EmptyData /\ owner'[src] = SystemProgram
      /\ \A k \in Key \ {src} : data'[k] = data[k] /\ owner'[k] = owner[k]
  BY DEF CloseAccount, DeleteAccount, IsClosableInto, TokenInv, TypeOK
<1>2. /\ lamports'[src] = 0
      /\ lamports'[dst] = lamports[dst] + lamports[src]
      /\ \A k \in Key \ {src, dst} : lamports'[k] = lamports[k]
  BY <1>1 DEF CloseAccount, TokenInv, TypeOK
<1>3. IsLiveAccount(src)
  <2>1. data'[src] # data[src]
    BY <1>1 DEF EmptyData, IsAccount
  <2> QED
    BY <1>1, <2>1 DEF CloseAccount, RuntimeAccepts, IsLiveAccount
<1>4. SignedStep(S, src)
  <2>1. Closed(S, src)
    BY <1>1, <1>2 DEF CloseAccount, MayReceiveAbandoned, Closed
  <2> QED
    BY <1>3, <2>1, LiveAccountStep DEF AccountStep
<1>5. SignedStep(S, dst)
  <2>1. lamports[dst] \in Nat /\ lamports[src] \in Nat
    BY U64Assumption DEF TokenInv, TypeOK, U64
  <2>2. Kept(dst)
    BY <1>1, <1>2, <2>1 DEF Kept
  <2> QED
    BY <2>2, KeptIsSignedStep
<1> QED
  BY <1>1, <1>2, <1>4, <1>5, UntouchedKept, KeptIsSignedStep DEF TokenInv

\* Whatever S signs, each address goes through one of its steps.
LEMMA SignedByStep ==
    ASSUME TokenInv, NEW S, SignedBy(S)
    PROVE  \A k \in Key : SignedStep(S, k)
<1>1. /\ MintAccounts \subseteq Key /\ TokenAccounts \subseteq Key
      /\ Owners \cup Delegates \subseteq Key
      /\ Refund \subseteq Key /\ Amount \cup Allowance \subseteq U64
  BY InputAssumption DEF MintAccounts, TokenAccounts
<1> QED
  BY <1>1, TransferStep, ApproveStep, RevokeStep, SetAuthorityStep, MintToStep,
     BurnStep, CloseAccountStep, ToggleFreezeAccountStep DEF SignedBy

-----------------------------------------------------------------------------
(* Steps that take no signature of a token account.                        *)

\* What was blank and is rent exempt afterwards, if it is live at all.
LEMMA BlankPacked ==
    ASSUME TokenInv, NEW k \in Key, NEW d,
           ~IsLive(k), d.kind = data[k].kind, IsRentExempt(k),
           Pack([data EXCEPT ![k] = d]),
           data'[k] = d /\ lamports'[k] = lamports[k] /\ IsLiveAccount(k)'
              => /\ Opened(k)
                 /\ IsNative(d) => d.is_native = MinBalance["account"]
    PROVE  \A j \in Key : UnsignedStep(j)
<1>1. /\ data'[k] = d /\ owner' = owner /\ lamports' = lamports
      /\ \A j \in Key \ {k} : data'[j] = data[j]
  BY DEF Pack, TokenInv, TypeOK
<1>2. lamports[k] \in Nat
  BY U64Assumption DEF TokenInv, TypeOK, U64
<1>3. UnsignedStep(k)
  BY <1>1, <1>2 DEF IsRentExempt, UnsignedStep, BlankStep, Exempted, IsLive
<1> QED
  BY <1>1, <1>3, UntouchedKept, KeptIsUnsigned DEF TokenInv

LEMMA UnclaimedIsNotLive ==
    ASSUME NEW k, ~AlreadyInUse(k)
    PROVE  ~IsLive(k)
BY DEF AlreadyInUse, IsLive, IsLiveMint, IsLiveAccount, IsLiveMultisig

LEMMA InitializeMintStep ==
    ASSUME TokenInv, NEW k \in Key, NEW decimals, NEW mintAuthority,
           NEW freezeAuthority,
           InitializeMint(k, decimals, mintAuthority, freezeAuthority)
    PROVE  \A j \in Key : UnsignedStep(j)
<1> DEFINE d == [data[k] EXCEPT !.mint_authority = mintAuthority,
                                !.decimals = decimals,
                                !.is_initialized = TRUE,
                                !.freeze_authority = freezeAuthority]
<1>1. data[k] \in MintData /\ ~IsLive(k) /\ IsRentExempt(k)
  BY KindOfAccount, UnclaimedIsNotLive DEF InitializeMint, TokenInv
<1>2. d.kind = "mint" /\ data[k].kind = "mint"
  BY <1>1 DEF MintData
<1>3. Pack([data EXCEPT ![k] = d])
  BY DEF InitializeMint
<1> HIDE DEF d
<1>4. data'[k] = d => ~IsLiveAccount(k)'
  BY <1>2 DEF IsLiveAccount, IsAccount
<1> QED
  BY <1>1, <1>2, <1>3, <1>4, BlankPacked

LEMMA InitializeMultisigStep ==
    ASSUME TokenInv, NEW k \in Key, NEW m, NEW signers,
           InitializeMultisig(k, m, signers)
    PROVE  \A j \in Key : UnsignedStep(j)
<1> DEFINE d == [kind |-> "multisig", m |-> m, is_initialized |-> TRUE,
                 signers |-> signers]
<1>1. ~IsLive(k) /\ IsRentExempt(k)
  BY UnclaimedIsNotLive DEF InitializeMultisig
<1>2. d.kind = "multisig" /\ data[k].kind = "multisig"
  BY DEF InitializeMultisig
<1>3. Pack([data EXCEPT ![k] = d])
  BY DEF InitializeMultisig
<1> HIDE DEF d
<1>4. data'[k] = d => ~IsLiveAccount(k)'
  BY <1>2 DEF IsLiveAccount, IsAccount
<1> QED
  BY <1>1, <1>2, <1>3, <1>4, BlankPacked

LEMMA OpensAtOpens ==
    ASSUME TokenInv, NEW k \in Key, NEW mint, NEW newOwner \in Owners,
           NEW reserve \in U64, OpensAt(k, mint, newOwner, reserve)
    PROVE  /\ ~IsLive(k) /\ UNCHANGED <<lamports, owner>>
           /\ \A j \in Key \ {k} : data'[j] = data[j]
           /\ data'[k].kind = "account"
           /\ IsLiveAccount(k)' => Opened(k)
           /\ IsNative(data'[k]) => data'[k].is_native = reserve
<1> DEFINE d == [kind |-> "account", mint |-> mint, owner |-> newOwner,
                 amount |-> IF mint = NativeMint THEN lamports[k] - reserve
                            ELSE 0,
                 delegate |-> None, state |-> "Initialized",
                 is_native |-> IF mint = NativeMint THEN reserve ELSE None,
                 delegated_amount |-> 0, close_authority |-> None]
<1>1. ~IsLive(k)
  BY UnclaimedIsNotLive DEF OpensAt
<1>2. Pack([data EXCEPT ![k] = d])
  BY DEF OpensAt
<1>3. /\ d.kind = "account" /\ d.owner \in Owners
      /\ d.delegate = None /\ d.close_authority = None
      /\ d.state = "Initialized"
      /\ IsNative(d) => d.is_native = reserve
  BY DEF IsNative
<1>4. IsNative(d) => d.is_native + d.amount = lamports[k]
  <2>1. reserve \in Nat /\ lamports[k] \in Nat
    BY U64Assumption DEF TokenInv, TypeOK, U64
  <2> QED
    BY <2>1 DEF IsNative
<1> HIDE DEF d
<1>5. /\ data'[k] = d /\ UNCHANGED <<lamports, owner>>
      /\ \A j \in Key \ {k} : data'[j] = data[j]
  BY <1>2 DEF Pack, TokenInv, TypeOK
<1>6. IsLiveAccount(k)' => Opened(k)
  BY <1>3, <1>4, <1>5 DEF Opened
<1> QED
  BY <1>1, <1>3, <1>5, <1>6

LEMMA OpensAtStep ==
    ASSUME TokenInv, NEW k \in Key, NEW mint, NEW newOwner \in Owners,
           NEW reserve \in U64, OpensAt(k, mint, newOwner, reserve)
    PROVE  \A j \in Key : KeyStep({}, j)
<1>1. /\ ~IsLive(k) /\ UNCHANGED <<lamports, owner>>
      /\ \A j \in Key \ {k} : data'[j] = data[j]
      /\ IsLiveAccount(k)' => Opened(k)
  BY OpensAtOpens
<1>2. lamports[k] \in Nat
  BY U64Assumption DEF TokenInv, TypeOK, U64
<1>3. KeyStep({}, k)
  BY <1>1, <1>2 DEF KeyStep, BlankStep, IsLive
<1> QED
  BY <1>1, <1>3, UntouchedKept, KeptIsUnsigned, UnsignedIsKeyStep DEF TokenInv

LEMMA InitializeAccountStep ==
    ASSUME TokenInv, NEW k \in Key, NEW mint, NEW newOwner \in Owners,
           InitializeAccount(k, mint, newOwner)
    PROVE  \A j \in Key : UnsignedStep(j)
<1>1. /\ ~IsLive(k) /\ UNCHANGED <<lamports, owner>>
      /\ \A j \in Key \ {k} : data'[j] = data[j]
      /\ data'[k].kind = "account"
      /\ IsLiveAccount(k)' => Opened(k)
      /\ IsNative(data'[k]) => data'[k].is_native = MinBalance["account"]
  BY OpensAtOpens, InitializeAccountOpens, ClientAssumption
<1>2. lamports[k] \in Nat /\ lamports[k] >= MinBalance["account"]
  BY U64Assumption DEF InitializeAccount, IsRentExempt, TokenInv, TypeOK, U64
<1>3. UnsignedStep(k)
  BY <1>1, <1>2 DEF UnsignedStep, BlankStep, Exempted, IsLive
<1> QED
  BY <1>1, <1>3, UntouchedKept, KeptIsUnsigned DEF TokenInv

LEMMA SyncNativeStep ==
    ASSUME TokenInv, NEW k \in Key, SyncNative(k)
    PROVE  \A j \in Key : UnsignedStep(j)
<1>1. /\ IsLiveAccount(k) /\ owner' = owner /\ lamports' = lamports
      /\ \A j \in Key \ {k} : data'[j] = data[j]
  BY DEF SyncNative, CheckAccountOwner, IsLiveAccount, Pack, TokenInv, TypeOK
<1>2. Synced(k)
  BY <1>1 DEF SyncNative, Synced, Becomes, Pack, TokenInv, TypeOK
<1>3. UnsignedStep(k)
  BY <1>1, <1>2, LiveIsOneKind DEF UnsignedStep, IsLive
<1> QED
  BY <1>1, <1>3, UntouchedKept, KeptIsUnsigned DEF TokenInv

LEMMA PermissionlessStep ==
    ASSUME TokenInv, Permissionless
    PROVE  \A k \in Key : UnsignedStep(k)
<1>1. /\ MintAccounts \subseteq Key /\ TokenAccounts \subseteq Key
      /\ MultisigAccounts \subseteq Key
  BY DEF MintAccounts, TokenAccounts, MultisigAccounts
<1> QED
  BY <1>1, InitializeMintStep, InitializeAccountStep, InitializeMultisigStep,
     SyncNativeStep DEF Permissionless

\* What another program or a wallet leaves behind is not live.
LEMMA ForeignStep ==
    ASSUME NEW k, owner[k] # TokenProgram,
           owner'[k] # TokenProgram \/ data'[k] \in Zeroed
    PROVE  UnsignedStep(k)
<1>1. ~IsLive(k)
  BY DEF IsLive, IsLiveMint, IsLiveAccount, IsLiveMultisig
<1>2. ~IsLive(k)'
  BY ZeroedIsBlank DEF IsLive, IsLiveMint, IsLiveAccount, IsLiveMultisig
<1>3. ~IsLiveMint(k) /\ ~IsLiveAccount(k) /\ ~IsLiveMultisig(k)
  BY <1>1 DEF IsLive
<1> QED
  BY <1>2, <1>3 DEF UnsignedStep, BlankStep, Exempted, IsLive

\* A payment by a wallet leaves every other address at least what it had.
LEMMA WalletPays ==
    ASSUME TypeOK, NEW from \in Key, NEW to \in Key, NEW n \in U64,
           IsWallet(from), Pay(from, to, n)
    PROVE  /\ owner[from] # TokenProgram
           /\ \A k \in Key : k # from => lamports'[k] >= lamports[k]
<1>1. owner[from] # TokenProgram
  BY ProgramAssumption DEF IsWallet
<1>2. \A k \in Key : k # from => lamports'[k] >= lamports[k]
  BY U64Assumption DEF TypeOK, Pay, U64
<1> QED
  BY <1>1, <1>2

LEMMA EnvironmentStep ==
    ASSUME TokenInv, Environment
    PROVE  \A k \in Key : UnsignedStep(k)
<1>1. ASSUME NEW from \in Key, NEW to \in Key, NEW n \in U64,
             SystemTransfer(from, to, n)
      PROVE  \A k \in Key : UnsignedStep(k)
  <2>1. /\ owner[from] # TokenProgram /\ owner' = owner /\ data' = data
        /\ \A k \in Key : k # from => lamports'[k] >= lamports[k]
    BY <1>1, WalletPays DEF SystemTransfer, TokenInv
  <2>2. \A k \in Key : k # from => Kept(k)
    BY <2>1 DEF Kept
  <2> QED
    BY <2>1, <2>2, KeptIsUnsigned, ForeignStep
<1>2. ASSUME NEW from \in Key, NEW k \in Key, NEW zero \in Zeroed, NEW program,
             NEW n \in U64, CreateAccount(from, k, zero, program, n)
      PROVE  \A j \in Key : UnsignedStep(j)
  <2>1. /\ owner[from] # TokenProgram
        /\ \A j \in Key : j # from => lamports'[j] >= lamports[j]
    BY <1>2, WalletPays DEF CreateAccount, TokenInv
  <2>2. /\ data'[k] = zero
        /\ \A j \in Key \ {k} : data'[j] = data[j] /\ owner'[j] = owner[j]
        /\ from # k
    BY <1>2 DEF CreateAccount, Pay, TokenInv, TypeOK
  <2>3. owner[k] # TokenProgram
    BY <1>2, ProgramAssumption DEF CreateAccount, IsWallet
  <2>4. \A j \in Key : j # from /\ j # k => Kept(j)
    BY <2>1, <2>2 DEF Kept
  <2> QED
    BY <2>1, <2>2, <2>3, <2>4, KeptIsUnsigned, ForeignStep
<1>3. ASSUME NEW k \in Key, NEW d, OtherProgramWrites(k, d)
      PROVE  \A j \in Key : UnsignedStep(j)
  <2>1. /\ owner[k] # TokenProgram /\ owner' = owner /\ lamports' = lamports
        /\ \A j \in Key \ {k} : data'[j] = data[j]
    BY <1>3, ProgramAssumption DEF OtherProgramWrites, TokenInv, TypeOK
  <2> QED
    BY <2>1, UntouchedKept, KeptIsUnsigned, ForeignStep DEF TokenInv
<1>4. ASSUME NEW k \in Key, NEW zero \in Zeroed, OtherProgramAssigns(k, zero)
      PROVE  \A j \in Key : UnsignedStep(j)
  <2>1. /\ owner[k] # TokenProgram /\ data'[k] = zero /\ lamports' = lamports
        /\ \A j \in Key \ {k} : data'[j] = data[j] /\ owner'[j] = owner[j]
    BY <1>4, ProgramAssumption DEF OtherProgramAssigns, TokenInv, TypeOK
  <2> QED
    BY <2>1, UntouchedKept, KeptIsUnsigned, ForeignStep DEF TokenInv
<1>5. /\ \A k : Layouts(k) \subseteq Zeroed
      /\ EmptyData \in Zeroed
  BY DEF Layouts, Zeroed
<1>6. /\ Signer \subseteq Key /\ ForeignKey \subseteq Key
      /\ FundAmount \subseteq U64 /\ GiftAmount \subseteq U64
  BY ClientAssumption
<1> QED
  BY <1>1, <1>2, <1>3, <1>4, <1>5, <1>6 DEF Environment

\* Every step takes each address through one of its steps.
LEMMA NextStep ==
    ASSUME TokenInv, [Next]_vars
    PROVE  \E S \in SUBSET Signer : \A k \in Key :
              KeyStep(S, k) /\ (~IsLive(k) => Exempted(k))
<1>1. CASE \E S \in SUBSET Signer : SignedBy(S)
  BY <1>1, SignedByStep, SignedIsKeyStep
<1>2. CASE Environment \/ Permissionless \/ UNCHANGED vars
  <2>1. \A k \in Key : UnsignedStep(k)
    <3>1. CASE UNCHANGED vars
      BY <3>1, UntouchedKept, KeptIsUnsigned DEF vars, TokenInv
    <3> QED
      BY <1>2, <3>1, EnvironmentStep, PermissionlessStep
  <2>2. {} \in SUBSET Signer
    OBVIOUS
  <2> QED
    BY <2>1, <2>2, UnsignedIsKeyStep DEF UnsignedStep
<1> QED
  BY <1>1, <1>2 DEF Next

LEMMA AnyRentStep ==
    ASSUME TokenInv, [AnyRentNext]_vars
    PROVE  \E S \in SUBSET Signer : \A k \in Key : KeyStep(S, k)
<1>1. CASE [Next]_vars
  BY <1>1, NextStep
<1>2. ASSUME NEW k \in Key, NEW mint \in Key, NEW newOwner \in Owners,
             NEW reserve \in U64, OpensAt(k, mint, newOwner, reserve)
      PROVE  \E S \in SUBSET Signer : \A j \in Key : KeyStep(S, j)
  <2>1. {} \in SUBSET Signer
    OBVIOUS
  <2> QED
    BY <1>2, <2>1, OpensAtStep
<1> QED
  BY <1>1, <1>2 DEF AnyRentNext

-----------------------------------------------------------------------------
(* Consent.                                                                *)

\* A finite set has subsets of every smaller size.
LEMMA SmallerSubset ==
    ASSUME NEW P, IsFiniteSet(P), NEW m \in Nat, m <= Cardinality(P)
    PROVE  \E Q \in SUBSET P : Cardinality(Q) = m
<1> DEFINE n == Cardinality(P)
<1>1. n \in Nat /\ ExistsBijection(1 .. n, P)
  BY FS_CardinalityType
<1>2. PICK f \in Bijection(1 .. n, P) : TRUE
  BY <1>1 DEF ExistsBijection
<1> DEFINE Q == {f[i] : i \in 1 .. m}
           g == [i \in 1 .. m |-> f[i]]
<1>3. 1 .. m \subseteq 1 .. n
  BY <1>1
<1> HIDE DEF n
<1>4. Q \subseteq P
  BY <1>2, <1>3 DEF Bijection, Injection
<1>5. g \in Bijection(1 .. m, Q)
  BY <1>2, <1>3 DEF Bijection, Injection, Surjection, IsInjective
<1>6. ExistsBijection(1 .. m, Q)
  <2> HIDE DEF Q, g
  <2> QED
    BY <1>5 DEF ExistsBijection
<1>7. Cardinality(Q) = m
  <2> HIDE DEF Q
  <2> QED
    BY <1>6, FS_CountingElements
<1> QED
  BY <1>4, <1>7

\* What validate_owner counts is a quorum of signatures.
LEMMA ValidateOwnerSigns ==
    ASSUME TypeOK, NEW k \in Key, NEW S, ValidateOwner(k, S)
    PROVE  Signs(k, S)
<1>1. k # None
  BY KeyAssumption
<1>2. CASE owner[k] = TokenProgram /\ data[k].kind = "multisig"
  <2> DEFINE P == {p \in DOMAIN data[k].signers : data[k].signers[p] \in S}
  <2>1. IsMultisig(data[k]) /\ data[k].m <= Cardinality(P)
    BY <1>2 DEF ValidateOwner
  <2>2. data[k] \in MultisigData
    BY <1>2, KindOfAccount
  <2>3. PICK n \in 0 .. MaxSigners : data[k].signers \in [1 .. n -> Key]
    BY <2>2 DEF MultisigData
  <2>4. DOMAIN data[k].signers = 1 .. n /\ n \in Int
    BY <2>3, SizeAssumption
  <2>5. IsFiniteSet(1 .. n)
    BY <2>4, FS_Interval
  <2>6. IsFiniteSet(P)
    <3>1. P \in SUBSET (1 .. n)
      BY <2>4
    <3> HIDE DEF P
    <3> QED
      BY <2>5, <3>1, FS_Subset
  <2>7. data[k].m \in Nat
    BY <2>2, SizeAssumption DEF MultisigData
  <2>8. PICK Q \in SUBSET P : Cardinality(Q) = data[k].m
    <3> HIDE DEF P
    <3> QED
      BY <2>1, <2>6, <2>7, SmallerSubset
  <2>9. /\ Q \in SUBSET (DOMAIN data[k].signers)
        /\ \A p \in Q : data[k].signers[p] \in S
    BY <2>8
  <2> QED
    BY <1>1, <1>2, <2>1, <2>8, <2>9 DEF Signs, IsLiveMultisig
<1>3. CASE ~(owner[k] = TokenProgram /\ data[k].kind = "multisig")
  BY <1>1, <1>3 DEF ValidateOwner, Signs
<1> QED
  BY <1>2, <1>3

\* A step at k that nobody makes without who's signature.
LEMMA Consent ==
    ASSUME TokenInv, NEW k \in Key, NEW who \in Key,
           ~UnsignedStep(k),
           \A S \in SUBSET Signer : KeyStep(S, k) => ValidateOwner(who, S)
    PROVE  HasConsentOf(who)
<1>1. \A S \in SUBSET Signer : ~Signs(who, S) => ~SignedBy(S)
  BY SignedByStep, SignedIsKeyStep, ValidateOwnerSigns DEF TokenInv
<1>2. ~Permissionless /\ ~Environment
  BY PermissionlessStep, EnvironmentStep
<1> QED
  BY <1>1, <1>2 DEF HasConsentOf

-----------------------------------------------------------------------------
(* The fields of an account after its steps.                               *)

LEMMA LiveAccountData ==
    ASSUME TypeOK, NEW k \in Key, IsLiveAccount(k)
    PROVE  /\ data[k] \in AccountData
           /\ data[k].kind = "account" /\ data[k].state # "Uninitialized"
           /\ data[k].amount \in Nat /\ data[k].delegated_amount \in Nat
           /\ lamports[k] \in Nat
           /\ IsNative(data[k]) => data[k].is_native \in Nat
<1>1. data[k] \in AccountData
  BY KindOfAccount DEF IsLiveAccount, IsAccount
<1> QED
  BY <1>1, U64Assumption
     DEF AccountData, U64, IsNative, IsLiveAccount, IsAccount, TypeOK

LEMMA SpentFields ==
    ASSUME TypeOK, NEW k \in Key, IsLiveAccount(k),
           NEW auth \in Key, NEW n \in U64, NEW S, SpentBy(auth, n, S, k)
    PROVE  /\ StaysLive(k)
           /\ data'[k].mint = data[k].mint
           /\ data'[k].owner = data[k].owner
           /\ data'[k].state = data[k].state
           /\ data'[k].is_native = data[k].is_native
           /\ data'[k].close_authority = data[k].close_authority
           /\ data'[k].amount = data[k].amount - n
           /\ IF data[k].delegate = auth
              THEN /\ data'[k].delegated_amount = data[k].delegated_amount - n
                   /\ n <= data[k].delegated_amount
                   /\ data'[k].delegate \in {None, data[k].delegate}
              ELSE /\ data[k].owner = auth
                   /\ data'[k].delegated_amount = data[k].delegated_amount
                   /\ data'[k].delegate = data[k].delegate
<1> DEFINE a == data[k]
           rest == ReduceAllowance(a, auth, n)
<1>1. a \in AccountData /\ a.kind = "account" /\ a.state # "Uninitialized"
  BY LiveAccountData
<1>2. /\ rest \in AccountData
      /\ rest.state = a.state /\ rest.mint = a.mint
      /\ rest.is_native = a.is_native
  BY <1>1, ReduceAllowanceTyped, ReduceAllowanceKeeps DEF SpentBy
<1>3. /\ rest.owner = a.owner
      /\ rest.close_authority = a.close_authority
      /\ IF a.delegate = auth
         THEN /\ rest.delegated_amount = a.delegated_amount - n
              /\ rest.delegate \in {None, a.delegate}
         ELSE rest = a
  BY <1>1 DEF ReduceAllowance, AccountData
<1>4. /\ data'[k] = [rest EXCEPT !.amount = a.amount - n]
      /\ owner'[k] = TokenProgram
  BY DEF SpentBy, Becomes, IsLiveAccount
<1>5. IF a.delegate = auth THEN n <= a.delegated_amount ELSE a.owner = auth
  BY DEF SpentBy, MaySpend
<1> HIDE DEF rest
<1>6. /\ data'[k].kind = "account" /\ data'[k].amount = a.amount - n
      /\ data'[k].state = rest.state /\ data'[k].mint = rest.mint
      /\ data'[k].is_native = rest.is_native /\ data'[k].owner = rest.owner
      /\ data'[k].close_authority = rest.close_authority
      /\ data'[k].delegate = rest.delegate
      /\ data'[k].delegated_amount = rest.delegated_amount
  BY <1>2, <1>4 DEF AccountData
<1>7. StaysLive(k)
  BY <1>1, <1>2, <1>4, <1>6 DEF StaysLive, IsAccount
<1> QED
  BY <1>2, <1>3, <1>5, <1>6, <1>7

\* An account that is not closed keeps its mint, and its other fields change
\* only in the steps that are there to change them.
AccountLivesOn(S, k) ==
    /\ StaysLive(k)
    /\ data'[k].mint = data[k].mint
    /\ data'[k].is_native = data[k].is_native
    /\ data'[k].state = data[k].state \/ Toggled(S, k)
    /\ data'[k].amount >= data[k].amount \/ Spent(S, k) \/ BurntAbandoned(k)
    /\ \/ data'[k].delegate = None
       \/ /\ data'[k].owner = data[k].owner
          /\ \/ /\ data'[k].delegate = data[k].delegate
                /\ data'[k].delegated_amount <= data[k].delegated_amount
             \/ Delegated(S, k)
    /\ \/ data'[k].close_authority = None
       \/ /\ ~IsNative(data[k]) \/ data'[k].owner = data[k].owner
          /\ \/ data'[k].close_authority = data[k].close_authority
             \/ CloserSet(S, k)
    /\ data'[k].owner = data[k].owner \/ data'[k].owner \in Owners
    /\ \/ data'[k].delegate = data[k].delegate
       \/ data'[k].delegate \in Delegates \cup {None}
    /\ lamports'[k] >= lamports[k] \/ Spent(S, k)
    /\ IsNative(data[k]) =>
          \/ lamports'[k] - data'[k].amount >= lamports[k] - data[k].amount
          \/ Synced(k)

LEMMA AccountStepKinds ==
    ASSUME TypeOK, TypeOK', NEW S, NEW k \in Key,
           IsLiveAccount(k), AccountStep(S, k)
    PROVE  Closed(S, k) \/ AccountLivesOn(S, k)
<1> DEFINE a == data[k]
<1>1. /\ a \in AccountData /\ a.kind = "account" /\ a.state # "Uninitialized"
      /\ a.amount \in Nat /\ a.delegated_amount \in Nat /\ lamports[k] \in Nat
      /\ IsNative(a) => a.is_native \in Nat
  BY LiveAccountData
<1>2. owner[k] = TokenProgram
  BY DEF IsLiveAccount
<1>3. \A n \in U64 : n \in Nat
  BY U64Assumption DEF U64
<1>4. IsAccount(data'[k]) /\ owner'[k] = owner[k] => StaysLive(k)
  BY <1>2 DEF StaysLive
<1> USE DEF AccountLivesOn, IsAccount
<1>5. CASE Kept(k)
  <2>1. /\ data'[k] = a /\ owner'[k] = owner[k]
        /\ lamports'[k] >= lamports[k]
    BY <1>5 DEF Kept
  <2>2. lamports'[k] - a.amount >= lamports[k] - a.amount
    BY <1>1, <2>1, U64Assumption DEF TypeOK, U64
  <2> QED
    BY <1>1, <1>4, <2>1, <2>2
<1>6. CASE Spent(S, k)
  <2>1. PICK auth \in Key, n \in U64 : SpentBy(auth, n, S, k)
    BY <1>6 DEF Spent
  <2>2. lamports'[k] = IF IsNative(a) THEN lamports[k] - n ELSE lamports[k]
    BY <1>1, <1>3, <2>1 DEF SpentBy, Follow
  <2>3. data'[k].amount = a.amount - n /\ n \in Nat
    BY <1>3, <2>1, SpentFields
  <2>4. IsNative(a) =>
           lamports'[k] - data'[k].amount >= lamports[k] - a.amount
    BY <1>1, <2>2, <2>3
  <2> QED
    BY <1>1, <1>3, <1>6, <2>1, <2>4, SpentFields
<1>7. CASE BurntAbandoned(k)
  BY <1>1, <1>3, <1>4, <1>7 DEF BurntAbandoned, Becomes, Follow, AccountData
<1>8. CASE Credited(k)
  <2>1. PICK n \in Nat : /\ Becomes(k, [a EXCEPT !.amount = a.amount + n])
                         /\ Follow(k, n)
    BY <1>3, <1>8 DEF Credited
  <2>2. /\ data'[k].kind = "account" /\ data'[k].state = a.state
        /\ data'[k].mint = a.mint /\ data'[k].is_native = a.is_native
        /\ data'[k].owner = a.owner /\ data'[k].delegate = a.delegate
        /\ data'[k].delegated_amount = a.delegated_amount
        /\ data'[k].close_authority = a.close_authority
        /\ data'[k].amount = a.amount + n
        /\ owner'[k] = owner[k]
    BY <1>1, <2>1 DEF Becomes, AccountData
  <2> QED
    BY <1>1, <1>4, <2>1, <2>2 DEF Follow
<1>9. CASE Synced(k)
  BY <1>1, <1>4, <1>9 DEF Synced, Becomes, Wrapped, AccountData
<1>10. CASE Delegated(S, k)
  <2>1. PICK delegate \in Delegates \cup {None}, amount \in U64 :
           /\ Becomes(k, [a EXCEPT !.delegate = delegate,
                                  !.delegated_amount = amount])
           /\ lamports'[k] = lamports[k]
    BY <1>10, Zenon DEF Delegated
  <2>2. /\ data'[k].kind = "account" /\ data'[k].state = a.state
        /\ data'[k].mint = a.mint /\ data'[k].is_native = a.is_native
        /\ data'[k].owner = a.owner /\ data'[k].amount = a.amount
        /\ data'[k].close_authority = a.close_authority
        /\ data'[k].delegate = delegate /\ owner'[k] = owner[k]
    BY <1>1, <2>1 DEF Becomes, AccountData
  <2> QED
    BY <1>1, <1>4, <1>10, <2>1, <2>2
<1>11. CASE HandedOver(S, k)
  <2>1. PICK newOwner \in Owners : /\ Becomes(k, HandOver(a, newOwner))
                                   /\ lamports'[k] = lamports[k]
    BY <1>11, Zenon DEF HandedOver
  <2>2. /\ data'[k].kind = "account" /\ data'[k].state = a.state
        /\ data'[k].mint = a.mint /\ data'[k].is_native = a.is_native
        /\ data'[k].owner = newOwner /\ data'[k].amount = a.amount
        /\ data'[k].delegate = None /\ owner'[k] = owner[k]
    BY <1>1, <2>1 DEF Becomes, HandOver, AccountData
  <2>3. data'[k].close_authority =
           IF IsNative(a) THEN None ELSE a.close_authority
    BY <1>1, <2>1 DEF Becomes, HandOver, AccountData
  <2> QED
    BY <1>1, <1>4, <2>1, <2>2, <2>3
<1>12. CASE CloserSet(S, k)
  <2>1. PICK closer : /\ Becomes(k, [a EXCEPT !.close_authority = closer])
                      /\ lamports'[k] = lamports[k]
    BY <1>12, Zenon DEF CloserSet
  <2>2. /\ data'[k].kind = "account" /\ data'[k].state = a.state
        /\ data'[k].mint = a.mint /\ data'[k].is_native = a.is_native
        /\ data'[k].owner = a.owner /\ data'[k].amount = a.amount
        /\ data'[k].delegate = a.delegate
        /\ data'[k].delegated_amount = a.delegated_amount
        /\ owner'[k] = owner[k]
    BY <1>1, <2>1 DEF Becomes, AccountData
  <2> QED
    BY <1>1, <1>4, <1>12, <2>1, <2>2
<1>13. CASE Toggled(S, k)
  BY <1>1, <1>4, <1>13 DEF Toggled, Becomes, AccountData
<1>14. CASE Closed(S, k)
  BY <1>14
<1> QED
  BY <1>5, <1>6, <1>7, <1>8, <1>9, <1>10, <1>11, <1>12, <1>13, <1>14
     DEF AccountStep

LEMMA MintStepFields ==
    ASSUME TypeOK, NEW S, NEW k \in Key, IsLiveMint(k), MintStep(S, k)
    PROVE  /\ IsLiveMint(k)'
           /\ data'[k].decimals = data[k].decimals
           /\ lamports'[k] >= lamports[k]
           /\ data'[k].supply <= data[k].supply \/ Issued(S, k)
           /\ \/ data'[k].mint_authority = data[k].mint_authority
              \/ MinterSet(S, k)
           /\ \/ data'[k].freeze_authority = data[k].freeze_authority
              \/ FreezerSet(S, k)
<1>1. /\ data[k] \in MintData /\ data[k].kind = "mint"
      /\ data[k].supply \in Nat /\ lamports[k] \in Nat
      /\ owner[k] = TokenProgram /\ data[k].is_initialized
  <2>1. data[k] \in MintData
    BY KindOfAccount DEF IsLiveMint, IsMint
  <2> QED
    BY <2>1, U64Assumption DEF MintData, U64, TypeOK, IsLiveMint, IsMint
<1> USE DEF IsLiveMint, IsMint
<1>2. CASE Kept(k)
  BY <1>1, <1>2 DEF Kept
<1>3. CASE lamports'[k] = lamports[k] /\ Issued(S, k)
  <2>1. PICK n : Becomes(k, [data[k] EXCEPT !.supply = data[k].supply + n])
    BY <1>3 DEF Issued
  <2> QED
    BY <1>1, <1>3, <2>1 DEF Becomes, MintData
<1>4. CASE lamports'[k] = lamports[k] /\ Burnt(k)
  <2>1. PICK n \in U64 :
           /\ n <= data[k].supply
           /\ Becomes(k, [data[k] EXCEPT !.supply = data[k].supply - n])
    BY <1>4 DEF Burnt
  <2>2. data[k].supply - n <= data[k].supply
    BY <1>1, <2>1, U64Assumption DEF U64
  <2> QED
    BY <1>1, <1>4, <2>1, <2>2 DEF Becomes, MintData
<1>5. CASE lamports'[k] = lamports[k] /\ MinterSet(S, k)
  <2>1. PICK minter : Becomes(k, [data[k] EXCEPT !.mint_authority = minter])
    BY <1>5 DEF MinterSet
  <2> QED
    BY <1>1, <1>5, <2>1 DEF Becomes, MintData
<1>6. CASE lamports'[k] = lamports[k] /\ FreezerSet(S, k)
  <2>1. PICK freezer : Becomes(k, [data[k] EXCEPT !.freeze_authority = freezer])
    BY <1>6 DEF FreezerSet
  <2> QED
    BY <1>1, <1>6, <2>1 DEF Becomes, MintData
<1> QED
  BY <1>2, <1>3, <1>4, <1>5, <1>6 DEF MintStep

LEMMA ClosedEnds ==
    ASSUME NEW S, NEW k, Closed(S, k)
    PROVE  ~StaysLive(k) /\ IsWallet(k)' /\ lamports'[k] = 0
BY ProgramAssumption DEF Closed, StaysLive, IsWallet

\* Without a signature that counts an account is only synced.
LEMMA UnsignedAccount ==
    ASSUME TypeOK, NEW k \in Key, IsLiveAccount(k), UnsignedStep(k)
    PROVE  /\ StaysLive(k)
           /\ data'[k].amount >= data[k].amount
           /\ lamports'[k] >= lamports[k]
           /\ data'[k] = data[k] \/ IsNative(data[k])
           /\ data'[k].delegate = data[k].delegate
           /\ data'[k].delegated_amount = data[k].delegated_amount
           /\ data'[k].close_authority = data[k].close_authority
<1>1. /\ data[k] \in AccountData /\ IsAccount(data[k])
      /\ data[k].amount \in Nat /\ lamports[k] \in Nat
      /\ IsNative(data[k]) => data[k].is_native \in Nat
  BY LiveAccountData DEF IsLiveAccount
<1>2. CASE Kept(k)
  BY <1>1, <1>2 DEF Kept, StaysLive, IsLiveAccount
<1>3. CASE Synced(k)
  <2>1. /\ data'[k].kind = data[k].kind /\ data'[k].state = data[k].state
        /\ data'[k].amount = Wrapped(k)
        /\ data'[k].delegate = data[k].delegate
        /\ data'[k].delegated_amount = data[k].delegated_amount
        /\ data'[k].close_authority = data[k].close_authority
    BY <1>1, <1>3 DEF Synced, Becomes, AccountData
  <2> QED
    BY <1>1, <1>3, <2>1
       DEF Synced, Becomes, Wrapped, StaysLive, IsLiveAccount, IsAccount
<1> QED
  BY <1>2, <1>3 DEF UnsignedStep

\* The step of a live account, with some set of signers.
LEMMA AccountNextStep ==
    ASSUME TokenInv, TypeOK', [AnyRentNext]_vars, NEW k \in Key, IsLiveAccount(k)
    PROVE  \E S \in SUBSET Signer :
              /\ KeyStep(S, k) /\ AccountStep(S, k)
              /\ Closed(S, k) \/ AccountLivesOn(S, k)
<1>1. PICK S \in SUBSET Signer : KeyStep(S, k)
  BY AnyRentStep
<1>2. AccountStep(S, k)
  BY <1>1 DEF KeyStep
<1> QED
  BY <1>1, <1>2, AccountStepKinds DEF TokenInv

\* An account that a step brings to life was opened by it.
LEMMA NewAccountOpened ==
    ASSUME TokenInv, [AnyRentNext]_vars, NEW k \in Key,
           ~IsLiveAccount(k), IsLiveAccount(k)'
    PROVE  Opened(k)
<1>1. PICK S \in SUBSET Signer : KeyStep(S, k)
  BY AnyRentStep
<1>2. ~IsLiveMint(k) /\ ~IsLiveMultisig(k)
  <2>1. CASE IsLiveMint(k)
    BY <1>1, <2>1, MintStepFields
       DEF KeyStep, IsLiveMint, IsMint, IsLiveAccount, IsAccount, TokenInv
  <2>2. CASE IsLiveMultisig(k)
    BY <1>1, <2>2 DEF KeyStep, Kept, IsLiveMultisig, IsMultisig,
                      IsLiveAccount, IsAccount
  <2> QED
    BY <2>1, <2>2
<1> QED
  BY <1>1, <1>2 DEF KeyStep, BlankStep, IsLive

-----------------------------------------------------------------------------
(* Invariants about lamports.                                              *)

\* A frozen account is not native: the mint of the native accounts has no
\* freeze authority, and process_toggle_freeze_account refuses them besides.
FrozenIsNotNative ==
    \A k \in Key : IsLiveAccount(k) /\ IsFrozen(data[k]) => ~IsNative(data[k])

\* What TokenInv leaves out of the accounts' money: what stays true at any rent,
\* and what makes it the rent of the chain.
MoneyInv == WrappedLamportsBacked /\ FrozenIsNotNative

RentInv == ReserveIsRent /\ StaysRentExempt

LEMMA BackedKept ==
    ASSUME TokenInv, TypeOK', [AnyRentNext]_vars, WrappedLamportsBacked
    PROVE  WrappedLamportsBacked'
<1> SUFFICES ASSUME NEW k \in Key, IsLiveAccount(k)', IsNative(data'[k])
             PROVE  data'[k].is_native + data'[k].amount <= lamports'[k]
  BY DEF WrappedLamportsBacked
<1>1. /\ data'[k].amount \in Nat /\ lamports'[k] \in Nat
      /\ data'[k].is_native \in Nat
  <2>1. data'[k] \in Data /\ lamports'[k] \in U64
    BY DEF TypeOK
  <2>2. data'[k] \in AccountData
    BY <2>1, KindOfData DEF IsLiveAccount, IsAccount
  <2> QED
    BY <2>1, <2>2, U64Assumption DEF AccountData, U64, IsNative
<1>2. CASE IsLiveAccount(k)
  <2>1. PICK S \in SUBSET Signer : Closed(S, k) \/ AccountLivesOn(S, k)
    BY <1>2, AccountNextStep
  <2>2. AccountLivesOn(S, k)
    BY <2>1, ClosedEnds DEF StaysLive, IsLiveAccount
  <2>3. /\ IsNative(data[k]) /\ data'[k].is_native = data[k].is_native
        /\ data[k].is_native + data[k].amount <= lamports[k]
    BY <1>2, <2>2 DEF AccountLivesOn, IsNative, WrappedLamportsBacked
  <2>4. /\ data[k] \in AccountData
        /\ data[k].amount \in Nat /\ lamports[k] \in Nat
    BY <1>2, LiveAccountData DEF TokenInv
  <2>5. CASE Synced(k)
    <3>1. data'[k].amount = lamports[k] - data[k].is_native
      BY <2>4, <2>5 DEF Synced, Becomes, Wrapped, AccountData
    <3> QED
      BY <1>1, <2>3, <2>4, <2>5, <3>1 DEF Synced
  <2>6. CASE lamports'[k] - data'[k].amount >= lamports[k] - data[k].amount
    BY <1>1, <2>3, <2>4, <2>6
  <2> QED
    BY <2>2, <2>3, <2>5, <2>6 DEF AccountLivesOn
<1>3. CASE ~IsLiveAccount(k)
  <2>1. Opened(k)
    BY <1>3, NewAccountOpened
  <2> QED
    BY <1>1, <2>1 DEF Opened
<1> QED
  BY <1>2, <1>3

LEMMA RentKept ==
    ASSUME TokenInv, TypeOK', [Next]_vars, RentInv, WrappedLamportsBacked'
    PROVE  RentInv'
<1> SUFFICES ASSUME NEW k \in Key, IsLive(k)'
             PROVE  Exempted(k)
  BY DEF RentInv, ReserveIsRent, StaysRentExempt, Exempted, IsLive
<1> USE LiveIsOneKind
<1>1. PICK S \in SUBSET Signer : KeyStep(S, k) /\ (~IsLive(k) => Exempted(k))
  BY NextStep
<1>2. lamports'[k] \in Nat /\ lamports[k] \in Nat
  BY U64Assumption DEF TokenInv, TypeOK, U64
<1>3. \A kind \in {"mint", "account", "multisig"} : MinBalance[kind] \in Nat
  BY ClientAssumption, U64Assumption DEF U64
<1>4. CASE IsLiveMint(k)
  <2>1. IsLiveMint(k)' /\ lamports'[k] >= lamports[k]
    BY <1>1, <1>4, MintStepFields DEF KeyStep, TokenInv
  <2>2. data[k].kind = "mint" /\ data'[k].kind = "mint"
    BY <1>4, <2>1 DEF IsLiveMint, IsMint
  <2>3. ~IsLiveAccount(k)'
    BY <2>2 DEF IsLiveAccount, IsAccount
  <2>4. MinBalance["mint"] <= lamports[k]
    BY <1>4, <2>2 DEF RentInv, StaysRentExempt
  <2> QED
    BY <1>2, <1>3, <2>1, <2>2, <2>3, <2>4 DEF Exempted
<1>5. CASE IsLiveMultisig(k)
  <2>1. data'[k] = data[k] /\ lamports'[k] >= lamports[k]
    BY <1>1, <1>5 DEF KeyStep, Kept
  <2>2. data[k].kind = "multisig"
    BY <1>5 DEF IsLiveMultisig, IsMultisig
  <2>3. ~IsLiveAccount(k)'
    BY <2>1, <2>2 DEF IsLiveAccount, IsAccount
  <2>4. MinBalance["multisig"] <= lamports[k]
    BY <1>5, <2>2 DEF RentInv, StaysRentExempt
  <2> QED
    BY <1>2, <1>3, <2>1, <2>2, <2>3, <2>4 DEF Exempted
<1>6. CASE IsLiveAccount(k)
  <2>1. PICK T \in SUBSET Signer : Closed(T, k) \/ AccountLivesOn(T, k)
    BY <1>6, NextIsAnyRent, AccountNextStep
  <2>2. AccountLivesOn(T, k)
    <3>1. ~Closed(T, k)
      BY ProgramAssumption
         DEF Closed, IsLive, IsLiveMint, IsLiveAccount, IsLiveMultisig
    <3> QED
      BY <2>1, <3>1
  <2>3. IsLiveAccount(k)'
    BY <2>2 DEF AccountLivesOn, StaysLive, IsLiveAccount
  <2>4. data[k].kind = "account" /\ data'[k].kind = "account"
    BY <1>6, <2>3 DEF IsLiveAccount, IsAccount
  <2>5. data'[k].is_native = data[k].is_native
    BY <2>2 DEF AccountLivesOn
  <2>6. CASE IsNative(data'[k])
    <3>1. /\ data'[k].is_native = MinBalance["account"]
          /\ data'[k].is_native + data'[k].amount <= lamports'[k]
      BY <1>6, <2>3, <2>5, <2>6
         DEF RentInv, ReserveIsRent, WrappedLamportsBacked, IsNative
    <3>2. data'[k] \in AccountData
      BY <2>4, KindOfData DEF TypeOK
    <3>3. data'[k].amount \in Nat
      BY <3>2, U64Assumption DEF AccountData, U64
    <3>4. lamports'[k] >= MinBalance["account"]
      BY <1>2, <1>3, <3>1, <3>3
    <3> QED
      BY <2>4, <3>1, <3>4 DEF Exempted
  <2>7. CASE ~IsNative(data'[k])
    <3>1. ~IsNative(data[k])
      BY <2>5, <2>7 DEF IsNative
    <3>2. lamports'[k] >= lamports[k]
      <4>1. CASE Spent(T, k)
        BY <1>2, <3>1, <4>1 DEF Spent, SpentBy, Follow
      <4> QED
        BY <2>2, <4>1 DEF AccountLivesOn
    <3>3. MinBalance["account"] <= lamports[k]
      BY <1>6, <2>4 DEF RentInv, StaysRentExempt
    <3> QED
      BY <1>2, <1>3, <2>4, <2>7, <3>2, <3>3 DEF Exempted
  <2> QED
    BY <2>6, <2>7
<1>7. CASE ~IsLive(k)
  BY <1>1, <1>7
<1> QED
  BY <1>4, <1>5, <1>6, <1>7 DEF IsLive

LEMMA FrozenKept ==
    ASSUME TokenInv, TypeOK', [AnyRentNext]_vars, FrozenIsNotNative
    PROVE  FrozenIsNotNative'
<1> SUFFICES ASSUME NEW k \in Key, IsLiveAccount(k)', IsFrozen(data'[k])
             PROVE  ~IsNative(data'[k])
  BY DEF FrozenIsNotNative
<1>1. CASE IsLiveAccount(k)
  <2>1. PICK S \in SUBSET Signer : Closed(S, k) \/ AccountLivesOn(S, k)
    BY <1>1, AccountNextStep
  <2>2. AccountLivesOn(S, k)
    BY <2>1, ClosedEnds DEF StaysLive, IsLiveAccount
  <2>3. ~IsNative(data[k])
    BY <1>1, <2>2 DEF AccountLivesOn, FrozenIsNotNative, IsFrozen, Toggled
  <2> QED
    BY <2>2, <2>3 DEF AccountLivesOn, IsNative
<1>2. CASE ~IsLiveAccount(k)
  BY <1>2, NewAccountOpened DEF Opened, IsFrozen
<1> QED
  BY <1>1, <1>2

LEMMA InitMoney ==
    ASSUME Init
    PROVE  MoneyInv /\ RentInv
<1>1. \A k \in Key : data[k].kind \in {"mint", "none"}
  BY DEF Init, ZeroMint, EmptyData
<1>2. \A k \in Key : ~IsLiveAccount(k) /\ ~IsLiveMultisig(k)
  BY <1>1 DEF IsLiveAccount, IsLiveMultisig, IsAccount, IsMultisig
<1>3. StaysRentExempt
  <2> SUFFICES ASSUME NEW k \in Key, IsLiveMint(k)
               PROVE  MinBalance[data[k].kind] <= lamports[k]
    BY <1>2 DEF StaysRentExempt
  <2>1. k = NativeMint /\ lamports[k] = GenesisLamports[k]
    BY ProgramAssumption DEF Init, IsLiveMint
  <2>2. data[k].kind = "mint"
    BY DEF IsLiveMint, IsMint
  <2> QED
    BY <2>1, <2>2, LamportsAssumption
<1> QED
  BY <1>2, <1>3
     DEF MoneyInv, WrappedLamportsBacked, FrozenIsNotNative, RentInv, ReserveIsRent

\* The inductive invariant of most of what follows.
THEOREM TokenMoneyInvariant == Spec => [](TokenInv /\ MoneyInv)
<1>1. Init => MoneyInv
  BY InitMoney
<1>2. TokenInv /\ TokenInv' /\ MoneyInv /\ [Next]_vars => MoneyInv'
  BY NextIsAnyRent, BackedKept, FrozenKept DEF MoneyInv, TokenInv
<1>3. Spec => []TokenInv
  BY TokenTypeOK, TokenInvariant, PTL DEF TokenInv
<1> QED
  BY <1>1, <1>2, <1>3, PTL DEF Spec

\* The rent needs the lamports behind the native accounts, which alone pay out.
THEOREM TokenRentInvariant == Spec => []RentInv
<1>1. Init => RentInv
  BY InitMoney
<1>2. TokenInv /\ (TokenInv /\ MoneyInv)' /\ RentInv /\ [Next]_vars => RentInv'
  BY RentKept DEF TokenInv, MoneyInv
<1> QED
  BY <1>1, <1>2, TokenMoneyInvariant, PTL DEF Spec

\* The mint an account names stays live for as long as the account is open, and a
\* native account keeps the rent of the chain as its reserve, however accounts are
\* closed and their addresses used again: the handlers that are passed a mint
\* compare addresses only.
THEOREM TokenAccountsFollowMints == Spec => []AccountsFollowMints
BY TokenInvariant, TokenRentInvariant, PTL DEF AccountsFollowMints, RentInv

\* Wrapped SOL can always be unwrapped: whatever was transferred, synced, sent
\* or closed, the lamports behind a native account cover its reserve and its
\* amount, so that process_close_account and process_transfer find them there.
THEOREM TokenWrappedLamportsBacked == Spec => []WrappedLamportsBacked
BY TokenMoneyInvariant, PTL DEF MoneyInv

\* No instruction takes a mint, an account or a multisig below the balance it
\* had to have when it was initialized: only native accounts pay, and they pay
\* out of their amount.
THEOREM TokenStaysRentExempt == Spec => []StaysRentExempt
BY TokenRentInvariant, PTL DEF RentInv

-----------------------------------------------------------------------------
(* The sum of all lamports.                                                *)

LEMMA PayMoves ==
    ASSUME TypeOK, TypeOK', NEW from \in Key, NEW to \in Key, NEW n \in U64,
           Pay(from, to, n)
    PROVE  Total(lamports') = Total(lamports)
<1>1. /\ lamports'[from] = lamports[from] - n
      /\ lamports'[to] = lamports[to] + n
      /\ \A k \in Key : k # from /\ k # to => lamports'[k] = lamports[k]
      /\ from # to
  BY DEF Pay, TypeOK
<1>2. lamports \in [Key -> U64] /\ lamports' \in [Key -> U64] /\ n \in Nat
  BY U64Assumption DEF TypeOK, U64
<1> QED
  BY <1>1, <1>2, TotalMove, KeyAssumption

LEMMA CloseAccountMoves ==
    ASSUME TypeOK, TypeOK', NEW S, NEW src \in Key, NEW dst \in Key,
           CloseAccount(S, src, dst)
    PROVE  Total(lamports') = Total(lamports)
<1>1. src # dst
  BY DEF CloseAccount, IsClosableInto
<1>2. /\ lamports \in [Key -> U64] /\ lamports' \in [Key -> U64]
      /\ lamports[src] \in Nat
  BY U64Assumption DEF TypeOK, U64
<1>3. /\ lamports'[src] = lamports[src] - lamports[src]
      /\ lamports'[dst] = lamports[dst] + lamports[src]
      /\ \A k \in Key : k # src /\ k # dst => lamports'[k] = lamports[k]
  BY <1>1, <1>2 DEF CloseAccount
<1> QED
  BY <1>1, <1>2, <1>3, TotalMove, KeyAssumption

LEMMA LamportsMove ==
    ASSUME TypeOK, TypeOK', [AnyRentNext]_vars
    PROVE  Total(lamports') = Total(lamports)
<1>1. CASE Environment
  <2>1. /\ Signer \subseteq Key /\ ForeignKey \subseteq Key
        /\ FundAmount \subseteq U64 /\ GiftAmount \subseteq U64
    BY ClientAssumption
  <2> QED
    BY <1>1, <2>1, PayMoves
       DEF Environment, SystemTransfer, CreateAccount, OtherProgramWrites,
           OtherProgramAssigns
<1>2. CASE Permissionless
  BY <1>2, Zenon DEF Permissionless, InitializeMint, InitializeAccount,
              InitializeMultisig, SyncNative, Pack
<1>3. ASSUME NEW S, SignedBy(S)
      PROVE  Total(lamports') = Total(lamports)
  <2>1. /\ MintAccounts \subseteq Key /\ TokenAccounts \subseteq Key
        /\ Refund \subseteq Key /\ Amount \subseteq U64
    BY InputAssumption DEF MintAccounts, TokenAccounts
  <2>2. ASSUME NEW src \in Key, NEW dst \in Key, NEW auth, NEW amount \in U64,
               NEW expected, Transfer(S, src, dst, auth, amount, expected)
        PROVE  Total(lamports') = Total(lamports)
    BY <2>2, PayMoves DEF Transfer, vars
  <2>3. CASE SetAuthority(S)
    BY <2>3 DEF SetAuthority, SetAccountOwner, SetCloseAuthority,
                SetMintAuthority, SetFreezeAuthority, Pack
  <2>4. ASSUME NEW src, NEW delegate, NEW amount, NEW expected,
               Approve(S, src, delegate, amount, expected)
        PROVE  UNCHANGED lamports
    BY <2>4 DEF Approve, Pack
  <2>5. ASSUME NEW src, Revoke(S, src)
        PROVE  UNCHANGED lamports
    BY <2>5 DEF Revoke, Pack
  <2>6. ASSUME NEW mint, NEW dst, NEW amount, NEW expected,
               MintTo(S, mint, dst, amount, expected)
        PROVE  UNCHANGED lamports
    BY <2>6 DEF MintTo, Pack
  <2>7. ASSUME NEW src, NEW mint, NEW auth, NEW amount, NEW expected,
               Burn(S, src, mint, auth, amount, expected)
        PROVE  UNCHANGED lamports
    BY <2>7 DEF Burn, Pack
  <2>8. ASSUME NEW src, NEW mint, NEW freeze, ToggleFreezeAccount(S, src, mint, freeze)
        PROVE  UNCHANGED lamports
    BY <2>8 DEF ToggleFreezeAccount, Pack
  <2> QED
    BY <1>3, <2>1, <2>2, <2>3, <2>4, <2>5, <2>6, <2>7, <2>8, CloseAccountMoves
       DEF SignedBy
<1>4. ASSUME NEW k, NEW mint, NEW newOwner, NEW reserve,
             OpensAt(k, mint, newOwner, reserve)
      PROVE  UNCHANGED lamports
  BY <1>4 DEF OpensAt, Pack
<1> QED
  BY <1>1, <1>2, <1>3, <1>4 DEF AnyRentNext, Next, vars

\* No instruction makes or loses a lamport: what the runtime would refuse the
\* program never tries, native transfers and closed accounts included.
THEOREM TokenLamportsConserved == Spec => []LamportsConserved
<1>1. Init => LamportsConserved
  BY DEF Init, LamportsConserved
<1>2. TypeOK /\ TypeOK' /\ LamportsConserved /\ [Next]_vars
         => LamportsConserved'
  BY NextIsAnyRent, LamportsMove DEF LamportsConserved
<1> QED
  BY <1>1, <1>2, TokenTypeOK, PTL DEF Spec

-----------------------------------------------------------------------------
(* What no step changes.                                                   *)

LEMMA TermsKept ==
    ASSUME TokenInv, TypeOK', [AnyRentNext]_vars, NEW k \in Key
    PROVE  KeepsItsTerms(k)
<1>1. PICK S \in SUBSET Signer : KeyStep(S, k)
  BY AnyRentStep
<1>2. IsLiveMint(k) => /\ owner'[k] = TokenProgram
                       /\ IsMint(data'[k])
                       /\ data'[k].decimals = data[k].decimals
  BY <1>1, MintStepFields DEF KeyStep, IsLiveMint, TokenInv
<1>3. IsLiveMultisig(k) => owner'[k] = owner[k] /\ data'[k] = data[k]
  BY <1>1 DEF KeyStep, Kept
<1>4. IsLiveAccount(k) => \/ /\ StaysLive(k)
                             /\ data'[k].mint = data[k].mint
                             /\ data'[k].is_native = data[k].is_native
                          \/ /\ IsWallet(k)'
                             /\ lamports'[k] = 0
  BY AccountNextStep, ClosedEnds DEF AccountLivesOn
<1> QED
  BY <1>2, <1>3, <1>4 DEF KeepsItsTerms

\* What others rely on never changes under them, in any step: the decimals of
\* a mint, the signers of a multisig, and until it is closed the mint of an
\* account.
THEOREM TokenTermsAreFixed == Spec => TermsAreFixed
<1>1. TokenInv /\ TokenInv' /\ [Next]_vars => \A k \in Key : KeepsItsTerms(k)
  BY NextIsAnyRent, TermsKept DEF TokenInv
<1> QED
  BY <1>1, TokenMoneyInvariant, PTL DEF Spec, TermsAreFixed

-----------------------------------------------------------------------------
(* Who consents to what.                                                   *)

\* An authority that an account or a mint names is an address.
LEMMA AuthoritiesAreKeys ==
    ASSUME TypeOK, NEW k \in Key
    PROVE  /\ IsLiveAccount(k) =>
                 /\ data[k].owner \in Key /\ data[k].mint \in Key
                 /\ data[k].delegate \in OptionalKey
                 /\ Closer(data[k]) \in Key /\ CloserOf(data[k]) = Closer(data[k])
           /\ IsLiveMint(k) =>
                 /\ data[k].mint_authority \in OptionalKey
                 /\ data[k].freeze_authority \in OptionalKey
<1>1. IsLiveAccount(k) => data[k] \in AccountData
  BY LiveAccountData
<1>2. IsLiveMint(k) => data[k] \in MintData
  BY KindOfAccount DEF IsLiveMint, IsMint
<1> QED
  BY <1>1, <1>2 DEF AccountData, MintData, Closer, CloserOf, OptionalKey

\* Who closed an account for whatever signers must have signed as its closer.
LEMMA ClosingIsConsented ==
    ASSUME TokenInv, TypeOK', NEW k \in Key, IsLiveAccount(k), ~StaysLive(k),
           ~IsOwnedBySystemProgramOrIncinerator(data[k])
    PROVE  HasConsentOf(CloserOf(data[k]))
<1>1. ~UnsignedStep(k)
  BY UnsignedAccount DEF TokenInv
<1>2. \A S \in SUBSET Signer :
         KeyStep(S, k) => ValidateOwner(Closer(data[k]), S)
  <2> SUFFICES ASSUME NEW S \in SUBSET Signer, KeyStep(S, k)
               PROVE  ValidateOwner(Closer(data[k]), S)
    OBVIOUS
  <2>1. Closed(S, k)
    BY AccountStepKinds DEF KeyStep, AccountLivesOn, TokenInv
  <2> QED
    BY <2>1 DEF Closed
<1> QED
  BY <1>1, <1>2, Consent, AuthoritiesAreKeys DEF TokenInv

LEMMA DebitKept ==
    ASSUME TokenInv, TypeOK', [AnyRentNext]_vars, NEW k \in Key,
           IsLiveAccount(k), AmountAfter(k) < data[k].amount
    PROVE  DebitIsAuthorised(k)
<1> DEFINE a == data[k]
           spent == a.amount - AmountAfter(k)
<1>1. /\ a.amount \in Nat /\ a.delegated_amount \in Nat
      /\ AmountAfter(k) \in Nat
  <2>1. a.amount \in Nat /\ a.delegated_amount \in Nat
    BY LiveAccountData DEF TokenInv
  <2>2. StaysLive(k) => data'[k] \in AccountData
    BY KindOfData DEF TypeOK, StaysLive, IsAccount
  <2>3. AmountAfter(k) \in Nat
    BY <2>2, U64Assumption DEF AmountAfter, AccountData, U64
  <2> QED
    BY <2>1, <2>3
<1>2. PICK T \in SUBSET Signer :
         AccountStep(T, k) /\ (Closed(T, k) \/ AccountLivesOn(T, k))
  BY AccountNextStep
<1>3. CASE ~StaysLive(k)
  <2>1. Closed(T, k)
    BY <1>2, <1>3 DEF AccountLivesOn
  <2>2. CASE IsOwnedBySystemProgramOrIncinerator(a)
    BY <2>1, <2>2 DEF Closed, DebitIsAuthorised
  <2>3. CASE ~IsOwnedBySystemProgramOrIncinerator(a)
    BY <1>3, <2>3, ClosingIsConsented DEF DebitIsAuthorised
  <2> QED
    BY <2>2, <2>3
<1>4. CASE StaysLive(k) /\ BurntAbandoned(k)
  <2>1. PICK n \in U64 :
           /\ IsOwnedBySystemProgramOrIncinerator(a)
           /\ data'[k] = [a EXCEPT !.amount = a.amount - n]
           /\ data'[a.mint].supply = data[a.mint].supply - n
    BY <1>4 DEF BurntAbandoned, Becomes
  <2>2. AmountAfter(k) = a.amount - n
    BY <1>4, <2>1, LiveAccountData DEF AmountAfter, AccountData, TokenInv
  <2>3. n = spent
    BY <1>1, <2>1, <2>2, U64Assumption DEF U64
  <2> QED
    BY <2>1, <2>3 DEF DebitIsAuthorised
<1>5. CASE StaysLive(k) /\ ~BurntAbandoned(k)
  <2>1. ~UnsignedStep(k)
    <3>1. AmountAfter(k) = data'[k].amount
      BY <1>5 DEF AmountAfter
    <3> QED
      BY <1>1, <3>1, UnsignedAccount DEF TokenInv
  <2>2. ASSUME NEW S \in SUBSET Signer, KeyStep(S, k)
        PROVE  \E auth \in Key : SpentBy(auth, spent, S, k) /\ spent \in U64
    <3>1. AccountStep(S, k)
      BY <2>2 DEF KeyStep
    <3>2. Spent(S, k)
      <4>1. AmountAfter(k) = data'[k].amount
        BY <1>5 DEF AmountAfter
      <4>2. AccountLivesOn(S, k)
        BY <1>5, <3>1, AccountStepKinds, ClosedEnds DEF TokenInv
      <4> QED
        BY <1>1, <1>5, <4>1, <4>2 DEF AccountLivesOn
    <3>3. PICK auth \in Key, n \in U64 : SpentBy(auth, n, S, k)
      BY <3>2 DEF Spent
    <3>4. n = spent
      BY <1>1, <1>5, <3>3, SpentFields, U64Assumption
         DEF AmountAfter, TokenInv, U64
    <3> QED
      BY <3>3, <3>4
  <2>3. CASE data'[k].delegated_amount = a.delegated_amount
    <3>1. \A S \in SUBSET Signer : KeyStep(S, k) => ValidateOwner(a.owner, S)
      <4> SUFFICES ASSUME NEW S \in SUBSET Signer, KeyStep(S, k)
                   PROVE  ValidateOwner(a.owner, S)
        OBVIOUS
      <4>1. PICK auth \in Key : SpentBy(auth, spent, S, k) /\ spent \in U64
        BY <2>2
      <4>2. spent > 0
        BY <1>1
      <4>3. a.delegate # auth
        BY <1>1, <2>3, <4>1, <4>2, SpentFields, U64Assumption DEF TokenInv, U64
      <4> QED
        BY <4>1, <4>3 DEF SpentBy, MaySpend
    <3> QED
      BY <2>1, <3>1, Consent, AuthoritiesAreKeys DEF DebitIsAuthorised, TokenInv
  <2>4. CASE data'[k].delegated_amount # a.delegated_amount
    <3>1. ASSUME NEW S \in SUBSET Signer, KeyStep(S, k)
          PROVE  /\ ValidateOwner(a.delegate, S) /\ a.delegate \in Key
                 /\ data'[k].delegated_amount = a.delegated_amount - spent
                 /\ data'[k].delegated_amount >= 0
      <4>1. PICK auth \in Key : SpentBy(auth, spent, S, k) /\ spent \in U64
        BY <2>2, <3>1
      <4>2. a.delegate = auth
        BY <2>4, <4>1, SpentFields DEF TokenInv
      <4>3. /\ data'[k].delegated_amount = a.delegated_amount - spent
            /\ spent <= a.delegated_amount
        BY <4>1, <4>2, SpentFields DEF TokenInv
      <4>4. data'[k].delegated_amount >= 0
        BY <1>1, <4>1, <4>3, U64Assumption DEF U64
      <4> QED
        BY <4>1, <4>2, <4>3, <4>4 DEF SpentBy, MaySpend
    <3>2. PICK S \in SUBSET Signer : KeyStep(S, k)
      BY AnyRentStep
    <3>3. a.delegate # None /\ a.delegate \in Key
      BY <3>1, <3>2, KeyAssumption
    <3>4. HasConsentOf(a.delegate)
      BY <2>1, <3>1, <3>3, Consent
    <3> QED
      BY <1>5, <3>1, <3>2, <3>3, <3>4 DEF DebitIsAuthorised
  <2> QED
    BY <2>3, <2>4
<1> QED
  BY <1>3, <1>4, <1>5

\* Nobody spends what is not theirs: if an account's balance falls, its owner,
\* its delegate within the allowance, or on closing its closer has signed,
\* whatever the handler and whoever else could have called it.
THEOREM TokenDebitsAreAuthorised == Spec => DebitsAreAuthorised
<1>1. TokenInv /\ TokenInv' /\ [Next]_vars
         => \A k \in Key : IsLiveAccount(k) /\ AmountAfter(k) < data[k].amount
               => DebitIsAuthorised(k)
  BY NextIsAnyRent, DebitKept DEF TokenInv
<1> QED
  BY <1>1, TokenMoneyInvariant, PTL DEF Spec, DebitsAreAuthorised

LEMMA DelegationKept ==
    ASSUME TokenInv, TypeOK', [AnyRentNext]_vars, NEW k \in Key,
           StaysLive(k), data'[k].delegate # None
    PROVE  DelegateIsOwners(k)
<1>1. IsLiveAccount(k)
  <2>1. IsLiveAccount(k)'
    BY DEF StaysLive, IsLiveAccount
  <2> QED
    BY <2>1, NewAccountOpened DEF Opened
<1> DEFINE Inherited == /\ data'[k].delegate = data[k].delegate
                        /\ data'[k].delegated_amount <= data[k].delegated_amount
<1>2. \A S \in SUBSET Signer : KeyStep(S, k) =>
         /\ data'[k].owner = data[k].owner
         /\ Inherited \/ Delegated(S, k)
  BY <1>1, AccountStepKinds, ClosedEnds DEF KeyStep, AccountLivesOn, TokenInv
<1>3. data'[k].owner = data[k].owner
  BY <1>2, AnyRentStep
<1>4. CASE Inherited
  BY <1>1, <1>3, <1>4 DEF DelegateIsOwners
<1>5. CASE ~Inherited
  <2>1. ~UnsignedStep(k)
    BY <1>1, <1>5, UnsignedAccount, LiveAccountData DEF TokenInv
  <2>2. \A S \in SUBSET Signer : KeyStep(S, k) => ValidateOwner(data[k].owner, S)
    BY <1>2, <1>5, Zenon DEF Delegated
  <2> QED
    BY <1>1, <1>3, <2>1, <2>2, Consent, AuthoritiesAreKeys
       DEF DelegateIsOwners, TokenInv
<1> QED
  BY <1>4, <1>5

\* An allowance is the present owner's: no step lets a delegate appear, or its
\* allowance grow, without the owner's signature, and none carries a delegate
\* over to a new owner or to a new account.
THEOREM TokenDelegationComesFromOwner == Spec => DelegationComesFromOwner
<1>1. TokenInv /\ TokenInv' /\ [Next]_vars
         => \A k \in Key : StaysLive(k) /\ data'[k].delegate # None
               => DelegateIsOwners(k)
  BY NextIsAnyRent, DelegationKept DEF TokenInv
<1> QED
  BY <1>1, TokenMoneyInvariant, PTL DEF Spec, DelegationComesFromOwner

LEMMA CloserKept ==
    ASSUME TokenInv, TypeOK', [AnyRentNext]_vars, NEW k \in Key,
           StaysLive(k), data'[k].close_authority # None
    PROVE  CloserIsAppointed(k)
<1>1. IsLiveAccount(k)
  <2>1. IsLiveAccount(k)'
    BY DEF StaysLive, IsLiveAccount
  <2> QED
    BY <2>1, NewAccountOpened DEF Opened
<1> DEFINE Inherited == data'[k].close_authority = data[k].close_authority
<1>2. \A S \in SUBSET Signer : KeyStep(S, k) =>
         /\ data'[k].is_native = data[k].is_native
         /\ ~IsNative(data[k]) \/ data'[k].owner = data[k].owner
         /\ Inherited \/ CloserSet(S, k)
  BY <1>1, AccountStepKinds, ClosedEnds DEF KeyStep, AccountLivesOn, TokenInv
<1>3. IsNative(data'[k]) => data'[k].owner = data[k].owner
  BY <1>2, AnyRentStep DEF IsNative
<1>4. CASE Inherited
  BY <1>1, <1>3, <1>4 DEF CloserIsAppointed
<1>5. CASE ~Inherited
  <2>1. ~UnsignedStep(k)
    BY <1>1, <1>5, UnsignedAccount DEF TokenInv
  <2>2. \A S \in SUBSET Signer :
           KeyStep(S, k) => ValidateOwner(Closer(data[k]), S)
    BY <1>2, <1>5, Zenon DEF CloserSet
  <2> QED
    BY <1>1, <1>3, <2>1, <2>2, Consent, AuthoritiesAreKeys
       DEF CloserIsAppointed, TokenInv
<1> QED
  BY <1>4, <1>5

\* Who may close an account is chosen by whoever could close it before, and the
\* close authority of a native account, to whom its balance would go, is not
\* carried over to a new owner or to a new account.
THEOREM TokenClosersAreAppointed == Spec => ClosersAreAppointed
<1>1. TokenInv /\ TokenInv' /\ [Next]_vars
         => \A k \in Key : StaysLive(k) /\ data'[k].close_authority # None
               => CloserIsAppointed(k)
  BY NextIsAnyRent, CloserKept DEF TokenInv
<1> QED
  BY <1>1, TokenMoneyInvariant, PTL DEF Spec, ClosersAreAppointed

\* Only three things happen to a frozen account.
LEMMA FrozenStep ==
    ASSUME TokenInv, FrozenIsNotNative, NEW k \in Key, NEW S,
           IsLiveAccount(k), IsFrozen(data[k]), AccountStep(S, k)
    PROVE  \/ data'[k] = data[k]
           \/ Toggled(S, k)
           \/ Closed(S, k) /\ data[k].amount = 0
<1>1. ~IsNative(data[k])
  BY DEF FrozenIsNotNative
<1> QED
  BY <1>1 DEF AccountStep, Kept, Spent, SpentBy, BurntAbandoned, Credited,
              Synced, Delegated, HandedOver, CloserSet, Closed, IsClosable

LEMMA FreezeKept ==
    ASSUME TokenInv, FrozenIsNotNative, [AnyRentNext]_vars, NEW k \in Key,
           IsLiveAccount(k), IsFrozen(data[k])
    PROVE  FreezeHolds(k)
<1> DEFINE authority == data[data[k].mint].freeze_authority
<1>1. PICK T \in SUBSET Signer : KeyStep(T, k)
  BY AnyRentStep
<1>2. CASE data'[k] = data[k]
  BY <1>2 DEF FreezeHolds
<1>3. CASE Closed(T, k) /\ data[k].amount = 0
  BY <1>3, ClosedEnds DEF FreezeHolds
<1>4. CASE data'[k] # data[k] /\ Toggled(T, k)
  <2>1. /\ data'[k] = [data[k] EXCEPT !.state = "Initialized"]
        /\ owner'[k] = TokenProgram /\ authority # None
    BY <1>4 DEF Toggled, Becomes, IsLiveAccount
  <2>2. StaysLive(k)
    BY <2>1, LiveAccountData DEF StaysLive, IsAccount, AccountData, TokenInv
  <2>3. \A S \in SUBSET Signer : KeyStep(S, k) => ValidateOwner(authority, S)
    BY <1>4, <2>2, FrozenStep, ClosedEnds DEF KeyStep, Toggled
  <2>4. ~UnsignedStep(k)
    BY <1>4, UnsignedAccount DEF FrozenIsNotNative, TokenInv
  <2>5. authority \in Key
    <3>1. IsLiveMint(data[k].mint)
      BY DEF FrozenIsNotNative, TokenInv, AccountsNameMints
    <3> QED
      BY <2>1, <3>1, AuthoritiesAreKeys DEF OptionalKey, TokenInv
  <2> QED
    BY <2>1, <2>3, <2>4, <2>5, Consent DEF FreezeHolds
<1> QED
  BY <1>1, <1>2, <1>3, <1>4, FrozenStep DEF KeyStep

\* A freeze holds: while an account is frozen nothing in it changes, until the
\* freeze authority of its mint thaws it or it is closed with nothing in it.
THEOREM TokenFrozenAccountsHold == Spec => FrozenAccountsHold
<1>1. TokenInv /\ MoneyInv /\ [Next]_vars
         => \A k \in Key : IsLiveAccount(k) /\ IsFrozen(data[k]) => FreezeHolds(k)
  BY NextIsAnyRent, FreezeKept DEF MoneyInv
<1> QED
  BY <1>1, TokenMoneyInvariant, PTL DEF Spec, FrozenAccountsHold

LEMMA RenouncedKept ==
    ASSUME TokenInv, TypeOK', [AnyRentNext]_vars, NEW m \in Key, IsLiveMint(m)
    PROVE  StaysRenounced(m)
<1>1. PICK S \in SUBSET Signer : \A k \in Key : KeyStep(S, k)
  BY AnyRentStep
<1>2. MintStep(S, m)
  BY <1>1 DEF KeyStep
<1>3. data[m].mint_authority = None =>
         /\ data'[m].mint_authority = None
         /\ data'[m].supply <= data[m].supply
  BY <1>2, MintStepFields DEF Issued, MinterSet, TokenInv
<1>4. data[m].freeze_authority = None => data'[m].freeze_authority = None
  BY <1>2, MintStepFields DEF FreezerSet, TokenInv
<1>5. ASSUME data[m].freeze_authority = None, NEW k \in Key,
             IsLiveAccount(k), StaysLive(k), data[k].mint = m
      PROVE  data'[k].state = data[k].state
  <2>1. AccountLivesOn(S, k)
    BY <1>1, <1>5, AccountStepKinds, ClosedEnds DEF KeyStep, TokenInv
  <2> QED
    BY <1>5, <2>1 DEF AccountLivesOn, Toggled
<1> QED
  BY <1>3, <1>4, <1>5 DEF StaysRenounced

\* What a mint gave up it never gets back, not even through the instructions
\* that set authorities: no more tokens are issued, no account is frozen.
THEOREM TokenRenouncedAuthorityIsFinal == Spec => RenouncedAuthorityIsFinal
<1>1. TokenInv /\ TokenInv' /\ [Next]_vars
         => \A m \in Key : IsLiveMint(m) => StaysRenounced(m)
  BY NextIsAnyRent, RenouncedKept DEF TokenInv
<1> QED
  BY <1>1, TokenMoneyInvariant, PTL DEF Spec, RenouncedAuthorityIsFinal

LEMMA AuthorityObeyed ==
    ASSUME TokenInv, TypeOK', [AnyRentNext]_vars, NEW m \in Key, IsLiveMint(m)
    PROVE  ObeysItsAuthority(m)
<1> DEFINE minter == data[m].mint_authority
           freezer == data[m].freeze_authority
<1>1. /\ data[m].supply \in Nat
      /\ minter \in OptionalKey /\ freezer \in OptionalKey
  <2>1. data[m] \in MintData
    BY KindOfAccount DEF IsLiveMint, IsMint, TokenInv
  <2> QED
    BY <2>1, U64Assumption DEF MintData, U64
<1>2. ASSUME NEW S \in SUBSET Signer, KeyStep(S, m)
      PROVE  /\ data'[m].supply <= data[m].supply \/ Issued(S, m)
             /\ data'[m].mint_authority = minter \/ MinterSet(S, m)
             /\ data'[m].freeze_authority = freezer \/ FreezerSet(S, m)
  BY <1>2, MintStepFields DEF KeyStep, TokenInv
<1>3. PICK T \in SUBSET Signer : KeyStep(T, m)
  BY AnyRentStep
<1>4. data'[m] # data[m] => ~UnsignedStep(m)
  BY DEF UnsignedStep, Kept
<1>5. ASSUME \/ data'[m].supply > data[m].supply
             \/ data'[m].mint_authority # minter
      PROVE  HasConsentOf(minter)
  <2>1. \A S \in SUBSET Signer : KeyStep(S, m) =>
           Issued(S, m) \/ MinterSet(S, m)
    <3> SUFFICES ASSUME NEW S \in SUBSET Signer, KeyStep(S, m),
                        ~Issued(S, m), ~MinterSet(S, m)
                 PROVE  FALSE
      OBVIOUS
    <3>1. /\ data'[m].supply <= data[m].supply
          /\ data'[m].mint_authority = minter
      BY <1>2
    <3>2. data'[m].supply > data[m].supply
      BY <1>5, <3>1
    <3>3. data'[m].supply \in Nat
      <4>1. IsLiveMint(m)'
        BY MintStepFields DEF KeyStep, TokenInv
      <4>2. data'[m] \in MintData
        BY <4>1, KindOfData DEF TypeOK, IsLiveMint, IsMint
      <4> QED
        BY <4>2, U64Assumption DEF MintData, U64
    <3> QED
      BY <1>1, <3>1, <3>2, <3>3
  <2>2. minter # None
    BY <1>3, <2>1 DEF Issued, MinterSet
  <2>3. data'[m] # data[m]
    BY <1>1, <1>5
  <2> QED
    BY <1>1, <1>4, <2>1, <2>2, <2>3, Consent
       DEF Issued, MinterSet, OptionalKey
<1>6. ASSUME data'[m].freeze_authority # freezer
      PROVE  HasConsentOf(freezer)
  <2>1. \A S \in SUBSET Signer : KeyStep(S, m) => FreezerSet(S, m)
    BY <1>2, <1>6
  <2>2. freezer # None /\ data'[m] # data[m]
    BY <1>3, <1>6, <2>1 DEF FreezerSet
  <2> QED
    BY <1>1, <1>4, <2>1, <2>2, Consent DEF FreezerSet, OptionalKey
<1> QED
  BY <1>5, <1>6 DEF ObeysItsAuthority

\* Only the authority that is in force when a step begins issues tokens or
\* passes the power to issue or to freeze on.
THEOREM TokenMintsObeyTheirAuthority == Spec => MintsObeyTheirAuthority
<1>1. TokenInv /\ TokenInv' /\ [Next]_vars
         => \A m \in Key : IsLiveMint(m) => ObeysItsAuthority(m)
  BY NextIsAnyRent, AuthorityObeyed DEF TokenInv
<1> QED
  BY <1>1, TokenMoneyInvariant, PTL DEF Spec, MintsObeyTheirAuthority

LEMMA PayingKept ==
    ASSUME TokenInv, TypeOK', [AnyRentNext]_vars, NEW k \in Key,
           owner[k] = TokenProgram, lamports'[k] < lamports[k]
    PROVE  PayingIsConsented(k)
<1>1. PICK S \in SUBSET Signer : KeyStep(S, k)
  BY AnyRentStep
<1>2. lamports[k] \in Nat /\ lamports'[k] \in Nat
  BY U64Assumption DEF TokenInv, TypeOK, U64
<1>3. IsLiveAccount(k)
  <2>1. CASE IsLiveMint(k)
    BY <1>1, <1>2, <2>1, MintStepFields DEF KeyStep, TokenInv
  <2>2. CASE IsLiveMultisig(k) \/ ~IsLive(k)
    BY <1>1, <1>2, <2>2 DEF KeyStep, Kept, BlankStep
  <2> QED
    BY <2>1, <2>2 DEF IsLive
<1>4. AccountStep(S, k)
  BY <1>1, <1>3 DEF KeyStep
<1>5. CASE ~StaysLive(k)
  <2>1. Closed(S, k)
    BY <1>3, <1>4, <1>5, AccountStepKinds DEF AccountLivesOn, TokenInv
  <2>2. IsWallet(k)' /\ lamports'[k] = 0
    BY <2>1, ClosedEnds
  <2>3. CASE IsOwnedBySystemProgramOrIncinerator(data[k])
    <3>1. lamports'[Incinerator] = lamports[Incinerator] + lamports[k]
      BY <2>1, <2>3 DEF Closed
    <3> QED
      BY <1>3, <2>2, <2>3, <3>1 DEF PayingIsConsented
  <2>4. CASE ~IsOwnedBySystemProgramOrIncinerator(data[k])
    <3>1. HasConsentOf(CloserOf(data[k]))
      BY <1>3, <1>5, <2>4, ClosingIsConsented
    <3> QED
      BY <1>3, <2>2, <2>4, <3>1 DEF PayingIsConsented
  <2> QED
    BY <2>3, <2>4
<1>6. CASE StaysLive(k)
  <2>1. PICK auth \in Key, n \in U64 : SpentBy(auth, n, S, k)
    <3>1. AccountLivesOn(S, k)
      BY <1>3, <1>4, <1>6, AccountStepKinds, ClosedEnds DEF TokenInv
    <3>2. Spent(S, k)
      BY <1>2, <3>1 DEF AccountLivesOn
    <3> QED
      BY <3>2 DEF Spent
  <2>2. n \in Nat /\ data[k].amount \in Nat
    BY <1>3, U64Assumption, LiveAccountData DEF TokenInv, U64
  <2>3. lamports'[k] = lamports[k] - n
    BY <1>2, <2>1, <2>2 DEF SpentBy, Follow
  <2>4. data'[k].amount = data[k].amount - n
    BY <1>3, <2>1, SpentFields DEF TokenInv
  <2>5. AmountAfter(k) < data[k].amount
    BY <1>2, <1>6, <2>2, <2>3, <2>4 DEF AmountAfter
  <2>6. DebitIsAuthorised(k)
    BY <1>3, <2>5, DebitKept
  <2>7. data[k].amount - data'[k].amount = lamports[k] - lamports'[k]
    BY <1>2, <2>2, <2>3, <2>4
  <2> QED
    BY <1>3, <1>6, <2>6, <2>7 DEF PayingIsConsented
<1> QED
  BY <1>5, <1>6

\* Lamports of the token program's accounts, rent included, move only as wrapped
\* SOL that its owner or its delegate spends, or when the account is closed for
\* good: by its closer, or, when nobody can sign for it, into the incinerator.
THEOREM TokenLamportsLeaveByConsent == Spec => LamportsLeaveByConsent
<1>1. TokenInv /\ TokenInv' /\ [Next]_vars
         => \A k \in Key : owner[k] = TokenProgram /\ lamports'[k] < lamports[k]
               => PayingIsConsented(k)
  BY NextIsAnyRent, PayingKept DEF TokenInv
<1> QED
  BY <1>1, TokenMoneyInvariant, PTL DEF Spec, LamportsLeaveByConsent

-----------------------------------------------------------------------------
(* Sums that the handlers form.                                            *)

\* The owners and delegates of the accounts are those clients name, and the
\* native mint is always there.
RolesAreNamed ==
    /\ IsLiveMint(NativeMint)
    /\ \A k \in Key : IsLiveAccount(k) =>
          data[k].owner \in Owners /\ data[k].delegate \in Delegates \cup {None}

LEMMA RolesKept ==
    ASSUME TokenInv, TypeOK', [AnyRentNext]_vars, RolesAreNamed
    PROVE  RolesAreNamed'
<1>1. IsLiveMint(NativeMint)'
  <2>1. PICK S \in SUBSET Signer : KeyStep(S, NativeMint)
    BY AnyRentStep, KeyAssumption
  <2> QED
    BY <2>1, KeyAssumption, MintStepFields DEF RolesAreNamed, TokenInv, KeyStep
<1>2. ASSUME NEW k \in Key, IsLiveAccount(k)'
      PROVE  data'[k].owner \in Owners /\ data'[k].delegate \in Delegates \cup {None}
  <2>1. CASE IsLiveAccount(k)
    <3>1. PICK S \in SUBSET Signer : Closed(S, k) \/ AccountLivesOn(S, k)
      BY <2>1, AccountNextStep
    <3>2. ~Closed(S, k)
      BY <1>2, ClosedEnds DEF StaysLive, IsLiveAccount
    <3> QED
      BY <2>1, <3>1, <3>2 DEF AccountLivesOn, RolesAreNamed
  <2>2. CASE ~IsLiveAccount(k)
    BY <1>2, <2>2, NewAccountOpened DEF Opened
  <2> QED
    BY <2>1, <2>2
<1> QED
  BY <1>1, <1>2 DEF RolesAreNamed

\* All that was shown above of the states but for the rent, in one: no step
\* leaves it, at whatever rent accounts are opened.
ChainInv ==
    /\ TokenInv
    /\ MoneyInv
    /\ LamportsConserved
    /\ SupplyMatchesBalances
    /\ RolesAreNamed

LEMMA InitChain ==
    ASSUME Init
    PROVE  ChainInv
<1>1. RolesAreNamed
  BY KeyAssumption, ProgramAssumption
     DEF Init, RolesAreNamed, IsLiveMint, IsMint, IsLiveAccount, IsAccount, ZeroMint, EmptyData
<1> QED
  BY <1>1, InitTyped, InitRefines, InitMoney, InitSupply
     DEF ChainInv, TokenInv, LamportsConserved, Init

LEMMA ChainKept ==
    ASSUME ChainInv, [AnyRentNext]_vars
    PROVE  ChainInv'
<1>1. TypeOK'
  BY AnyRentTyped DEF ChainInv, TokenInv
<1>2. TokenInv'
  BY <1>1, AnyRentRefines DEF ChainInv, TokenInv, Refines
<1>3. MoneyInv'
  BY <1>1, BackedKept, FrozenKept DEF ChainInv, MoneyInv
<1>4. LamportsConserved'
  BY <1>1, LamportsMove DEF ChainInv, TokenInv, LamportsConserved
<1>5. SupplyMatchesBalances'
  BY <1>1, SupplyKept DEF ChainInv
<1>6. RolesAreNamed'
  BY <1>1, RolesKept DEF ChainInv
<1> QED
  BY <1>2, <1>3, <1>4, <1>5, <1>6 DEF ChainInv

\* The lamports of two addresses fit in a u64 together.
LEMMA LamportsFit ==
    ASSUME ChainInv, NEW j \in Key, NEW k \in Key, j # k
    PROVE  lamports[j] + lamports[k] <= U64Max
<1>1. lamports \in [Key -> U64] /\ GenesisLamports \in [Key -> U64]
  BY ClientAssumption DEF ChainInv, TokenInv, TypeOK
<1>2. Total(lamports) \in Nat /\ Total(lamports) <= U64Max
  BY <1>1, TotalType, LamportsAssumption, KeyAssumption
     DEF ChainInv, LamportsConserved
<1>3. lamports[j] + lamports[k] <= Total(lamports)
  BY <1>1, TotalBoundsTwo, KeyAssumption
<1>4. lamports[j] \in Nat /\ lamports[k] \in Nat
  BY <1>1, U64Assumption DEF U64
<1> QED
  BY <1>2, <1>3, <1>4, U64Assumption

\* The sum that process_transfer adds up fits in a u64, and what an account
\* holds fits in the supply that process_burn takes it from.
BalancesFit ==
    \A j, k \in Key :
        IsLiveAccount(j) /\ IsLiveAccount(k) /\ data[j].mint = data[k].mint =>
           /\ j # k => data[j].amount + data[k].amount <= U64Max
           /\ ~IsNative(data[j]) => data[j].amount <= data[data[j].mint].supply

LEMMA ChainBalancesFit ==
    ASSUME ChainInv
    PROVE  BalancesFit
<1> SUFFICES ASSUME NEW j \in Key, NEW k \in Key,
                    IsLiveAccount(j), IsLiveAccount(k),
                    data[j].mint = data[k].mint
             PROVE  /\ j # k => data[j].amount + data[k].amount <= U64Max
                    /\ ~IsNative(data[j]) =>
                          data[j].amount <= data[data[j].mint].supply
  BY DEF BalancesFit
<1> DEFINE m == data[j].mint
           held == [i \in Key |-> IF IsHolder(i) /\ data[i].mint = m
                                  THEN data[i].amount ELSE 0]
<1>1. TokenInv /\ TypeOK
  BY DEF ChainInv, TokenInv
<1>2. /\ data[j].amount \in Nat /\ data[k].amount \in Nat
      /\ lamports[j] \in Nat /\ lamports[k] \in Nat
      /\ IsNative(data[j]) => data[j].is_native \in Nat
      /\ IsNative(data[k]) => data[k].is_native \in Nat
  BY <1>1, LiveAccountData
<1>3. CASE IsNative(data[j])
  <2>1. IsNative(data[k])
    BY <1>1, <1>3 DEF TokenInv, AccountsNameMints
  <2>2. data[j].amount <= lamports[j] /\ data[k].amount <= lamports[k]
    <3>1. /\ data[j].is_native + data[j].amount <= lamports[j]
          /\ data[k].is_native + data[k].amount <= lamports[k]
      BY <1>3, <2>1 DEF ChainInv, MoneyInv, WrappedLamportsBacked
    <3> QED
      BY <1>2, <1>3, <2>1, <3>1
  <2>3. ASSUME j # k PROVE lamports[j] + lamports[k] <= U64Max
    BY <2>3, LamportsFit
  <2> QED
    BY <1>2, <1>3, <2>2, <2>3, U64Assumption
<1>4. CASE ~IsNative(data[j])
  <2>1. ~IsNative(data[k]) /\ IsLiveMint(m) /\ m \in Key
    BY <1>1, <1>4, AuthoritiesAreKeys DEF TokenInv, AccountsNameMints
  <2>2. IsHolder(j) /\ IsHolder(k)
    BY <1>4, <2>1 DEF IsHolder
  <2>3. data[m].supply = Total(held)
    BY <2>1 DEF ChainInv, SupplyMatchesBalances
  <2>4. held \in [Key -> U64]
    <3>1. \A i \in Key : IsHolder(i) => data[i].amount \in U64
      BY <1>1, KindOfAccount
         DEF IsHolder, IsLiveAccount, IsAccount, AccountData
    <3> QED
      BY <3>1, ZeroIsU64
  <2>5. held[j] = data[j].amount /\ held[k] = data[k].amount
    BY <2>2
  <2>6. data[m].supply \in Nat /\ data[m].supply <= U64Max
    <3>1. data[m] \in MintData
      BY <1>1, <2>1, KindOfAccount DEF IsLiveMint, IsMint
    <3> QED
      BY <3>1, U64Assumption DEF MintData, U64
  <2> HIDE DEF held
  <2>7. held[j] <= Total(held) /\ (j # k => held[j] + held[k] <= Total(held))
    BY <2>4, TotalBounds, TotalBoundsTwo, KeyAssumption
  <2> QED
    BY <1>2, <1>4, <2>3, <2>5, <2>6, <2>7, U64Assumption
<1> QED
  BY <1>3, <1>4

\* A transfer never fails or wraps for want of room at the destination, and a
\* burn never for want of supply: what checked_add and checked_sub are asked in
\* process_transfer and process_burn always fits.
THEOREM TokenBalancesFit == Spec => []BalancesFit
<1>1. Init => ChainInv
  BY InitChain
<1>2. ChainInv /\ [Next]_vars => ChainInv'
  BY NextIsAnyRent, ChainKept
<1>3. ChainInv => BalancesFit
  BY ChainBalancesFit
<1> QED
  BY <1>1, <1>2, <1>3, PTL DEF Spec
=============================================================================
