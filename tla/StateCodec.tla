----------------------------- MODULE StateCodec -----------------------------
(***************************************************************************)
(* The bytes of the token program's accounts (the Pack implementations of  *)
(* token/src/state.rs).  A value is packed over the bytes that were there  *)
(* before, and some readers look at a few bytes without unpacking the      *)
(* whole.  Widths and offsets are the code's own; an address is a tuple of *)
(* 32 bytes and values are the records of TokenState, except that a        *)
(* Multisig keeps its n and all the entries of its array.                  *)
(***************************************************************************)
EXTENDS TokenState, Bytes

CONSTANT InvalidAccountData     \* ProgramError::InvalidAccountData

\* The widths of the code: a Pubkey, a u64, a u8 and the array of signers.  What
\* stands for no value, or for an error, is none.
WidthAssumption ==
    /\ \A k \in Key : k \in [1 .. 32 -> Byte]
    /\ SystemProgram = Zeros(32)
    /\ FromLeBytes(LeBytes(U64Max, 8)) = U64Max
    /\ Decimals \subseteq Byte
    /\ MaxSigners = 11
    /\ None # InvalidAccountData
    /\ {None, InvalidAccountData} \cap ([1 .. 32 -> Byte] \cup Nat) = {}

MintLen == 82
AccountLen == 165
MultisigLen == 355

\* AccountState, from 0 on.
AccountStates == <<"Uninitialized", "Initialized", "Frozen">>

-----------------------------------------------------------------------------
(* COption: four bytes of tag, and a body which only Some writes.          *)

SomeTag == <<1, 0, 0, 0>>

\* Mutant: None leaves the whole field alone.
PackOptionKeySome(key, dst) == IF key = None THEN dst ELSE SomeTag \o key

PackOptionKey(key, dst) ==
    IF key = None THEN Zeros(4) \o Drop(dst, 4) ELSE SomeTag \o key

PackOptionU64(amount, dst) ==
    IF amount = None THEN Zeros(4) \o Drop(dst, 4) ELSE SomeTag \o LeBytes(amount, 8)

\* Mutant: a key that is all zero reads as None, whatever the tag.
UnpackOptionKeyByBody(src) ==
    IF Drop(src, 4) = Zeros(32) THEN None ELSE Drop(src, 4)

UnpackOptionKey(src) ==
    CASE Take(src, 4) = Zeros(4) -> None
      [] Take(src, 4) = SomeTag  -> Drop(src, 4)
      [] OTHER                   -> InvalidAccountData

UnpackOptionU64(src) ==
    CASE Take(src, 4) = Zeros(4) -> None
      [] Take(src, 4) = SomeTag  -> FromLeBytes(Drop(src, 4))
      [] OTHER                   -> InvalidAccountData

PackBool(b) == IF b THEN <<1>> ELSE <<0>>

IsBool(src) == src \in {<<0>>, <<1>>}

-----------------------------------------------------------------------------
(* unpack_from_slice and pack_into_slice.                                  *)

MintWidths == <<36, 8, 1, 1, 36>>

UnpackMint(src) ==
    LET f == Pieces(src, MintWidths)
        mintAuthority == UnpackOptionKey(f[1])
        freezeAuthority == UnpackOptionKey(f[5])
    IN  IF mintAuthority = InvalidAccountData \/ ~IsBool(f[4])
             \/ freezeAuthority = InvalidAccountData
        THEN InvalidAccountData
        ELSE [kind |-> "mint", mint_authority |-> mintAuthority,
              supply |-> FromLeBytes(f[2]), decimals |-> f[3][1],
              is_initialized |-> f[4] = <<1>>, freeze_authority |-> freezeAuthority]

PackMint(mint, dst) ==
    LET f == Pieces(dst, MintWidths)
    IN  PackOptionKey(mint.mint_authority, f[1])
          \o LeBytes(mint.supply, 8) \o <<mint.decimals>>
          \o PackBool(mint.is_initialized)
          \o PackOptionKey(mint.freeze_authority, f[5])

AccountWidths == <<32, 32, 8, 36, 1, 12, 8, 36>>

UnpackAccount(src) ==
    LET f == Pieces(src, AccountWidths)
        delegate == UnpackOptionKey(f[4])
        isNative == UnpackOptionU64(f[6])
        closeAuthority == UnpackOptionKey(f[8])
    IN  IF delegate = InvalidAccountData \/ f[5][1] + 1 \notin DOMAIN AccountStates
             \/ isNative = InvalidAccountData \/ closeAuthority = InvalidAccountData
        THEN InvalidAccountData
        ELSE [kind |-> "account", mint |-> f[1], owner |-> f[2],
              amount |-> FromLeBytes(f[3]), delegate |-> delegate,
              state |-> AccountStates[f[5][1] + 1], is_native |-> isNative,
              delegated_amount |-> FromLeBytes(f[7]),
              close_authority |-> closeAuthority]

PackAccount(account, dst) ==
    LET f == Pieces(dst, AccountWidths)
        state == CHOOSE n \in DOMAIN AccountStates : AccountStates[n] = account.state
    IN  account.mint \o account.owner \o LeBytes(account.amount, 8)
          \o PackOptionKey(account.delegate, f[4]) \o <<state - 1>>
          \o PackOptionU64(account.is_native, f[6])
          \o LeBytes(account.delegated_amount, 8)
          \o PackOptionKey(account.close_authority, f[8])

UnpackMultisig(src) ==
    LET f == Pieces(src, <<1, 1, 1, 32 * MaxSigners>>)
    IN  IF ~IsBool(f[3]) THEN InvalidAccountData
        ELSE [kind |-> "multisig", m |-> f[1][1], n |-> f[2][1],
              is_initialized |-> f[3] = <<1>>,
              signers |-> Pieces(f[4], [i \in 1 .. MaxSigners |-> 32])]

PackMultisig(multisig) ==
    <<multisig.m, multisig.n>> \o PackBool(multisig.is_initialized)
       \o [p \in 1 .. 32 * MaxSigners |->
              multisig.signers[((p - 1) \div 32) + 1][((p - 1) % 32) + 1]]

-----------------------------------------------------------------------------
(* The length decides which of the three an account is.                    *)

UnpackUnchecked(src) ==
    CASE Len(src) = MintLen     -> UnpackMint(src)
      [] Len(src) = AccountLen  -> UnpackAccount(src)
      [] Len(src) = MultisigLen -> UnpackMultisig(src)
      [] OTHER                  -> InvalidAccountData

Pack(value, dst) ==
    CASE value.kind = "mint"     -> PackMint(value, dst)
      [] value.kind = "account"  -> PackAccount(value, dst)
      [] value.kind = "multisig" -> PackMultisig(value)

-----------------------------------------------------------------------------
(* Reading an account in part.  Offsets count from 0.                       *)

\* Mutant: the offset of the state before the delegate's tag had four bytes.
IsInitializedAccountAt105(data) == Len(data) > 105 /\ data[106] # 0

\* ACCOUNT_INITIALIZED_INDEX
IsInitializedAccount(data) == Len(data) > 108 /\ data[109] # 0

ValidAccountData(data) == Len(data) = AccountLen /\ IsInitializedAccount(data)

UnpackPubkeyUnchecked(data, offset) == SubSeq(data, offset + 1, offset + 32)

UnpackAccountOwner(data) ==
    IF ValidAccountData(data) THEN UnpackPubkeyUnchecked(data, 32) ELSE None

UnpackAccountMint(data) ==
    IF ValidAccountData(data) THEN UnpackPubkeyUnchecked(data, 0) ELSE None
=============================================================================
