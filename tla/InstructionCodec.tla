-------------------------- MODULE InstructionCodec --------------------------
(***************************************************************************)
(* The bytes an instruction travels in (TokenInstruction::pack and unpack, *)
(* token/src/instruction.rs): a tag, then the operands one after another.  *)
(* An address is a tuple of KeyLen bytes and an amount takes AmountLen;    *)
(* the code's lengths are 32 and 8.                                        *)
(***************************************************************************)
EXTENDS TokenInstruction, Bytes

CONSTANTS
    KeyLen,             \* PUBKEY_BYTES
    AmountLen,          \* U64_BYTES
    InvalidInstruction  \* TokenError::InvalidInstruction

\* A U64Max of AmountLen bytes, and a Pubkey of any KeyLen bytes; those of Key are
\* the ones in use.
WidthAssumption ==
    /\ KeyLen \in Nat \ {0} /\ AmountLen \in Nat \ {0}
    /\ U64Max = 256^AmountLen - 1
    /\ \A k \in Key : k \in [1 .. KeyLen -> Byte]
    /\ \A t \in UiText : t \in Seq(Byte)

\* From 0 on.
Tags == <<
    "InitializeMint", "InitializeAccount", "InitializeMultisig", "Transfer",
    "Approve", "Revoke", "SetAuthority", "MintTo", "Burn", "CloseAccount",
    "FreezeAccount", "ThawAccount", "TransferChecked", "ApproveChecked",
    "MintToChecked", "BurnChecked", "InitializeAccount2", "SyncNative",
    "InitializeAccount3", "InitializeMultisig2", "InitializeMint2",
    "GetAccountDataSize", "InitializeImmutableOwner", "AmountToUiAmount",
    "UiAmountToAmount">>

\* AuthorityType::into and from, from 0 on.
AuthorityTypes == <<"MintTokens", "FreezeAccount", "AccountOwner", "CloseAccount">>

Number(names, name) == (CHOOSE n \in DOMAIN names : names[n] = name) - 1

-----------------------------------------------------------------------------
(* Packing.                                                                *)

PackPubkeyOption(key) == IF key = None THEN <<0>> ELSE <<1>> \o key

\* The operands of each instruction, as pack writes them.
PackedOperands ==
       [tag \in {"InitializeMint", "InitializeMint2"} |->
           <<"decimals", "mint_authority", "freeze_authority">>]
    @@ [tag \in {"InitializeMultisig", "InitializeMultisig2"} |-> <<"m">>]
    @@ [tag \in {"Transfer", "Approve", "MintTo", "Burn", "AmountToUiAmount"} |->
           <<"amount">>]
    @@ [tag \in {"TransferChecked", "ApproveChecked", "MintToChecked", "BurnChecked"} |->
           <<"amount", "decimals">>]
    @@ [tag \in {"InitializeAccount2", "InitializeAccount3"} |-> <<"owner">>]
    @@ [tag \in {"SetAuthority"} |-> <<"authority_type", "new_authority">>]
    @@ [tag \in {"UiAmountToAmount"} |-> <<"ui_amount">>]
    @@ [tag \in Range(Tags) |-> <<>>]

PackOperand(operand, value) ==
    CASE operand \in {"decimals", "m"} -> <<value>>
      [] operand = "amount" -> LeBytes(value, AmountLen)
      [] operand = "authority_type" -> <<Number(AuthorityTypes, value)>>
      [] operand \in {"freeze_authority", "new_authority"} -> PackPubkeyOption(value)
      [] OTHER -> value

Pack(operation) ==
    FoldLeft(LAMBDA buf, operand : buf \o PackOperand(operand, operation[operand]),
             <<Number(Tags, operation.tag)>>, PackedOperands[operation.tag])

-----------------------------------------------------------------------------
(* Unpacking.  A reader takes what it needs off the front of the input: it  *)
(* returns <<value, rest>>, or InvalidInstruction.                          *)

SplitFirst(input) ==
    IF input = <<>> THEN InvalidInstruction ELSE <<Head(input), Tail(input)>>

UnpackPubkey(input) ==
    IF Len(input) >= KeyLen THEN <<Take(input, KeyLen), Drop(input, KeyLen)>>
                            ELSE InvalidInstruction

\* Mutant: every tag but zero announces a key.
UnpackPubkeyOptionLenient(input) ==
    IF input = <<>> THEN InvalidInstruction
    ELSE IF Head(input) = 0 THEN <<None, Tail(input)>> ELSE UnpackPubkey(Tail(input))

UnpackPubkeyOption(input) ==
    IF input = <<>> THEN InvalidInstruction
    ELSE CASE Head(input) = 0 -> <<None, Tail(input)>>
           [] Head(input) = 1 -> UnpackPubkey(Tail(input))
           [] OTHER           -> InvalidInstruction

UnpackU64(input) ==
    IF Len(input) >= AmountLen
    THEN <<FromLeBytes(Take(input, AmountLen)), Drop(input, AmountLen)>>
    ELSE InvalidInstruction

UnpackAuthorityType(input) ==
    IF input # <<>> /\ Head(input) + 1 \in DOMAIN AuthorityTypes
    THEN <<AuthorityTypes[Head(input) + 1], Tail(input)>>
    ELSE InvalidInstruction

\* std::str::from_utf8: everything that is left.
UnpackText(input) ==
    IF input \in UiText THEN <<input, <<>>>> ELSE InvalidInstruction

\* Mutant: the decimals are read in front of the amount.
UnpackedOperandsSwapped ==
    [tag \in {"TransferChecked", "ApproveChecked", "MintToChecked", "BurnChecked"} |->
        <<"decimals", "amount">>]
    @@ PackedOperands

\* The operands unpack expects behind each tag.
UnpackedOperands ==
    [tag \in Range(Tags) |->
        CASE tag \in {"InitializeMint", "InitializeMint2"} ->
                <<"decimals", "mint_authority", "freeze_authority">>
          [] tag \in {"InitializeMultisig", "InitializeMultisig2"} -> <<"m">>
          [] tag \in {"Transfer", "Approve", "MintTo", "Burn", "AmountToUiAmount"} ->
                <<"amount">>
          [] tag = "SetAuthority" -> <<"authority_type", "new_authority">>
          [] tag \in {"TransferChecked", "ApproveChecked", "MintToChecked",
                      "BurnChecked"} -> <<"amount", "decimals">>
          [] tag \in {"InitializeAccount2", "InitializeAccount3"} -> <<"owner">>
          [] tag = "UiAmountToAmount" -> <<"ui_amount">>
          [] OTHER -> <<>>]

UnpackOperand(operand, input) ==
    CASE operand \in {"decimals", "m"} -> SplitFirst(input)
      [] operand \in {"mint_authority", "owner"} -> UnpackPubkey(input)
      [] operand \in {"freeze_authority", "new_authority"} -> UnpackPubkeyOption(input)
      [] operand = "amount" -> UnpackU64(input)
      [] operand = "authority_type" -> UnpackAuthorityType(input)
      [] operand = "ui_amount" -> UnpackText(input)

\* One reader after the other, on what is left; the rest at the end is ignored.
Unpack(input) ==
    IF input = <<>> \/ Head(input) + 1 \notin DOMAIN Tags THEN InvalidInstruction
    ELSE LET tag == Tags[Head(input) + 1]
             Read(read, operand) ==
                IF read = InvalidInstruction THEN read
                ELSE LET taken == UnpackOperand(operand, read[2])
                     IN  IF taken = InvalidInstruction THEN taken
                         ELSE <<(operand :> taken[1]) @@ read[1], taken[2]>>
             all == FoldLeft(Read, <<Plain(tag), Tail(input)>>, UnpackedOperands[tag])
         IN  IF all = InvalidInstruction THEN all ELSE all[1]
=============================================================================
