--------------------- MODULE InstructionCodecProperties ---------------------
(***************************************************************************)
(* Instruction data on its way to the program: packed by a client that may *)
(* use another version of the instruction set, or edited by hand.          *)
(***************************************************************************)
EXTENDS InstructionCodec

CONSTANTS
    Small,      \* the values of a u8 and
    Amounts,    \*     of an amount clients pack
    Bytes,      \* the bytes they add or put in place of another
    MaxExtra    \* how many are added

ClientAssumption ==
    Small \subseteq U8 /\ Amounts \subseteq U64 /\ Bytes \subseteq Byte /\ MaxExtra \in Nat

WithFew(operations) ==
    {o \in operations : "amount" \in DOMAIN o => o.amount \in Amounts}

\* Every operation of the program, with a few values of its operands.
Sent ==
    [tag : {"InitializeMint", "InitializeMint2"}, decimals : Small,
     mint_authority : Key, freeze_authority : Key \cup {None}]
    \cup [tag : {"InitializeMultisig", "InitializeMultisig2"}, m : Small]
    \cup [tag : {"TransferChecked", "ApproveChecked", "MintToChecked", "BurnChecked"},
          amount : Amounts, decimals : Small]
    \cup [tag : {"InitializeAccount2", "InitializeAccount3"}, owner : Key]
    \cup WithFew(OwnerInstructions) \cup WithFew(SupplyInstructions)
    \cup WithFew(ClientQueries)
    \cup [tag : {"InitializeAccount", "SyncNative"}]

VARIABLES
    sent,       \* the operation that was packed
    data        \* the instruction data

vars == <<sent, data>>

Init ==
    /\ sent \in Sent
    /\ data = Pack(sent)

Shorten ==
    /\ data # <<>>
    /\ data' = Front(data)
    /\ UNCHANGED sent

\* What a newer client appends.
Lengthen ==
    /\ IsPrefix(Pack(sent), data)
    /\ Len(data) < Len(Pack(sent)) + MaxExtra
    /\ \E b \in Bytes : data' = Append(data, b)
    /\ UNCHANGED sent

\* One byte differs from what was packed.
Alter ==
    /\ data = Pack(sent)
    /\ \E p \in DOMAIN data, b \in Bytes : data' = [data EXCEPT ![p] = b]
    /\ UNCHANGED sent

Next == Shorten \/ Lengthen \/ Alter

Spec == Init /\ [][Next]_vars

-----------------------------------------------------------------------------
\* The text of a ui amount is the only operand without a length of its own.
Delimited == sent.tag # "UiAmountToAmount"

\* The program runs the operation a client packed, whatever a newer client
\* appends to it, except to a text.
WireRoundTrip ==
    /\ data = Pack(sent) => Unpack(data) = sent
    /\ Delimited /\ IsPrefix(Pack(sent), data) => Unpack(data) = sent

\* Every data the program accepts begins with the packed form of what it takes
\* it for, so no operation has two encodings that differ before its end; and
\* data that was cut short is refused: no operation is the beginning of another
\* one, or would run with a part of its operands.
WireAcceptsOnlyPacked ==
    Unpack(data) # InvalidInstruction =>
        /\ IsPrefix(Pack(Unpack(data)), data)
        /\ Delimited => ~IsStrictPrefix(data, Pack(sent))
=============================================================================
