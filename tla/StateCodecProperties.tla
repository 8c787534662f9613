------------------------ MODULE StateCodecProperties ------------------------
(***************************************************************************)
(* The data of one account: allocated zeroed, then written by the program  *)
(* again and again, each time over the bytes of the last value.  Data of   *)
(* an account of some other program may have any bytes.                    *)
(***************************************************************************)
EXTENDS StateCodec

CONSTANTS
    Values,     \* what the program stores
    Places,     \* where the bytes of another program differ, and
    Bytewise    \* what is there instead

\* A Multisig with its n and its array.
FullMultisig ==
    [kind : {"multisig"}, m : Byte, n : Byte, is_initialized : BOOLEAN,
     signers : [1 .. MaxSigners -> Key]]

ClientAssumption ==
    /\ Values \subseteq MintData \cup AccountData \cup FullMultisig
    /\ Places \subseteq Nat /\ Bytewise \subseteq Byte

VARIABLES
    data,       \* the bytes of the account
    stored      \* the value the program packed last, or None

vars == <<data, stored>>

Init ==
    /\ data \in {Zeros(MintLen), Zeros(AccountLen), Zeros(MultisigLen)}
    /\ stored = None

\* Nobody but the program has written the account.
IsOwn == stored # None \/ data = Zeros(Len(data))

Store ==
    /\ IsOwn
    /\ \E value \in Values :
          /\ value.kind = CASE Len(data) = MintLen     -> "mint"
                            [] Len(data) = AccountLen  -> "account"
                            [] Len(data) = MultisigLen -> "multisig"
          /\ data' = Pack(value, data)
          /\ stored' = value

\* An account of another program, with a byte that is not as the program has it.
Differ ==
    /\ IsOwn
    /\ \E p \in Places \cap DOMAIN data, b \in Bytewise : data' = [data EXCEPT ![p] = b]
    /\ stored' = None

Next == Store \/ Differ

Spec == Init /\ [][Next]_vars

-----------------------------------------------------------------------------
\* What the program reads is what it stored last, to the last operand, no
\* matter what the bytes held before: bodies that None leaves behind stay
\* out of sight.  Zeroed data of any of the three lengths reads as the value
\* the handlers take for a new account, and as none that is initialized.
StorageReadsBack ==
    LET value == UnpackUnchecked(data)
        zeroMultisig ==
            [kind |-> "multisig", m |-> 0, n |-> 0, is_initialized |-> FALSE,
             signers |-> [i \in 1 .. MaxSigners |-> SystemProgram]]
    IN  /\ stored # None => value = stored
        /\ data = Zeros(Len(data)) =>
              /\ value \in {ZeroMint, ZeroAccount, zeroMultisig}
              /\ ~(IsMint(value) \/ IsAccount(value) \/ IsMultisig(value))

\* A handler that writes back what it has read does not change a byte, not
\* even of an account whose data it did not write: accounts the program only
\* unpacks and packs again look untouched to the runtime.
StorageRewritingChangesNothing ==
    LET value == UnpackUnchecked(data)
    IN  value # InvalidAccountData => Pack(value, data) = data

\* The readers that look at a few bytes say the same as unpacking everything,
\* when that succeeds.
StorageReadersAgree ==
    LET value == UnpackUnchecked(data)
    IN  /\ value # InvalidAccountData /\ value.kind = "account" =>
              /\ ValidAccountData(data) = IsAccount(value)
              /\ IsAccount(value) =>
                    /\ UnpackAccountOwner(data) = value.owner
                    /\ UnpackAccountMint(data) = value.mint
        /\ Len(data) # AccountLen => ~ValidAccountData(data)
=============================================================================
