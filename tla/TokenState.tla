----------------------------- MODULE TokenState -----------------------------
(***************************************************************************)
(* The data of the accounts the token program reads and writes             *)
(* (token/src/state.rs).                                                   *)
(*                                                                         *)
(* On chain an account's data is a byte string, and the program tells a    *)
(* Mint (82 bytes), an Account (165) and a Multisig (355) apart by length  *)
(* alone.  Here data is a record whose "kind" stands for the length and    *)
(* whose other fields are those of the Rust struct.  COption::None is the  *)
(* constant None; the all-zero Pubkey is the system program's address.     *)
(***************************************************************************)
EXTENDS Totals

CONSTANTS
    Key,             \* account addresses (Pubkey)
    None,            \* COption::None
    SystemProgram,   \* system_program::ID, the Pubkey of 32 zero bytes
    Incinerator,     \* incinerator::ID
    NativeMint,      \* native_mint::ID, the mint of wrapped SOL
    Decimals,        \* values of a mint's `decimals` in use
    NativeDecimals,  \* native_mint::DECIMALS, 9 in the code
    MaxSigners       \* MAX_SIGNERS, 11 in the code

ASSUME KeyAssumption ==
    /\ IsFiniteSet(Key)
    /\ {SystemProgram, Incinerator, NativeMint} \subseteq Key
    /\ None \notin Key
    /\ None \notin Nat

ASSUME SizeAssumption ==
    /\ Decimals \subseteq Nat
    /\ NativeDecimals \in Decimals
    /\ MaxSigners \in Nat \ {0}

ASSUME DistinctKeys ==
    /\ SystemProgram # Incinerator
    /\ NativeMint \notin {SystemProgram, Incinerator}

-----------------------------------------------------------------------------
OptionalKey == Key \cup {None}

MintData ==
    [kind : {"mint"}, mint_authority : OptionalKey, supply : U64,
     decimals : Decimals \cup {0}, is_initialized : BOOLEAN,
     freeze_authority : OptionalKey]

AccountState == {"Uninitialized", "Initialized", "Frozen"}

AccountData ==
    [kind : {"account"}, mint : Key, owner : Key, amount : U64,
     delegate : OptionalKey, state : AccountState,
     is_native : U64 \cup {None}, delegated_amount : U64,
     close_authority : OptionalKey]

\* The n of the struct is the length of signers, whose unused entries of the
\* code's fixed array carry no information.
MultisigData ==
    [kind : {"multisig"}, m : 0 .. MaxSigners, is_initialized : BOOLEAN,
     signers : UNION {[1 .. n -> Key] : n \in 0 .. MaxSigners}]

\* An account without data: a wallet, or an address nobody has funded.
EmptyData == [kind |-> "none"]

Data == {EmptyData} \cup MintData \cup AccountData \cup MultisigData

-----------------------------------------------------------------------------
(* Freshly allocated data is all zero, and unpack_unchecked reads it as the *)
(* default value of the struct.                                             *)

ZeroMint ==
    [kind |-> "mint", mint_authority |-> None, supply |-> 0, decimals |-> 0,
     is_initialized |-> FALSE, freeze_authority |-> None]

ZeroAccount ==
    [kind |-> "account", mint |-> SystemProgram, owner |-> SystemProgram,
     amount |-> 0, delegate |-> None, state |-> "Uninitialized",
     is_native |-> None, delegated_amount |-> 0, close_authority |-> None]

ZeroMultisig ==
    [kind |-> "multisig", m |-> 0, is_initialized |-> FALSE,
     signers |-> [p \in 1 .. 0 |-> SystemProgram]]

Zeroed == {EmptyData, ZeroMint, ZeroAccount, ZeroMultisig}

-----------------------------------------------------------------------------
(* The tests the handlers make on unpacked data.  Pack::unpack fails on a   *)
(* wrong length and on data that is not initialized.                        *)

IsMint(d) == d.kind = "mint" /\ d.is_initialized

IsAccount(d) == d.kind = "account" /\ d.state # "Uninitialized"

IsMultisig(d) == d.kind = "multisig" /\ d.is_initialized

IsFrozen(d) == d.state = "Frozen"

IsNative(d) == d.is_native # None

IsOwnedBySystemProgramOrIncinerator(d) ==
    d.owner \in {SystemProgram, Incinerator}

IsValidSignerIndex(index) == index \in 1 .. MaxSigners

=============================================================================
