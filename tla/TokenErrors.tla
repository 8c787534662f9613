----------------------------- MODULE TokenErrors -----------------------------
(***************************************************************************)
(* What the token program returns to the runtime: a u64 that is zero for   *)
(* success (token/src/error.rs and entrypoint.rs).  A code is written      *)
(* <<high, low>>, for high * 2^32 + low.                                   *)
(***************************************************************************)
EXTENDS Integers, Sequences

\* TokenError, numbered from 0 in this order.
TokenError == <<
    "NotRentExempt", "InsufficientFunds", "InvalidMint", "MintMismatch",
    "OwnerMismatch", "FixedSupply", "AlreadyInUse",
    "InvalidNumberOfProvidedSigners", "InvalidNumberOfRequiredSigners",
    "UninitializedState", "NativeNotSupported", "NonNativeHasBalance",
    "InvalidInstruction", "InvalidState", "Overflow",
    "AuthorityTypeNotSupported", "MintCannotFreeze", "AccountFrozen",
    "MintDecimalsMismatch", "NonNativeNotSupported">>

\* ProgramError::Custom(e as u32)
Custom(e) == (CHOOSE n \in DOMAIN TokenError : TokenError[n] = e) - 1

\* The library's own errors have numbers above the u32s.
ProgramErrorCode ==
    [InvalidArgument |-> 2, InvalidAccountData |-> 4, IncorrectProgramId |-> 7,
     MissingRequiredSignature |-> 8, UninitializedAccount |-> 10,
     NotEnoughAccountKeys |-> 11]

\* A program that panics or is not called returns nothing: the runtime's error.
NoReturn == {"Panic", "SignatureFailure"}

Aborted == <<-1, 0>>

Code(e) ==
    IF e \in DOMAIN ProgramErrorCode THEN <<ProgramErrorCode[e], 0>>
    ELSE IF e \in NoReturn THEN Aborted
    ELSE IF Custom(e) = 0 THEN <<1, 0>>
    ELSE <<0, Custom(e)>>

\* What entrypoint! returns for the outcome of process_instruction.
ReturnCode(result) == IF result = "Ok" THEN <<0, 0>> ELSE Code(result)
==============================================================================
