------------------------------- MODULE Solana -------------------------------
(***************************************************************************)
(* The part of the Solana runtime the token program lives in.  None of it  *)
(* is code of this repository: it is modelled from what the program, its   *)
(* CPI calls and its tests rely on.                                        *)
(*                                                                         *)
(* The chain is a map from addresses to accounts.  An account has          *)
(* lamports, an owning program and data.  One instruction runs at a time   *)
(* on the accounts it names (the runtime locks them), and if the program   *)
(* returns an error, or leaves the accounts in a state the runtime refuses,*)
(* nothing of the instruction remains.  A failing instruction is therefore *)
(* a stuttering step, and an action describes an instruction that succeeds.*)
(***************************************************************************)
EXTENDS TokenState

CONSTANTS
    TokenProgram,    \* the address the token program is deployed at
    OtherProgram,    \* any other program, trusted by nobody
    Signer,          \* addresses whose private key a client may sign with
    MintKey,         \* addresses where clients allocate a mint,
    AccountKey,      \*     a token account,
    MultisigKey,     \*     a multisig
    ForeignKey,      \* addresses given to OtherProgram
    ForeignData,     \* what OtherProgram writes there
    MinBalance,      \* [kind -> lamports] that make an account rent exempt
    GenesisLamports, \* [Key -> lamports]
    FundAmount,      \* lamports clients fund a new account with
    GiftAmount       \* lamports clients send to any address

ASSUME ProgramAssumption ==
    /\ TokenProgram \notin {SystemProgram, OtherProgram}
    /\ SystemProgram # OtherProgram

ASSUME ClientAssumption ==
    /\ (Signer \cup MintKey \cup AccountKey \cup MultisigKey \cup ForeignKey)
          \subseteq Key
    /\ ForeignData \subseteq Data
    /\ MinBalance \in [{"mint", "account", "multisig"} -> U64]
    /\ GenesisLamports \in [Key -> U64]
    /\ FundAmount \subseteq U64
    /\ GiftAmount \subseteq U64

\* Nobody has the private key of the system program's address, 32 zero bytes,
\* or of the incinerator's.
ASSUME UnsignableAssumption == {SystemProgram, Incinerator} \cap Signer = {}

\* All the lamports there are fit in a u64, and the native mint is funded.
ASSUME LamportsAssumption ==
    /\ Total(GenesisLamports) <= U64Max
    /\ MinBalance["mint"] <= GenesisLamports[NativeMint]

VARIABLES
    lamports,   \* AccountInfo.lamports of every address
    owner,      \* AccountInfo.owner: the program the address belongs to
    data        \* AccountInfo.data

vars == <<lamports, owner, data>>

Program == {SystemProgram, TokenProgram, OtherProgram}

-----------------------------------------------------------------------------
(* What the runtime checks of the accounts when a program returns.  It also *)
(* refuses an instruction that changes the sum of the lamports; that check  *)
(* is left out, so that Token!LamportsConserved is about the program.       *)

RuntimeAccepts(program) ==
    \A k \in Key :
        /\ data'[k] # data[k] => owner[k] = program
        /\ lamports'[k] < lamports[k] => owner[k] = program
        /\ owner'[k] # owner[k] => owner[k] = program /\ data'[k] \in Zeroed

IsWallet(k) == owner[k] = SystemProgram /\ data[k] = EmptyData

Pay(from, to, n) ==
    /\ from # to
    /\ n <= lamports[from]
    /\ lamports[to] + n <= U64Max
    /\ lamports' = [lamports EXCEPT ![from] = lamports[from] - n,
                                    ![to] = lamports[to] + n]

\* system_instruction::transfer; the receiver may be any account.
SystemTransfer(from, to, n) ==
    /\ IsWallet(from)
    /\ Pay(from, to, n)
    /\ UNCHANGED <<owner, data>>

\* system_instruction::create_account, or allocate and assign when the address
\* already has lamports: space is allocated, zeroed and given to a program.
CreateAccount(from, k, zero, program, n) ==
    /\ IsWallet(from)
    /\ IsWallet(k)
    /\ Pay(from, k, n)
    /\ owner' = [owner EXCEPT ![k] = program]
    /\ data' = [data EXCEPT ![k] = zero]

\* OtherProgram does as it likes with the data of its accounts,
OtherProgramWrites(k, d) ==
    /\ owner[k] = OtherProgram
    /\ data' = [data EXCEPT ![k] = d]
    /\ UNCHANGED <<lamports, owner>>

\* but it can give an account away only with its data zeroed.
OtherProgramAssigns(k, zero) ==
    /\ owner[k] = OtherProgram
    /\ data' = [data EXCEPT ![k] = zero]
    /\ owner' = [owner EXCEPT ![k] = TokenProgram]
    /\ UNCHANGED lamports

Layouts(k) ==
    {zero \in {ZeroMint, ZeroAccount, ZeroMultisig} :
        \/ zero = ZeroMint /\ k \in MintKey
        \/ zero = ZeroAccount /\ k \in AccountKey
        \/ zero = ZeroMultisig /\ k \in MultisigKey}

Environment ==
    \/ \E from \in Signer, to \in Key, n \in GiftAmount :
          SystemTransfer(from, to, n)
    \/ \E from \in Signer, k \in Key, n \in FundAmount :
          \E zero \in Layouts(k) :
             CreateAccount(from, k, zero, TokenProgram, n)
    \/ \E from \in Signer, k \in ForeignKey, n \in FundAmount :
          CreateAccount(from, k, EmptyData, OtherProgram, n)
    \/ \E k \in ForeignKey, d \in ForeignData : OtherProgramWrites(k, d)
    \/ \E k \in ForeignKey : \E zero \in Layouts(k) :
          OtherProgramAssigns(k, zero)

=============================================================================
