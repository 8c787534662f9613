---------------------------- MODULE TokenLedger ----------------------------
(***************************************************************************)
(* What the token program promises the rest of the chain about the tokens  *)
(* it issues, with everything that is not a number left out: who may act,  *)
(* delegation, freezing, rent, account layouts and the Solana runtime.     *)
(*                                                                         *)
(* Every mint has a supply, every holder account has a balance of at most  *)
(* one mint, and a balance changes only by minting, burning or moving.     *)
(* Token.tla implements this specification (Token!LedgerSpec).             *)
(***************************************************************************)
EXTENDS Totals

CONSTANTS
    Key,        \* account addresses (Pubkey)
    None        \* COption::None: no mint at this address, no account

ASSUME LedgerAssumption ==
    /\ IsFiniteSet(Key)
    /\ None \notin Key
    /\ None \notin U64

VARIABLES
    supply,     \* [Key -> U64 \cup {None}], None where there is no mint
    mintOf,     \* [Key -> Key \cup {None}], None where there is no holder
    balance     \* [Key -> U64]

ledgerVars == <<supply, mintOf, balance>>

Init ==
    /\ supply \in [Key -> {0, None}]
    /\ mintOf = [k \in Key |-> None]
    /\ balance = [k \in Key |-> 0]

CreateMint(m) ==
    /\ supply[m] = None
    /\ supply' = [supply EXCEPT ![m] = 0]
    /\ UNCHANGED <<mintOf, balance>>

Open(h, m) ==
    /\ mintOf[h] = None
    /\ supply[m] # None
    /\ mintOf' = [mintOf EXCEPT ![h] = m]
    /\ UNCHANGED <<supply, balance>>

\* Mutant: an account is closed with what it holds.
CloseWithBalance(h) ==
    /\ mintOf[h] # None
    /\ mintOf' = [mintOf EXCEPT ![h] = None]
    /\ UNCHANGED <<supply, balance>>

\* Only an empty account may go: its tokens would leave the supply behind.
Close(h) ==
    /\ mintOf[h] # None
    /\ balance[h] = 0
    /\ mintOf' = [mintOf EXCEPT ![h] = None]
    /\ UNCHANGED <<supply, balance>>

\* Mutant: the supply may pass the largest u64.
MintUnchecked(h, n) ==
    /\ mintOf[h] # None
    /\ supply' = [supply EXCEPT ![mintOf[h]] = supply[mintOf[h]] + n]
    /\ balance' = [balance EXCEPT ![h] = balance[h] + n]
    /\ UNCHANGED mintOf

Mint(h, n) ==
    /\ mintOf[h] # None
    /\ supply[mintOf[h]] + n <= U64Max
    /\ supply' = [supply EXCEPT ![mintOf[h]] = supply[mintOf[h]] + n]
    /\ balance' = [balance EXCEPT ![h] = balance[h] + n]
    /\ UNCHANGED mintOf

Burn(h, n) ==
    /\ mintOf[h] # None
    /\ n <= balance[h]
    /\ supply' = [supply EXCEPT ![mintOf[h]] = supply[mintOf[h]] - n]
    /\ balance' = [balance EXCEPT ![h] = balance[h] - n]
    /\ UNCHANGED mintOf

\* No guard keeps balance[b] + n below U64Max: Conserved does.
Move(a, b, n) ==
    /\ a # b
    /\ mintOf[a] # None
    /\ mintOf[b] = mintOf[a]
    /\ n <= balance[a]
    /\ balance' = [balance EXCEPT ![a] = balance[a] - n,
                                  ![b] = balance[b] + n]
    /\ UNCHANGED <<supply, mintOf>>

Next ==
    \/ \E m \in Key : CreateMint(m)
    \/ \E h, m \in Key : Open(h, m)
    \/ \E h \in Key : Close(h)
    \/ \E h \in Key, n \in U64 : Mint(h, n)
    \/ \E h \in Key, n \in U64 : Burn(h, n)
    \/ \E a, b \in Key, n \in U64 : Move(a, b, n)

Spec == Init /\ [][Next]_ledgerVars

-----------------------------------------------------------------------------
\* The balances of the accounts of mint m.
Holding(m) == [h \in Key |-> IF mintOf[h] = m THEN balance[h] ELSE 0]

\* The variables stay in their types; in particular no balance overflows.
TypeOK ==
    /\ supply \in [Key -> U64 \cup {None}]
    /\ mintOf \in [Key -> Key \cup {None}]
    /\ balance \in [Key -> U64]

\* A holder's mint exists, and an address that is no holder has no balance.
HoldersHaveMints ==
    \A h \in Key : IF mintOf[h] = None THEN balance[h] = 0
                                       ELSE supply[mintOf[h]] # None

\* The supply of every mint is exactly what its accounts hold: the amount
\* process_mint_to adds to and process_burn takes from both sides, and that
\* no other instruction may change.
Conserved ==
    \A m \in Key : supply[m] # None => supply[m] = Total(Holding(m))

=============================================================================
