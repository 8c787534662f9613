------------------------- MODULE TokenZigProperties -------------------------
(***************************************************************************)
(* The Zig program beside the Rust program: what it does the Rust program  *)
(* could have done, but for the rent it asks of a new account, so that the *)
(* Rust program's promises about balances are kept here, too.              *)
(***************************************************************************)
EXTENDS TokenZig

\* The Rust program on the same accounts.  Nobody is a delegate or a close
\* authority here, so these roles are empty.
Rust == INSTANCE TokenProperties
           WITH CloseAuthorities <- {}, Delegates <- {}, Allowance <- {}

\* The Rust program on a chain where a token account needs the given lamports.
RustAt(minimum) ==
    INSTANCE Token
       WITH MinBalance <- [MinBalance EXCEPT !["account"] = minimum],
            CloseAuthorities <- {}, Delegates <- {}, Allowance <- {}

\* A token account is opened as the Rust program would at the stated rent.
OpensAtStatedRent ==
    \E stated \in StatedRent, k \in TokenAccounts, mint \in MintAccounts,
       newOwner \in Owners :
        RustAt(stated)!InitializeAccount(k, mint, newOwner)

\* Every step of the Zig program is a step of the Rust program with the same
\* signers, accounts and operands: leaving fields as they are found, writing
\* in place, adding without a check and taking lamports without asking whether
\* they are there come to the same.  Only the rent it asks of a new account is
\* not that of the chain but what the client's rent account states.
ImplementsRust ==
    Rust!Init /\ [][Rust!Next \/ OpensAtStatedRent]_vars

\* Whatever rent is stated, supplies match the balances, wrapped SOL is backed
\* on top of the reserve that was recorded, and no lamports are made or lost.
BalancesKept ==
    /\ Rust!SupplyMatchesBalances
    /\ Rust!WrappedLamportsBacked
    /\ Rust!LamportsConserved

\* Somebody holds the key of this address, and it is no multisig.
SignsAlone(k) ==
    k \in Signer /\ ~(owner[k] = TokenProgram /\ data[k].kind = "multisig")

\* Who signs alone can move its full balance to any account of the mint and
\* close what is empty or native into any other address, one without lamports
\* too, as long as there is a lamport in either of them.
OwnersAreNeverStuck ==
    \A a \in Key : Rust!IsLiveAccount(a) /\ SignsAlone(data[a].owner) =>
        LET o == data[a].owner IN
        /\ \A b \in Key : Rust!IsLiveAccount(b) /\ data[b].mint = data[a].mint
              => ENABLED Transfer({o}, a, b, data[a].amount)
        /\ IsNative(data[a]) \/ data[a].amount = 0 =>
              \A d \in Refund \ {a} :
                 lamports[a] + lamports[d] > 0
                    => ENABLED CloseAccount({o}, a, d)

\* What nobody can sign for alone stays.  The Rust program lets anybody burn
\* or close it when the owner is the system program or the incinerator, and
\* asks the signers when it is a multisig; this one does not.
StaysUnsigned(k) == Rust!StaysLive(k) /\ data'[k].amount >= data[k].amount

UnsignedTokensStay ==
    [][\A k \in Key :
          Rust!IsLiveAccount(k) /\ ~SignsAlone(data[k].owner)
             => StaysUnsigned(k)]_vars

=============================================================================
