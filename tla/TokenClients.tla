---------------------------- MODULE TokenClients ----------------------------
(***************************************************************************)
(* Clients that call the token program: with the builders, one for every   *)
(* thing a client may mean to do, or by hand.                              *)
(***************************************************************************)
EXTENDS TokenInvocation

\* What the clients of a behaviour do, one record for every kind of client:
\*   tags, by_hand                     the instructions they use, and whether
\*                                     they also write them by hand
\*   mints, accounts, multisigs,       the addresses they open accounts at,
\*   forged                            those where another program has data
\*   owners, mint_authorities, freeze_authorities, close_authorities,
\*   delegates, refund, cosigners      whom they name in each role
\*   amounts, allowances, precisions   numbers
\*   deposits, gifts, savings          lamports they put into a new account,
\*                                     whom they send lamports, and what they keep
CONSTANT Clients

VARIABLE client

clientVars == <<allVars, client>>

ASSUME ClientsAssumption ==
    \A c \in Clients :
        /\ c.mints \subseteq MintKey /\ c.accounts \subseteq AccountKey
        /\ c.multisigs \subseteq MultisigKey /\ c.forged \subseteq ForeignKey
        /\ c.owners \subseteq Owners /\ c.mint_authorities \subseteq MintAuthorities
        /\ c.freeze_authorities \subseteq FreezeAuthorities
        /\ c.close_authorities \subseteq CloseAuthorities
        /\ c.delegates \subseteq Delegates /\ c.refund \subseteq Refund
        /\ c.amounts \subseteq Amount /\ c.allowances \subseteq Allowance
        /\ c.precisions \subseteq Decimals /\ c.deposits \subseteq FundAmount
        /\ c.gifts \subseteq Key /\ c.cosigners \subseteq Seq(Key)

-----------------------------------------------------------------------------
(* What a client may mean to do.                                           *)

Authorities(c) ==
    c.mint_authorities \cup c.freeze_authorities \cup c.owners
        \cup c.close_authorities \cup c.delegates

Mints(c) == c.mints \cup {NativeMint}

AuthorityChanges(c) ==
    (UNION {{type} \X
              (CASE type = "MintTokens"    -> c.mint_authorities
                 [] type = "FreezeAccount" -> c.freeze_authorities
                 [] type = "AccountOwner"  -> c.owners
                 [] type = "CloseAccount"  -> c.close_authorities) : type \in AuthorityType})
    \cup AuthorityType \X {None}

InitializerIntents(c) ==
    [tag : {"InitializeMint", "InitializeMint2"}, mint : c.mints,
     mint_authority : c.mint_authorities,
     freeze_authority : c.freeze_authorities \cup {None}, decimals : c.precisions]
    \cup [tag : {"InitializeAccount", "InitializeAccount2", "InitializeAccount3"},
          account : c.accounts, mint : Mints(c), owner : c.owners]
    \cup [tag : {"InitializeMultisig", "InitializeMultisig2"}, multisig : c.multisigs,
          signers : BoundedSeq(Signer, MaxSigners + 1), m : 0 .. MaxSigners + 1]
    \cup [tag : {"SyncNative", "InitializeImmutableOwner"}, account : c.accounts]

AuthorityIntents(c) ==
    LET A == Authorities(c)
        S == c.cosigners
    IN  [tag : {"Approve"}, source : c.accounts, delegate : c.delegates,
         amount : c.allowances, authority : A, signers : S]
        \cup [tag : {"ApproveChecked"}, source : c.accounts, mint : Mints(c),
              delegate : c.delegates, amount : c.allowances, decimals : c.precisions,
              authority : A, signers : S]
        \cup [tag : {"Revoke"}, source : c.accounts, authority : A, signers : S]
        \cup [tag : {"SetAuthority"}, owned : c.accounts \cup c.mints \cup c.multisigs,
              change : AuthorityChanges(c), authority : A, signers : S]
        \cup [tag : {"CloseAccount"}, account : c.accounts, destination : c.refund,
              authority : A, signers : S]
        \cup [tag : {"FreezeAccount", "ThawAccount"}, account : c.accounts, mint : Mints(c),
              authority : A, signers : S]

AmountIntents(c) ==
    LET A == Authorities(c)
        S == c.cosigners
    IN  [tag : {"Transfer"}, source : c.accounts, destination : c.accounts,
         amount : c.amounts, authority : A, signers : S]
        \cup [tag : {"TransferChecked"}, source : c.accounts, mint : Mints(c),
              destination : c.accounts, amount : c.amounts, decimals : c.precisions,
              authority : A, signers : S]
        \cup [tag : {"MintTo", "Burn"}, mint : Mints(c), account : c.accounts,
              amount : c.amounts, authority : A, signers : S]
        \cup [tag : {"MintToChecked", "BurnChecked"}, mint : Mints(c), account : c.accounts,
              amount : c.amounts, decimals : c.precisions, authority : A, signers : S]
        \cup [tag : {"GetAccountDataSize"}, mint : Mints(c) \cup c.accounts]
        \cup [tag : {"AmountToUiAmount"}, mint : Mints(c), amount : c.amounts]
        \cup [tag : {"UiAmountToAmount"}, mint : Mints(c), ui_amount : UiText]

Intents ==
    [c \in Clients |->
        {i \in InitializerIntents(c) \cup AuthorityIntents(c) \cup AmountIntents(c) :
            i.tag \in c.tags}]

\* The call of a builder that carries the intent.
Build(i) ==
    LET P == TokenProgram
    IN
    CASE i.tag = "InitializeMint" ->
            initialize_mint(P, i.mint, i.mint_authority, i.freeze_authority, i.decimals)
      [] i.tag = "InitializeMint2" ->
            initialize_mint2(P, i.mint, i.mint_authority, i.freeze_authority, i.decimals)
      [] i.tag = "InitializeAccount" -> initialize_account(P, i.account, i.mint, i.owner)
      [] i.tag = "InitializeAccount2" -> initialize_account2(P, i.account, i.mint, i.owner)
      [] i.tag = "InitializeAccount3" -> initialize_account3(P, i.account, i.mint, i.owner)
      [] i.tag = "InitializeMultisig" -> initialize_multisig(P, i.multisig, i.signers, i.m)
      [] i.tag = "InitializeMultisig2" -> initialize_multisig2(P, i.multisig, i.signers, i.m)
      [] i.tag = "SyncNative" -> sync_native(P, i.account)
      [] i.tag = "InitializeImmutableOwner" -> initialize_immutable_owner(P, i.account)
      [] i.tag = "Approve" ->
            approve(P, i.source, i.delegate, i.authority, i.signers, i.amount)
      [] i.tag = "ApproveChecked" ->
            approve_checked(P, i.source, i.mint, i.delegate, i.authority, i.signers,
                            i.amount, i.decimals)
      [] i.tag = "Revoke" -> revoke(P, i.source, i.authority, i.signers)
      [] i.tag = "SetAuthority" ->
            set_authority(P, i.owned, i.change[2], i.change[1], i.authority, i.signers)
      [] i.tag = "CloseAccount" ->
            close_account(P, i.account, i.destination, i.authority, i.signers)
      [] i.tag = "FreezeAccount" -> freeze_account(P, i.account, i.mint, i.authority, i.signers)
      [] i.tag = "ThawAccount" -> thaw_account(P, i.account, i.mint, i.authority, i.signers)
      [] i.tag = "Transfer" ->
            transfer(P, i.source, i.destination, i.authority, i.signers, i.amount)
      [] i.tag = "TransferChecked" ->
            transfer_checked(P, i.source, i.mint, i.destination, i.authority, i.signers,
                             i.amount, i.decimals)
      [] i.tag = "MintTo" -> mint_to(P, i.mint, i.account, i.authority, i.signers, i.amount)
      [] i.tag = "MintToChecked" ->
            mint_to_checked(P, i.mint, i.account, i.authority, i.signers,
                            i.amount, i.decimals)
      [] i.tag = "Burn" -> burn(P, i.account, i.mint, i.authority, i.signers, i.amount)
      [] i.tag = "BurnChecked" ->
            burn_checked(P, i.account, i.mint, i.authority, i.signers, i.amount, i.decimals)
      [] i.tag = "GetAccountDataSize" -> get_account_data_size(P, i.mint)
      [] i.tag = "AmountToUiAmount" -> amount_to_ui_amount(P, i.mint, i.amount)
      [] i.tag = "UiAmountToAmount" -> ui_amount_to_amount(P, i.mint, i.ui_amount)

\* Who is to sign, and who of them can.
Asked(i) ==
    IF "authority" \notin DOMAIN i THEN {}
    ELSE IF i.signers = <<>> THEN {i.authority}
    ELSE Range(i.signers)

SignersOf(i) == Asked(i) \cap Signer

SubmitBuilt(i) ==
    /\ IsBuilt(Build(i))
    /\ Submit(Build(i), SignersOf(i))
    /\ intent' = i

BuiltRequests(c) == {b \in {Build(i) : i \in Intents[c]} : IsBuilt(b)}

WithFlag(instruction, isSigner, isWritable) ==
    [instruction EXCEPT !.accounts =
        [p \in DOMAIN instruction.accounts |->
            [pubkey |-> instruction.accounts[p].pubkey,
             is_signer |-> isSigner /\ instruction.accounts[p].is_signer,
             is_writable |-> isWritable /\ instruction.accounts[p].is_writable]]]

\* A multisig of n times the same signer, whatever the quorum.
MultisigByHand(k, signer, n, m) ==
    [program_id |-> TokenProgram,
     accounts |-> Writable(k) \o Listed([p \in 1 .. n |-> signer], FALSE),
     data |-> [tag |-> "InitializeMultisig2", m |-> m]]

MultisigsByHand(c) ==
    {MultisigByHand(k, signer, n, m) :
        k \in c.multisigs, signer \in Signer,
        n \in (0 .. MaxSigners + 1) \cup {IndexSpan + 1}, m \in 0 .. MaxSigners + 1}

\* Written by hand: a signature, the write permission or an account is missing,
\* or a multisig does not have the quorum the builder asks for.
HandmadeRequests ==
    [c \in {d \in Clients : d.by_hand} |->
        {WithFlag(i, FALSE, TRUE) : i \in BuiltRequests(c)}
        \cup {WithFlag(i, TRUE, FALSE) : i \in BuiltRequests(c)}
        \cup {[i EXCEPT !.accounts = Front(@)] : i \in BuiltRequests(c)}
        \cup MultisigsByHand(c)]

SubmitHandmade(instruction) == Submit(instruction, Signer) /\ UNCHANGED intent

\* The clients' own calls of the system program, and what another program does.
Prepare ==
    \/ \E from \in Signer, k \in client.gifts, n \in GiftAmount : SystemTransfer(from, k, n)
    \/ \E from \in Signer, n \in client.deposits :
          \E k \in client.mints \cup client.accounts \cup client.multisigs :
             \E zero \in Layouts(k) :
                /\ n + client.savings <= lamports[from]
                /\ CreateAccount(from, k, zero, TokenProgram, n)
    \/ \E k \in client.forged :
          \/ \E from \in Signer, n \in client.deposits :
                CreateAccount(from, k, EmptyData, OtherProgram, n)
          \/ \E d \in ForeignData : OtherProgramWrites(k, d)

Init ==
    /\ client \in Clients
    /\ Bank!Init
    /\ pc = "idle"
    /\ intent = None
    /\ call = None
    /\ cells = None
    /\ matching = NoLoop
    /\ effects = <<>>
    /\ result = Ok

\* An invocation holds the locks of its accounts; the model lets nothing else
\* happen while it runs.
Next ==
    /\ UNCHANGED client
    /\ \/ \E i \in Intents[client] : SubmitBuilt(i)
       \/ /\ client.by_hand
          /\ \E instruction \in HandmadeRequests[client] : SubmitHandmade(instruction)
       \/ pc = "idle" /\ Prepare /\ UNCHANGED run
       \/ Progress

\* A program that has been called runs to its end, and its outcome is applied.
Spec == Init /\ [][Next]_clientVars /\ WF_clientVars(Progress /\ UNCHANGED client)
=============================================================================
