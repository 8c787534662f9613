----------------------------- MODULE MCStateCodec -----------------------------
(***************************************************************************)
(* The code's widths, with addresses whose bytes all differ; every stored   *)
(* value over every other one.                                             *)
(***************************************************************************)
EXTENDS StateCodecProperties

system == [i \in 1 .. 32 |-> 0]
incinerator == [i \in 1 .. 32 |-> i]
native == [i \in 1 .. 32 |-> 255 - i]

MCKeys == {system, incinerator, native}

MCMints ==
    [kind : {"mint"}, mint_authority : {system, incinerator, native, None},
     supply : {0, 66051}, decimals : {0, 2}, is_initialized : {TRUE},
     freeze_authority : {None, incinerator}]

MCAccounts ==
    [kind : {"account"}, mint : {native}, owner : {system, incinerator},
     amount : {66051}, delegate : {None, system, incinerator},
     state : {"Initialized", "Frozen"}, is_native : {0, 258, None},
     delegated_amount : {0, 259}, close_authority : {None, native}]

MCMultisigs ==
    [kind : {"multisig"}, m : {1, 2}, n : {2, 11}, is_initialized : {TRUE},
     signers : {[i \in 1 .. 11 |-> native],
                [i \in 1 .. 11 |-> IF i < 3 THEN incinerator ELSE system]}]

MCValues == MCMints \cup MCAccounts \cup MCMultisigs

\* Another program's bytes differ, in a mint, at the tag, the supply,
\* is_initialized and the freeze authority, and in an account at the mint, the
\* owner, the delegate's tag, the state, is_native and the close authority.
MCPlaces == {1, 33, 37, 46, 47, 73, 76, 106, 109, 110, 130}

ASSUME CodecAssumption == WidthAssumption /\ ClientAssumption
=============================================================================
