----------------------------- MODULE MCPrograms -----------------------------
(***************************************************************************)
(* The small programs on small instances.  A behaviour has one of them     *)
(* deployed; the variables of the other rest.                              *)
(***************************************************************************)
EXTENDS TransferLamports, Cpi

CONSTANTS
    first, second, foreign,                     \* accounts of transfer-lamports
    alice, pda1, pda2, pda3, pda4, pda5         \* addresses for cpi

VARIABLE deployed       \* the program: "transfer-lamports" or "cpi"

\* Two accounts of the program and one of another.
MCGenesis == [k \in Key |-> IF k = first THEN 2 ELSE IF k = second THEN 1 ELSE 0]

\* Five derived addresses, and a sixth bump seed that is off the curve.
MCDerived ==
    [bump \in Bump |->
        IF bump = 6 THEN None ELSE <<pda1, pda2, pda3, pda4, pda5>>[bump]]

ASSUME ProgramAssumption == AccountAssumption /\ AddressAssumption

ProgramsInit ==
    \/ /\ deployed = "transfer-lamports"
       /\ Init
       /\ CpiInit /\ port = "Rust"
    \/ /\ deployed = "cpi"
       /\ CpiInit
       /\ Init /\ \A k \in Key : size[k] = 0

ProgramsNext ==
    \/ deployed = "transfer-lamports" /\ Next /\ UNCHANGED <<deployed, cpiVars>>
    \/ deployed = "cpi" /\ CpiNext /\ UNCHANGED <<deployed, vars>>

ProgramsSpec == ProgramsInit /\ [][ProgramsNext]_<<deployed, vars, cpiVars>>
=============================================================================
