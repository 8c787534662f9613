------------------------------- MODULE Totals -------------------------------
(***************************************************************************)
(* Totals of token amounts and of lamports.                                *)
(*                                                                         *)
(* Amounts are Rust `u64`s whose arithmetic the token program checks, so   *)
(* they are the naturals up to U64Max and every addition is guarded where  *)
(* the code says checked_add.                                              *)
(*                                                                         *)
(* The total of a function is counted rather than summed: it is the number *)
(* of its units, where the n units of f[k] are <<k, 1>>, ..., <<k, n>>.    *)
(* What an update does to a total is then a fact about cardinalities.      *)
(***************************************************************************)
EXTENDS Integers, FiniteSets

CONSTANT U64Max     \* u64::MAX, a small number when model checking

ASSUME U64Assumption == U64Max \in Nat

U64 == 0 .. U64Max

Units(f) == {u \in (DOMAIN f) \X (1 .. U64Max) : u[2] <= f[u[1]]}

Total(f) == Cardinality(Units(f))

=============================================================================
