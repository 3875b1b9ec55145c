-------------------------- MODULE MCStateStorage --------------------------
(***************************************************************************)
(* Model values for StateStorage.  Values are compared only, so the ones   *)
(* that are neither the default nor the mixture are interchangeable.       *)
(***************************************************************************)
EXTENDS StateStorage, TLC

Symmetry == Permutations(Value \ {Default, Garbled})
=============================================================================
