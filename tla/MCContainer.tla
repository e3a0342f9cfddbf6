----------------------------- MODULE MCContainer -----------------------------
(***************************************************************************)
(* Container for TLC: every way to register providers for the tokens, with *)
(* all their dependencies on one another and on tokens without a provider. *)
(* Tokens are interchangeable and all properties are invariants, so that   *)
(* the states that differ only in the tokens' names are explored once.     *)
(***************************************************************************)
EXTENDS Container

CONSTANTS t1, t2, t3

MCTokens == {t1, t2, t3}
Symmetry == Permutations(MCTokens)
=============================================================================
