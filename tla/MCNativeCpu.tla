----------------------------- MODULE MCNativeCpu -----------------------------
(* NativeCpu for TLC. *)
EXTENDS NativeCpu, TLC

Symmetry == Permutations(Threads) \cup Permutations(Workers)
==============================================================================
