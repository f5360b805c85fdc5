---------------------------- MODULE MCTokenBuffer ----------------------------
(* Small instances of the token buffer.                                      *)
EXTENDS TokenBuffer, TLC

\* Identities are only ever compared for equality.
Symmetry == Permutations(Owners) \cup Permutations(Slots) \cup Permutations(Tokens)
=============================================================================
