-------------------------- MODULE MCResourceLedger --------------------------
(* Small instances of the resource ledger.                                 *)
EXTENDS ResourceLedger, TLC

\* The ledger compares owners only for equality.
OwnerSymmetry == Permutations(Owners)
=============================================================================
