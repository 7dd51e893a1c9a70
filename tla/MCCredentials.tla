--------------------------- MODULE MCCredentials ---------------------------
(* Small instances of Credentials for TLC. *)
EXTENDS Credentials, TLC

Symmetry == Permutations(Workers) \union Permutations(Flows)
=============================================================================
