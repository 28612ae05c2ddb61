-------------------------- MODULE MCCredentialTypes --------------------------
(* CredentialTypes for TLC. *)
EXTENDS CredentialTypes, TLC

TypesSymmetry == Permutations(Workers) \cup Permutations(Templates)
=============================================================================
