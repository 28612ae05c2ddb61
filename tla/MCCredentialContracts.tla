------------------------ MODULE MCCredentialContracts ------------------------
(* CredentialContracts for TLC: credential ids are interchangeable. *)
EXTENDS CredentialContracts, TLC

IdSymmetry == Permutations(Ids)
=============================================================================
