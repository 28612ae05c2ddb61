----------------------- MODULE MCCredentialLifecycle -----------------------
\* Model-checking instances of CredentialLifecycle.
EXTENDS CredentialLifecycle, TLC

CredSymmetry == Permutations(Creds)
=============================================================================
