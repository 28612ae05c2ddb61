-------------------------- MODULE CredentialStatus --------------------------
(***************************************************************************)
(* What the backend promises about a credential, without queues, handlers  *)
(* or transactions: the table decides and the chain follows.  A credential *)
(* is issued and revoked by the two HTTP handlers; it appears on the       *)
(* registry and gets a certificate only after it was issued, each once,    *)
(* and the registry and the certificate are revoked only after the table   *)
(* was.  CredentialLifecycle implements this specification.                *)
(***************************************************************************)
CONSTANT Creds

VARIABLES
    table,     \* status in the credentials table
    chain,     \* status on CredentialRegistry
    cert       \* status on CertificateSBT

vars == <<table, chain, cert>>

TypeOK ==
    /\ table \in [Creds -> {"none", "ACTIVE", "REVOKED"}]
    /\ chain \in [Creds -> {"none", "active", "revoked"}]
    /\ cert \in [Creds -> {"none", "active", "revoked"}]

Init ==
    /\ table = [c \in Creds |-> "none"]
    /\ chain = [c \in Creds |-> "none"]
    /\ cert = [c \in Creds |-> "none"]

Issue(c) ==
    /\ table[c] = "none"
    /\ table' = [table EXCEPT ![c] = "ACTIVE"]
    /\ UNCHANGED <<chain, cert>>

Revoke(c) ==
    /\ table[c] = "ACTIVE"
    /\ table' = [table EXCEPT ![c] = "REVOKED"]
    /\ UNCHANGED <<chain, cert>>

Anchor(c) ==
    /\ table[c] # "none"
    /\ chain[c] = "none"
    /\ chain' = [chain EXCEPT ![c] = "active"]
    /\ UNCHANGED <<table, cert>>

AnchorRevocation(c) ==
    /\ table[c] = "REVOKED"
    /\ chain[c] = "active"
    /\ chain' = [chain EXCEPT ![c] = "revoked"]
    /\ UNCHANGED <<table, cert>>

Certify(c) ==
    /\ table[c] # "none"
    /\ cert[c] = "none"
    /\ cert' = [cert EXCEPT ![c] = "active"]
    /\ UNCHANGED <<table, chain>>

RevokeCertificate(c) ==
    /\ table[c] = "REVOKED"
    /\ cert[c] = "active"
    /\ cert' = [cert EXCEPT ![c] = "revoked"]
    /\ UNCHANGED <<table, chain>>

Next ==
    \E c \in Creds :
        \/ Issue(c) \/ Revoke(c)
        \/ Anchor(c) \/ AnchorRevocation(c)
        \/ Certify(c) \/ RevokeCertificate(c)

Spec == Init /\ [][Next]_vars
=============================================================================
