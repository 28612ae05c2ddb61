------------------------- MODULE CredentialContracts -------------------------
(***************************************************************************)
(* The three contracts that hold credentials on the chain, composed as     *)
(* they are deployed: CredentialTypeRegistry, and CredentialRegistry and   *)
(* CertificateSBT, which both ask it whether a type exists and whether it  *)
(* is revocable.                                                           *)
(*                                                                         *)
(* One action is one transaction that does not revert; one that reverts    *)
(* changes nothing.  A mapping of Solidity holds the zero value for every  *)
(* key nobody wrote, so the contracts recognise a record by a timestamp    *)
(* that is not 0 and a certificate by a token id that is not 0.            *)
(*                                                                         *)
(* Payload that is stored and never read (schemaHash, holderDidHash,       *)
(* reasonCode, the token's URI) is left out, and so are the events.        *)
(***************************************************************************)
EXTENDS Naturals, FiniteSets

CONSTANTS
    Ids,            \* keccak256 of credential ids
    TypeIds,        \* keccak256 of type ids
    DocumentHashes, \* credentialHash
    Addresses,      \* accounts
    Issuers,        \* the accounts that occur as issuer
    Admin,          \* the owner of the three contracts: none can be transferred
    ZeroHash,       \* bytes32(0)
    ZeroAddress,    \* address(0)
    MaxUint,        \* type(uint256).max
    MaxTime         \* the last block timestamp considered

ASSUME ContractsAssumption ==
    /\ IsFiniteSet(Ids)
    /\ ZeroHash \notin Ids \cup TypeIds \cup DocumentHashes
    /\ ZeroAddress \notin Addresses
    /\ Issuers \subseteq Addresses
    /\ Admin \in Addresses
    /\ MaxUint \in Nat \ {0}
    /\ MaxTime \in Nat \ {0}

VARIABLES
    types,              \* CredentialTypeRegistry._types
    records,            \* CredentialRegistry._records
    certificates,       \* CertificateSBT._certificates
    owners,             \* CertificateSBT._owners
    balances,           \* CertificateSBT._balances
    tokenByCredential,  \* CertificateSBT._tokenByCredential
    nextTokenId,        \* CertificateSBT._nextTokenId
    now                 \* block.timestamp

sbtVars == <<certificates, owners, balances, tokenByCredential, nextTokenId>>
vars == <<types, records, sbtVars, now>>

IdKeys == Ids \cup {ZeroHash}
TypeKeys == TypeIds \cup {ZeroHash}
HashValues == DocumentHashes \cup {ZeroHash}
AddressValues == Addresses \cup {ZeroAddress}
TokenIds == 1..MaxUint
Times == 0..MaxTime

TypeRecord == [exists : BOOLEAN, revocable : BOOLEAN]
CredentialRecord == [credentialHash : HashValues, typeId : TypeKeys,
                     issuer : AddressValues, issuedAt : Times, revokedAt : Times]
Certificate == [credentialId : IdKeys, credentialHash : HashValues, typeId : TypeKeys,
                issuer : AddressValues, mintedAt : Times, revokedAt : Times]

NoType == [exists |-> FALSE, revocable |-> FALSE]
NoRecord == [credentialHash |-> ZeroHash, typeId |-> ZeroHash,
             issuer |-> ZeroAddress, issuedAt |-> 0, revokedAt |-> 0]
NoCertificate == [credentialId |-> ZeroHash, credentialHash |-> ZeroHash,
                  typeId |-> ZeroHash, issuer |-> ZeroAddress,
                  mintedAt |-> 0, revokedAt |-> 0]

TypeOK ==
    /\ types \in [TypeKeys -> TypeRecord]
    /\ records \in [IdKeys -> CredentialRecord]
    /\ certificates \in [TokenIds -> Certificate]
    /\ owners \in [TokenIds -> AddressValues]
    /\ balances \in [AddressValues -> Nat]
    /\ tokenByCredential \in [IdKeys -> 0..MaxUint]
    /\ nextTokenId \in TokenIds
    /\ now \in 1..MaxTime

Init ==
    /\ types = [t \in TypeKeys |-> NoType]
    /\ records = [c \in IdKeys |-> NoRecord]
    /\ certificates = [k \in TokenIds |-> NoCertificate]
    /\ owners = [k \in TokenIds |-> ZeroAddress]
    /\ balances = [a \in AddressValues |-> 0]
    /\ tokenByCredential = [c \in IdKeys |-> 0]
    /\ nextTokenId = 1
    /\ now = 1

----------------------------------------------------------------------------
\* CredentialTypeRegistry

\* Mutant: the check for TypeAlreadyRegistered is missing.
OverwriteType(sender, t, revocable) ==
    /\ sender = Admin
    /\ t # ZeroHash
    /\ types' = [types EXCEPT ![t] = [exists |-> TRUE, revocable |-> revocable]]
    /\ UNCHANGED <<records, sbtVars, now>>

registerCredentialType(sender, t, revocable) ==
    /\ sender = Admin
    /\ t # ZeroHash
    /\ ~types[t].exists
    /\ types' = [types EXCEPT ![t] = [exists |-> TRUE, revocable |-> revocable]]
    /\ UNCHANGED <<records, sbtVars, now>>

\* isRevocable reverts for a type that does not exist.
isRevocable(t) == types[t].exists /\ types[t].revocable
typeExists(t) == types[t].exists

----------------------------------------------------------------------------
\* CredentialRegistry

\* Mutant: the check for CredentialAlreadyRegistered is missing.
RegisterOver(sender, c, h, issuer, t) ==
    /\ sender = Admin
    /\ c # ZeroHash /\ h # ZeroHash /\ t # ZeroHash
    /\ issuer # ZeroAddress
    /\ typeExists(t)
    /\ records' = [records EXCEPT ![c] = [credentialHash |-> h, typeId |-> t,
                        issuer |-> issuer, issuedAt |-> now, revokedAt |-> 0]]
    /\ UNCHANGED <<types, sbtVars, now>>

registerCredential(sender, c, h, issuer, t) ==
    /\ sender = Admin
    /\ c # ZeroHash /\ h # ZeroHash /\ t # ZeroHash
    /\ issuer # ZeroAddress
    /\ typeExists(t)
    /\ records[c].issuedAt = 0
    /\ records' = [records EXCEPT ![c] = [credentialHash |-> h, typeId |-> t,
                        issuer |-> issuer, issuedAt |-> now, revokedAt |-> 0]]
    /\ UNCHANGED <<types, sbtVars, now>>

revokeCredential(sender, c) ==
    /\ sender = Admin
    /\ records[c].issuedAt # 0
    /\ records[c].revokedAt = 0
    /\ isRevocable(records[c].typeId)
    /\ records' = [records EXCEPT ![c].revokedAt = now]
    /\ UNCHANGED <<types, sbtVars, now>>

----------------------------------------------------------------------------
\* CertificateSBT

\* Mutant: the check for CredentialAlreadyMinted is missing.
MintAgain(sender, to, c, h, t, issuer) ==
    /\ sender = Admin
    /\ to # ZeroAddress /\ issuer # ZeroAddress
    /\ c # ZeroHash /\ h # ZeroHash /\ t # ZeroHash
    /\ typeExists(t)
    /\ nextTokenId < MaxUint
    /\ nextTokenId' = nextTokenId + 1
    /\ owners' = [owners EXCEPT ![nextTokenId] = to]
    /\ balances' = [balances EXCEPT ![to] = @ + 1]
    /\ tokenByCredential' = [tokenByCredential EXCEPT ![c] = nextTokenId]
    /\ certificates' = [certificates EXCEPT ![nextTokenId] =
            [credentialId |-> c, credentialHash |-> h, typeId |-> t,
             issuer |-> issuer, mintedAt |-> now, revokedAt |-> 0]]
    /\ UNCHANGED <<types, records, now>>

\* Mutant: the holder may be address(0).
MintToNobody(sender, to, c, h, t, issuer) ==
    /\ sender = Admin
    /\ issuer # ZeroAddress
    /\ c # ZeroHash /\ h # ZeroHash /\ t # ZeroHash
    /\ typeExists(t)
    /\ tokenByCredential[c] = 0
    /\ nextTokenId < MaxUint
    /\ nextTokenId' = nextTokenId + 1
    /\ owners' = [owners EXCEPT ![nextTokenId] = to]
    /\ balances' = [balances EXCEPT ![to] = @ + 1]
    /\ tokenByCredential' = [tokenByCredential EXCEPT ![c] = nextTokenId]
    /\ certificates' = [certificates EXCEPT ![nextTokenId] =
            [credentialId |-> c, credentialHash |-> h, typeId |-> t,
             issuer |-> issuer, mintedAt |-> now, revokedAt |-> 0]]
    /\ UNCHANGED <<types, records, now>>

\* _nextTokenId++ is checked arithmetic: it reverts at the maximum.
mintCertificate(sender, to, c, h, t, issuer) ==
    /\ sender = Admin
    /\ to # ZeroAddress /\ issuer # ZeroAddress
    /\ c # ZeroHash /\ h # ZeroHash /\ t # ZeroHash
    /\ typeExists(t)
    /\ tokenByCredential[c] = 0
    /\ nextTokenId < MaxUint
    /\ nextTokenId' = nextTokenId + 1
    /\ owners' = [owners EXCEPT ![nextTokenId] = to]
    /\ balances' = [balances EXCEPT ![to] = @ + 1]
    /\ tokenByCredential' = [tokenByCredential EXCEPT ![c] = nextTokenId]
    /\ certificates' = [certificates EXCEPT ![nextTokenId] =
            [credentialId |-> c, credentialHash |-> h, typeId |-> t,
             issuer |-> issuer, mintedAt |-> now, revokedAt |-> 0]]
    /\ UNCHANGED <<types, records, now>>

\* Mutant: a revoked certificate is burned.
RevokeBurns(sender, c) ==
    LET token == tokenByCredential[c] IN
    /\ sender = Admin
    /\ token # 0
    /\ certificates[token].revokedAt = 0
    /\ isRevocable(certificates[token].typeId)
    /\ certificates' = [certificates EXCEPT ![token].revokedAt = now]
    /\ owners' = [owners EXCEPT ![token] = ZeroAddress]
    /\ UNCHANGED <<types, records, balances, tokenByCredential, nextTokenId, now>>

revokeCertificate(sender, c) ==
    LET token == tokenByCredential[c] IN
    /\ sender = Admin
    /\ token # 0
    /\ certificates[token].revokedAt = 0
    /\ isRevocable(certificates[token].typeId)
    /\ certificates' = [certificates EXCEPT ![token].revokedAt = now]
    /\ UNCHANGED <<types, records, owners, balances, tokenByCredential, nextTokenId, now>>

----------------------------------------------------------------------------
NextBlock ==
    /\ now < MaxTime
    /\ now' = now + 1
    /\ UNCHANGED <<types, records, sbtVars>>

Next ==
    \/ NextBlock
    \/ \E sender \in Addresses :
        \/ \E t \in TypeKeys, r \in BOOLEAN : registerCredentialType(sender, t, r)
        \/ \E c \in IdKeys, h \in HashValues, t \in TypeKeys,
              i \in Issuers \cup {ZeroAddress} :
              \/ registerCredential(sender, c, h, i, t)
              \/ \E to \in AddressValues : mintCertificate(sender, to, c, h, t, i)
        \/ \E c \in IdKeys : revokeCredential(sender, c) \/ revokeCertificate(sender, c)

Spec == Init /\ [][Next]_vars

----------------------------------------------------------------------------
\* Properties

Minted == 1..(nextTokenId - 1)

\* Tokens and credentials correspond one to one: a token id below the counter
\* has an owner and a certificate, and the certificate's credential leads back
\* to that token; no other id has either.  ownerOf, tokenIdOf and
\* getCertificate can never disagree on what exists.
TokensAreCertificates ==
    /\ \A k \in Minted :
        /\ owners[k] \in Addresses
        /\ certificates[k].credentialId \in Ids
        /\ tokenByCredential[certificates[k].credentialId] = k
    /\ \A k \in TokenIds \ Minted :
        owners[k] = ZeroAddress /\ certificates[k] = NoCertificate
    /\ \A c \in IdKeys : tokenByCredential[c] # 0 =>
        /\ tokenByCredential[c] \in Minted
        /\ certificates[tokenByCredential[c]].credentialId = c

\* balanceOf agrees with ownerOf: an account's balance is the number of the
\* tokens it owns, revoked ones included.
BalancesCountTokens ==
    \A a \in Addresses : balances[a] = Cardinality({k \in TokenIds : owners[k] = a})

\* What is revoked was revocable: on both contracts a revocation stands only
\* for a type that CredentialTypeRegistry knows and calls revocable, although
\* that is a third contract's state, read once and long before.
RevokedOnlyIfRevocable ==
    /\ \A c \in IdKeys : records[c].revokedAt # 0 => isRevocable(records[c].typeId)
    /\ \A k \in TokenIds : certificates[k].revokedAt # 0 => isRevocable(certificates[k].typeId)

\* Existence is told by a timestamp: a record without issuedAt is blank in
\* every field, so nothing is revoked before it is issued, and an issued one
\* has an id, a document, an issuer and a known type.
ExistenceIsTheTimestamp ==
    \A c \in IdKeys :
        IF records[c].issuedAt = 0
        THEN records[c] = NoRecord
        ELSE /\ c \in Ids
             /\ records[c].credentialHash # ZeroHash
             /\ records[c].issuer # ZeroAddress
             /\ typeExists(records[c].typeId)
             /\ records[c].issuedAt <= now
             /\ records[c].revokedAt # 0 => records[c].issuedAt <= records[c].revokedAt

\* Nothing that is on the chain is ever rewritten: a type keeps its flag, a
\* record and a certificate change in nothing but the one revocation, a
\* token stays with the account it was minted to.
NothingIsRewritten ==
    [][/\ \A t \in TypeKeys : types[t].exists => types'[t] = types[t]
       /\ \A c \in IdKeys : records[c].issuedAt # 0 =>
            \/ records'[c] = records[c]
            \/ /\ records[c].revokedAt = 0
               /\ records'[c] = [records[c] EXCEPT !.revokedAt = now]
       /\ \A k \in Minted :
            /\ owners'[k] = owners[k]
            /\ \/ certificates'[k] = certificates[k]
               \/ /\ certificates[k].revokedAt = 0
                  /\ certificates'[k] = [certificates[k] EXCEPT !.revokedAt = now]]_vars

\* The chain of CredentialLifecycle is these contracts: seen through the
\* views the backend calls, a transaction is one of its four operations,
\* executed in a state in which it accepts that operation.
State(since, revoked) ==
    IF since = 0 THEN "none" ELSE IF revoked = 0 THEN "active" ELSE "revoked"
RegistryState == [c \in Ids |-> State(records[c].issuedAt, records[c].revokedAt)]
CertificateState ==
    [c \in Ids |-> IF tokenByCredential[c] = 0 THEN "none"
                   ELSE LET cert == certificates[tokenByCredential[c]]
                        IN State(cert.mintedAt, cert.revokedAt)]
TokenOfCredential == [c \in Ids |-> tokenByCredential[c]]

Chain == INSTANCE CredentialLifecycle
            WITH Creds <- Ids, DbRevocable <- {}, ChainTypes <- {},
                 ChainRevocable <- {}, OnChain <- TRUE, WithSBT <- TRUE,
                 Faults <- {}, row <- <<>>, mail <- <<>>, mempool <- {},
                 registry <- RegistryState, sbt <- CertificateState,
                 tokenOf <- TokenOfCredential

Enabling == [op \in Chain!Ops |-> CASE op = "registerCredential" -> "none"
                                    [] op = "mintCertificate" -> "none"
                                    [] OTHER -> "active"]
StateFor(op, c) == IF op \in {"registerCredential", "revokeCredential"}
                   THEN RegistryState[c] ELSE CertificateState[c]

ImplementsLifecycleChain ==
    [][\E op \in Chain!Ops, c \in Ids :
          StateFor(op, c) = Enabling[op] /\ Chain!Execute(op, c)
      ]_<<RegistryState, CertificateState, TokenOfCredential, nextTokenId>>

\* The inductive invariant: what the properties need of types and times.
CertificatesAreKnown ==
    \A k \in Minted :
        /\ typeExists(certificates[k].typeId)
        /\ certificates[k].mintedAt # 0

IInv ==
    /\ TypeOK
    /\ TokensAreCertificates
    /\ BalancesCountTokens
    /\ RevokedOnlyIfRevocable
    /\ ExistenceIsTheTimestamp
    /\ CertificatesAreKnown
=============================================================================
