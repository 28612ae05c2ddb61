---------------------- MODULE CredentialContractsProofs ----------------------
(***************************************************************************)
(* Theorems about CredentialContracts, for every set of credentials, types *)
(* and accounts, every token width and every block time.                   *)
(***************************************************************************)
EXTENDS CredentialContracts, FiniteSetTheorems, TLAPS

USE ContractsAssumption
USE DEF IdKeys, TypeKeys, HashValues, AddressValues, TokenIds, Times

----------------------------------------------------------------------------
\* The initial state.

LEMMA InitIInv == Init => IInv
  <1> SUFFICES ASSUME Init PROVE IInv
    OBVIOUS
  <1>1. TypeOK
    BY DEF Init, TypeOK, TypeRecord, CredentialRecord, Certificate, NoType,
           NoRecord, NoCertificate
  <1>2. TokensAreCertificates
    BY DEF Init, TokensAreCertificates, Minted
  <1>3. BalancesCountTokens
    <2> SUFFICES ASSUME NEW a \in Addresses
                 PROVE  balances[a] = Cardinality({k \in TokenIds : owners[k] = a})
      BY DEF BalancesCountTokens
    <2>1. {k \in TokenIds : owners[k] = a} = {}
      BY DEF Init
    <2>2. QED
      BY <2>1, FS_EmptySet DEF Init
  <1>4. RevokedOnlyIfRevocable
    BY DEF Init, RevokedOnlyIfRevocable, NoRecord, NoCertificate
  <1>5. ExistenceIsTheTimestamp
    BY DEF Init, ExistenceIsTheTimestamp, NoRecord
  <1>6. CertificatesAreKnown
    BY DEF Init, CertificatesAreKnown, Minted
  <1>7. QED
    BY <1>1, <1>2, <1>3, <1>4, <1>5, <1>6 DEF IInv

----------------------------------------------------------------------------
\* One lemma per transaction.  The parts of the invariant that read none of
\* the variables a transaction writes are kept because those are unchanged.

LEMMA BlockStep == IInv /\ NextBlock => IInv'
  <1> SUFFICES ASSUME IInv, NextBlock PROVE IInv'
    OBVIOUS
  <1> USE DEF NextBlock, sbtVars
  <1>1. TypeOK'
    BY DEF IInv, TypeOK
  <1>2. TokensAreCertificates' /\ CertificatesAreKnown'
    BY DEF IInv, TokensAreCertificates, CertificatesAreKnown, Minted, typeExists
  <1>3. BalancesCountTokens' /\ RevokedOnlyIfRevocable'
    BY DEF IInv, BalancesCountTokens, RevokedOnlyIfRevocable, isRevocable
  <1>4. ExistenceIsTheTimestamp'
    BY DEF IInv, TypeOK, CredentialRecord, ExistenceIsTheTimestamp, typeExists
  <1>5. QED
    BY <1>1, <1>2, <1>3, <1>4 DEF IInv

LEMMA TypeStep ==
    ASSUME IInv, NEW sender, NEW t \in TypeKeys, NEW r \in BOOLEAN,
           registerCredentialType(sender, t, r)
    PROVE  IInv'
  <1> USE DEF registerCredentialType, sbtVars
  <1>1. TypeOK'
    BY DEF IInv, TypeOK, TypeRecord
  <1>2. \A u \in TypeKeys : types[u].exists => types'[u] = types[u]
    BY DEF IInv, TypeOK
  <1>3. TokensAreCertificates' /\ BalancesCountTokens'
    BY DEF IInv, TokensAreCertificates, BalancesCountTokens, Minted
  <1>4. RevokedOnlyIfRevocable'
    BY <1>2 DEF IInv, TypeOK, CredentialRecord, Certificate,
                RevokedOnlyIfRevocable, isRevocable
  <1>5. ExistenceIsTheTimestamp'
    BY <1>2 DEF IInv, TypeOK, CredentialRecord, ExistenceIsTheTimestamp, typeExists
  <1>6. CertificatesAreKnown'
    BY <1>2 DEF IInv, TypeOK, Certificate, CertificatesAreKnown, Minted, typeExists
  <1>7. QED
    BY <1>1, <1>3, <1>4, <1>5, <1>6 DEF IInv

LEMMA RegisterStep ==
    ASSUME IInv, NEW sender, NEW c \in IdKeys, NEW h \in HashValues,
           NEW i \in AddressValues, NEW t \in TypeKeys,
           registerCredential(sender, c, h, i, t)
    PROVE  IInv'
  <1> USE DEF registerCredential, sbtVars
  <1> DEFINE new == [credentialHash |-> h, typeId |-> t, issuer |-> i,
                     issuedAt |-> now, revokedAt |-> 0]
  <1>1. new \in CredentialRecord /\ records' = [records EXCEPT ![c] = new]
    BY DEF IInv, TypeOK, CredentialRecord
  <1>2. TypeOK'
    BY <1>1 DEF IInv, TypeOK
  <1>3. TokensAreCertificates' /\ BalancesCountTokens' /\ CertificatesAreKnown'
    BY DEF IInv, TokensAreCertificates, BalancesCountTokens,
           CertificatesAreKnown, Minted, typeExists
  <1>4. \A d \in IdKeys : records'[d] = IF d = c THEN new ELSE records[d]
    BY <1>1 DEF IInv, TypeOK
  <1>5. RevokedOnlyIfRevocable'
    BY <1>4 DEF IInv, RevokedOnlyIfRevocable, isRevocable
  <1>6. ExistenceIsTheTimestamp'
    BY <1>4 DEF IInv, TypeOK, ExistenceIsTheTimestamp, typeExists
  <1>7. QED
    BY <1>2, <1>3, <1>5, <1>6 DEF IInv

LEMMA RevokeStep ==
    ASSUME IInv, NEW sender, NEW c \in IdKeys, revokeCredential(sender, c)
    PROVE  IInv'
  <1> USE DEF revokeCredential, sbtVars
  <1> DEFINE new == [records[c] EXCEPT !.revokedAt = now]
  <1>0. records[c] \in CredentialRecord /\ now \in Times
    BY DEF IInv, TypeOK
  <1>1. new \in CredentialRecord
    BY <1>0 DEF CredentialRecord
  <1>2. TypeOK'
    BY <1>1 DEF IInv, TypeOK
  <1>3. TokensAreCertificates' /\ BalancesCountTokens' /\ CertificatesAreKnown'
    BY DEF IInv, TokensAreCertificates, BalancesCountTokens,
           CertificatesAreKnown, Minted, typeExists
  <1>4. \A d \in IdKeys : records'[d] = IF d = c THEN new ELSE records[d]
    BY <1>1 DEF IInv, TypeOK
  <1>5. /\ new.revokedAt = now /\ new.issuedAt = records[c].issuedAt
        /\ new.typeId = records[c].typeId /\ new.issuer = records[c].issuer
        /\ new.credentialHash = records[c].credentialHash
    BY DEF IInv, TypeOK, CredentialRecord
  <1>6. RevokedOnlyIfRevocable'
    BY <1>4, <1>5 DEF IInv, RevokedOnlyIfRevocable, isRevocable
  <1>7. ExistenceIsTheTimestamp'
    BY <1>4, <1>5 DEF IInv, TypeOK, CredentialRecord,
                      ExistenceIsTheTimestamp, typeExists
  <1>8. QED
    BY <1>2, <1>3, <1>6, <1>7 DEF IInv

LEMMA MintStep ==
    ASSUME IInv, NEW sender, NEW to \in AddressValues, NEW c \in IdKeys,
           NEW h \in HashValues, NEW t \in TypeKeys, NEW i \in AddressValues,
           mintCertificate(sender, to, c, h, t, i)
    PROVE  IInv'
  <1> USE DEF mintCertificate, sbtVars
  <1> DEFINE new == [credentialId |-> c, credentialHash |-> h, typeId |-> t,
                     issuer |-> i, mintedAt |-> now, revokedAt |-> 0]
             token == nextTokenId
  <1>1. new \in Certificate
    BY DEF IInv, TypeOK, Certificate
  <1>2. /\ certificates' = [certificates EXCEPT ![token] = new]
        /\ nextTokenId' = token + 1 /\ token \in TokenIds /\ token + 1 \in TokenIds
    BY DEF IInv, TypeOK
  <1>3. TypeOK'
    BY <1>1, <1>2 DEF IInv, TypeOK
  <1>4. /\ \A k \in TokenIds : certificates'[k] = IF k = token THEN new ELSE certificates[k]
        /\ \A k \in TokenIds : owners'[k] = IF k = token THEN to ELSE owners[k]
        /\ \A d \in IdKeys : tokenByCredential'[d]
                               = IF d = c THEN token ELSE tokenByCredential[d]
    BY <1>2 DEF IInv, TypeOK
  <1>5. \A k : k \in Minted' <=> k \in Minted \/ k = token
    BY <1>2 DEF Minted, IInv, TypeOK
  <1>6. token \notin Minted /\ owners[token] = ZeroAddress
    BY <1>2 DEF Minted, IInv, TypeOK, TokensAreCertificates
  <1>7. Minted \subseteq TokenIds
    BY DEF Minted, IInv, TypeOK
  <1>8. TokensAreCertificates'
    <2>1. ASSUME NEW k \in Minted'
          PROVE  /\ owners'[k] \in Addresses
                 /\ certificates'[k].credentialId \in Ids
                 /\ tokenByCredential'[certificates'[k].credentialId] = k
      <3>1. CASE k = token
        <4>1. owners'[k] = to /\ certificates'[k] = new
          BY <3>1, <1>2, <1>4
        <4>2. tokenByCredential'[c] = token
          BY <1>4
        <4>3. QED
          BY <3>1, <4>1, <4>2
      <3>2. CASE k # token
        <4>1. k \in Minted /\ k \in TokenIds
          BY <3>2, <2>1, <1>5, <1>7
        <4>2. owners'[k] = owners[k] /\ certificates'[k] = certificates[k]
          BY <3>2, <4>1, <1>4
        <4>3. /\ owners[k] \in Addresses
              /\ certificates[k].credentialId \in Ids
              /\ tokenByCredential[certificates[k].credentialId] = k
          BY <4>1 DEF IInv, TokensAreCertificates
        <4>4. certificates[k].credentialId # c
          BY <4>1, <4>3
        <4>5. QED
          BY <4>2, <4>3, <4>4, <1>4
      <3>3. QED
        BY <3>1, <3>2
    <2>2. ASSUME NEW k \in TokenIds \ Minted'
          PROVE  owners'[k] = ZeroAddress /\ certificates'[k] = NoCertificate
      BY <2>2, <1>4, <1>5 DEF IInv, TokensAreCertificates
    <2>3. ASSUME NEW d \in IdKeys, tokenByCredential'[d] # 0
          PROVE  /\ tokenByCredential'[d] \in Minted'
                 /\ certificates'[tokenByCredential'[d]].credentialId = d
      BY <2>3, <1>2, <1>4, <1>5, <1>6, <1>7 DEF IInv, TokensAreCertificates
    <2>4. QED
      BY <2>1, <2>2, <2>3 DEF TokensAreCertificates
  <1>9. BalancesCountTokens'
    <2> SUFFICES ASSUME NEW a \in Addresses
                 PROVE  balances'[a] = Cardinality({k \in TokenIds : owners'[k] = a})
      BY DEF BalancesCountTokens
    <2> DEFINE owned == {k \in TokenIds : owners[k] = a}
    <2>1. balances[a] = Cardinality(owned)
      BY DEF IInv, BalancesCountTokens
    <2>2. CASE to = a
      <3>1. {k \in TokenIds : owners'[k] = a} = owned \cup {token}
        BY <2>2, <1>2, <1>4
      <3>2. token \notin owned
        BY <1>6
      <3>3. IsFiniteSet(TokenIds)
        BY FS_Interval
      <3>4. IsFiniteSet(owned)
        <4>1. owned \in SUBSET TokenIds
          OBVIOUS
        <4>2. QED
          BY <3>3, <4>1, FS_Subset
      <3>5. Cardinality(owned \cup {token}) = Cardinality(owned) + 1
        BY <3>2, <3>4, FS_AddElement
      <3>6. balances'[a] = balances[a] + 1
        BY <2>2 DEF IInv, TypeOK
      <3>7. QED
        BY <3>1, <3>5, <3>6, <2>1
    <2>3. CASE to # a
      <3>1. {k \in TokenIds : owners'[k] = a} = owned
        BY <2>3, <1>4, <1>6
      <3>2. balances'[a] = balances[a]
        BY <2>3 DEF IInv, TypeOK
      <3>3. QED
        BY <3>1, <3>2, <2>1
    <2>4. QED
      BY <2>2, <2>3
  <1>10. RevokedOnlyIfRevocable'
    BY <1>4 DEF IInv, RevokedOnlyIfRevocable, isRevocable
  <1>11. ExistenceIsTheTimestamp'
    BY DEF IInv, ExistenceIsTheTimestamp, typeExists
  <1>12. CertificatesAreKnown'
    <2> SUFFICES ASSUME NEW k \in Minted'
                 PROVE  /\ typeExists(certificates'[k].typeId)
                        /\ certificates'[k].mintedAt # 0
      BY DEF CertificatesAreKnown, typeExists
    <2>1. CASE k = token
      <3>1. certificates'[k] = new
        BY <2>1, <1>2, <1>4
      <3>2. now # 0
        BY DEF IInv, TypeOK
      <3>3. QED
        BY <3>1, <3>2
    <2>2. CASE k # token
      <3>1. k \in Minted /\ certificates'[k] = certificates[k]
        BY <2>2, <1>4, <1>5, <1>7
      <3>2. QED
        BY <3>1 DEF IInv, CertificatesAreKnown
    <2>3. QED
      BY <2>1, <2>2
  <1>13. QED
    BY <1>3, <1>8, <1>9, <1>10, <1>11, <1>12 DEF IInv

LEMMA RevokeCertificateStep ==
    ASSUME IInv, NEW sender, NEW c \in IdKeys, revokeCertificate(sender, c)
    PROVE  IInv'
  <1> USE DEF revokeCertificate
  <1> DEFINE token == tokenByCredential[c]
             new == [certificates[token] EXCEPT !.revokedAt = now]
  <1>1. token \in Minted /\ token \in TokenIds
    BY DEF IInv, TypeOK, TokensAreCertificates
  <1>0. certificates[token] \in Certificate /\ now \in Times
    BY <1>1 DEF IInv, TypeOK
  <1>2. new \in Certificate
    BY <1>0 DEF Certificate
  <1>3. TypeOK'
    BY <1>1, <1>2 DEF IInv, TypeOK
  <1>4. \A k \in TokenIds : certificates'[k] = IF k = token THEN new ELSE certificates[k]
    BY <1>2 DEF IInv, TypeOK
  <1>5. /\ new.revokedAt = now /\ new.mintedAt = certificates[token].mintedAt
        /\ new.typeId = certificates[token].typeId
        /\ new.credentialId = certificates[token].credentialId
    BY <1>1 DEF IInv, TypeOK, Certificate
  <1>6. Minted' = Minted /\ Minted \subseteq TokenIds
    BY DEF Minted, IInv, TypeOK
  <1>7. TokensAreCertificates'
    BY <1>1, <1>4, <1>5, <1>6 DEF IInv, TokensAreCertificates
  <1>8. BalancesCountTokens' /\ ExistenceIsTheTimestamp'
    BY DEF IInv, BalancesCountTokens, ExistenceIsTheTimestamp, typeExists
  <1>9. RevokedOnlyIfRevocable'
    BY <1>4, <1>5 DEF IInv, RevokedOnlyIfRevocable, isRevocable
  <1>10. CertificatesAreKnown'
    BY <1>4, <1>5, <1>6 DEF IInv, CertificatesAreKnown, typeExists
  <1>11. QED
    BY <1>3, <1>7, <1>8, <1>9, <1>10 DEF IInv

LEMMA IInvStep == IInv /\ [Next]_vars => IInv'
  <1> SUFFICES ASSUME IInv, [Next]_vars PROVE IInv'
    OBVIOUS
  <1>1. CASE UNCHANGED vars
    <2> USE <1>1 DEF vars, sbtVars
    <2>1. TypeOK'
      BY DEF IInv, TypeOK
    <2>2. TokensAreCertificates' /\ CertificatesAreKnown'
      BY DEF IInv, TokensAreCertificates, CertificatesAreKnown, Minted, typeExists
    <2>3. BalancesCountTokens' /\ RevokedOnlyIfRevocable'
      BY DEF IInv, BalancesCountTokens, RevokedOnlyIfRevocable, isRevocable
    <2>4. ExistenceIsTheTimestamp'
      BY DEF IInv, ExistenceIsTheTimestamp, typeExists
    <2>5. QED
      BY <2>1, <2>2, <2>3, <2>4 DEF IInv
  <1>2. CASE NextBlock
    BY <1>2, BlockStep
  <1>3. ASSUME NEW sender \in Addresses, NEW t \in TypeKeys, NEW r \in BOOLEAN,
               registerCredentialType(sender, t, r)
        PROVE  IInv'
    BY <1>3, TypeStep
  <1>4. ASSUME NEW sender \in Addresses, NEW c \in IdKeys, NEW h \in HashValues,
               NEW t \in TypeKeys, NEW i \in Issuers \cup {ZeroAddress},
               registerCredential(sender, c, h, i, t)
        PROVE  IInv'
    BY <1>4, RegisterStep
  <1>5. ASSUME NEW sender \in Addresses, NEW c \in IdKeys, NEW h \in HashValues,
               NEW t \in TypeKeys, NEW i \in Issuers \cup {ZeroAddress},
               NEW to \in AddressValues, mintCertificate(sender, to, c, h, t, i)
        PROVE  IInv'
    BY <1>5, MintStep
  <1>6. ASSUME NEW sender \in Addresses, NEW c \in IdKeys,
               revokeCredential(sender, c) \/ revokeCertificate(sender, c)
        PROVE  IInv'
    BY <1>6, RevokeStep, RevokeCertificateStep
  <1>7. QED
    BY <1>1, <1>2, <1>3, <1>4, <1>5, <1>6 DEF Next

\* The contracts' invariant holds in every reachable state.
THEOREM ContractsInvariant == Spec => []IInv
  BY InitIInv, IInvStep, PTL DEF Spec

\* Every mapping of the three contracts keeps its type.
THEOREM TypeCorrectness == Spec => []TypeOK
  <1>1. IInv => TypeOK
    BY DEF IInv
  <1>2. QED
    BY <1>1, ContractsInvariant, PTL

\* Tokens and certificates correspond one to one, and ownerOf, tokenIdOf and
\* getCertificate agree on what exists.
THEOREM TokensCorrespond == Spec => []TokensAreCertificates
  <1>1. IInv => TokensAreCertificates
    BY DEF IInv
  <1>2. QED
    BY <1>1, ContractsInvariant, PTL

\* balanceOf counts the tokens of ownerOf.
THEOREM BalancesAreRight == Spec => []BalancesCountTokens
  <1>1. IInv => BalancesCountTokens
    BY DEF IInv
  <1>2. QED
    BY <1>1, ContractsInvariant, PTL

\* No credential and no certificate of a type that is not revocable is ever
\* revoked.
THEOREM RevocationNeedsRevocableType == Spec => []RevokedOnlyIfRevocable
  <1>1. IInv => RevokedOnlyIfRevocable
    BY DEF IInv
  <1>2. QED
    BY <1>1, ContractsInvariant, PTL

\* A record exists exactly when its issuedAt is not 0.
THEOREM TimestampsTellExistence == Spec => []ExistenceIsTheTimestamp
  <1>1. IInv => ExistenceIsTheTimestamp
    BY DEF IInv
  <1>2. QED
    BY <1>1, ContractsInvariant, PTL

----------------------------------------------------------------------------
\* Action properties.

\* What a transaction may change of types, records, certificates and owners.
LEMMA RewriteStep ==
    ASSUME IInv, Next
    PROVE  /\ \A t \in TypeKeys : types[t].exists => types'[t] = types[t]
           /\ \A c \in IdKeys : records[c].issuedAt # 0 =>
                \/ records'[c] = records[c]
                \/ /\ records[c].revokedAt = 0
                   /\ records'[c] = [records[c] EXCEPT !.revokedAt = now]
           /\ \A k \in Minted :
                /\ owners'[k] = owners[k]
                /\ \/ certificates'[k] = certificates[k]
                   \/ /\ certificates[k].revokedAt = 0
                      /\ certificates'[k] = [certificates[k] EXCEPT !.revokedAt = now]
  <1> DEFINE Types == \A t \in TypeKeys : types[t].exists => types'[t] = types[t]
             Records == \A c \in IdKeys : records[c].issuedAt # 0 =>
                \/ records'[c] = records[c]
                \/ /\ records[c].revokedAt = 0
                   /\ records'[c] = [records[c] EXCEPT !.revokedAt = now]
             Tokens == \A k \in Minted :
                /\ owners'[k] = owners[k]
                /\ \/ certificates'[k] = certificates[k]
                   \/ /\ certificates[k].revokedAt = 0
                      /\ certificates'[k] = [certificates[k] EXCEPT !.revokedAt = now]
  <1>0. /\ types \in [TypeKeys -> TypeRecord] /\ records \in [IdKeys -> CredentialRecord]
        /\ certificates \in [TokenIds -> Certificate]
        /\ owners \in [TokenIds -> AddressValues]
        /\ Minted \subseteq TokenIds /\ nextTokenId \notin Minted
    BY DEF IInv, TypeOK, Minted
  <1>1. CASE NextBlock
    BY <1>1 DEF NextBlock, sbtVars
  <1>2. ASSUME NEW sender, NEW t \in TypeKeys, NEW r \in BOOLEAN,
               registerCredentialType(sender, t, r)
        PROVE  Types /\ Records /\ Tokens
    BY <1>0, <1>2 DEF registerCredentialType, sbtVars
  <1>3. ASSUME NEW sender, NEW c \in IdKeys, NEW h, NEW i, NEW t,
               registerCredential(sender, c, h, i, t)
        PROVE  Types /\ Records /\ Tokens
    BY <1>0, <1>3 DEF registerCredential, sbtVars
  <1>4. ASSUME NEW sender, NEW to, NEW c \in IdKeys, NEW h, NEW t, NEW i,
               mintCertificate(sender, to, c, h, t, i)
        PROVE  Types /\ Records /\ Tokens
    <2>1. Types /\ Records
      BY <1>4 DEF mintCertificate
    <2>2. Tokens
      BY <1>0, <1>4 DEF mintCertificate
    <2>3. QED
      BY <2>1, <2>2
  <1>5. ASSUME NEW sender, NEW c \in IdKeys, revokeCredential(sender, c)
        PROVE  Types /\ Records /\ Tokens
    BY <1>0, <1>5 DEF revokeCredential, sbtVars
  <1>6. ASSUME NEW sender, NEW c \in IdKeys, revokeCertificate(sender, c)
        PROVE  Types /\ Records /\ Tokens
    BY <1>0, <1>6 DEF revokeCertificate
  <1>7. Types /\ Records /\ Tokens
    BY <1>1, <1>2, <1>3, <1>4, <1>5, <1>6 DEF Next
  <1>8. QED
    BY <1>7

\* Nothing on the chain is rewritten: only a revocation is ever added.
THEOREM ChainIsAppendOnly == Spec => NothingIsRewritten
  <1>1. IInv /\ [Next]_vars =>
          [/\ \A t \in TypeKeys : types[t].exists => types'[t] = types[t]
           /\ \A c \in IdKeys : records[c].issuedAt # 0 =>
                \/ records'[c] = records[c]
                \/ /\ records[c].revokedAt = 0
                   /\ records'[c] = [records[c] EXCEPT !.revokedAt = now]
           /\ \A k \in Minted :
                /\ owners'[k] = owners[k]
                /\ \/ certificates'[k] = certificates[k]
                   \/ /\ certificates[k].revokedAt = 0
                      /\ certificates'[k] = [certificates[k] EXCEPT !.revokedAt = now]]_vars
    BY RewriteStep
  <1>2. QED
    BY <1>1, ContractsInvariant, PTL DEF Spec, NothingIsRewritten

----------------------------------------------------------------------------
\* The contracts are the chain of CredentialLifecycle.

\* Each transaction is one operation of the lifecycle's chain, or none.
LEMMA ChainStep ==
    ASSUME IInv, Next
    PROVE  \/ \E op \in Chain!Ops, c \in Ids :
                StateFor(op, c) = Enabling[op] /\ Chain!Execute(op, c)
           \/ UNCHANGED <<RegistryState, CertificateState, TokenOfCredential, nextTokenId>>
  <1> DEFINE Views == <<RegistryState, CertificateState, TokenOfCredential, nextTokenId>>
             Operation == \E op \in Chain!Ops, c \in Ids :
                StateFor(op, c) = Enabling[op] /\ Chain!Execute(op, c)
  <1> USE DEF Chain!Ops
  <1>0. /\ records \in [IdKeys -> CredentialRecord]
        /\ certificates \in [TokenIds -> Certificate]
        /\ tokenByCredential \in [IdKeys -> 0..MaxUint]
        /\ now # 0 /\ nextTokenId \in TokenIds
    BY DEF IInv, TypeOK
  <1>1. CASE NextBlock
    BY <1>1 DEF NextBlock, sbtVars, RegistryState, CertificateState, TokenOfCredential
  <1>2. ASSUME NEW sender, NEW t \in TypeKeys, NEW r \in BOOLEAN,
               registerCredentialType(sender, t, r)
        PROVE  UNCHANGED Views
    BY <1>2 DEF registerCredentialType, sbtVars, RegistryState, CertificateState,
                TokenOfCredential
  <1>3. ASSUME NEW sender, NEW c \in IdKeys, NEW h, NEW i, NEW t,
               registerCredential(sender, c, h, i, t)
        PROVE  Operation
    <2>1. c \in Ids
      BY <1>3 DEF registerCredential
    <2>2. RegistryState[c] = "none"
      BY <1>3, <2>1 DEF registerCredential, RegistryState, State
    <2>3. \A d \in Ids : RegistryState'[d] = IF d = c THEN "active" ELSE RegistryState[d]
      BY <1>0, <1>3 DEF registerCredential, RegistryState, State
    <2>4. RegistryState' = [RegistryState EXCEPT ![c] = "active"]
      BY <2>3 DEF RegistryState
    <2>5. UNCHANGED <<CertificateState, TokenOfCredential, nextTokenId>>
      BY <1>3 DEF registerCredential, sbtVars, CertificateState, TokenOfCredential
    <2>6. Chain!Execute("registerCredential", c)
      BY <2>4, <2>5 DEF Chain!Execute
    <2>7. QED
      BY <2>1, <2>2, <2>6 DEF StateFor, Enabling
  <1>4. ASSUME NEW sender, NEW c \in IdKeys, revokeCredential(sender, c)
        PROVE  Operation
    <2>1. c \in Ids
      BY <1>4 DEF revokeCredential, IInv, ExistenceIsTheTimestamp
    <2>2. RegistryState[c] = "active"
      BY <1>4, <2>1 DEF revokeCredential, RegistryState, State
    <2>3. \A d \in Ids : RegistryState'[d] = IF d = c THEN "revoked" ELSE RegistryState[d]
      <3>1. \A d \in Ids : d # c => records'[d] = records[d]
        BY <1>0, <1>4 DEF revokeCredential
      <3>2. records'[c] = [records[c] EXCEPT !.revokedAt = now]
        BY <1>0, <1>4 DEF revokeCredential
      <3>3. records'[c].issuedAt = records[c].issuedAt /\ records'[c].revokedAt = now
        BY <1>0, <3>2 DEF CredentialRecord
      <3>4. QED
        BY <1>0, <1>4, <2>1, <3>1, <3>3 DEF revokeCredential, RegistryState, State
    <2>4. RegistryState' = [RegistryState EXCEPT ![c] = "revoked"]
      BY <2>3 DEF RegistryState
    <2>5. UNCHANGED <<CertificateState, TokenOfCredential, nextTokenId>>
      BY <1>4 DEF revokeCredential, sbtVars, CertificateState, TokenOfCredential
    <2>6. Chain!Execute("revokeCredential", c)
      BY <2>4, <2>5 DEF Chain!Execute
    <2>7. QED
      BY <2>1, <2>2, <2>6 DEF StateFor, Enabling
  <1>5. ASSUME NEW sender, NEW to, NEW c \in IdKeys, NEW h, NEW t, NEW i,
               mintCertificate(sender, to, c, h, t, i)
        PROVE  Operation
    <2>1. c \in Ids
      BY <1>5 DEF mintCertificate
    <2>2. CertificateState[c] = "none"
      BY <1>5, <2>1 DEF mintCertificate, CertificateState
    <2>3. TokenOfCredential' = [TokenOfCredential EXCEPT ![c] = nextTokenId]
      BY <1>0, <1>5, <2>1 DEF mintCertificate, TokenOfCredential
    <2>4. \A d \in Ids : CertificateState'[d] = IF d = c THEN "active" ELSE CertificateState[d]
      <3>1. ASSUME NEW d \in Ids, d # c PROVE CertificateState'[d] = CertificateState[d]
        <4>1. tokenByCredential'[d] = tokenByCredential[d]
          BY <1>0, <1>5, <3>1 DEF mintCertificate
        <4>2. tokenByCredential[d] # 0 => tokenByCredential[d] \in Minted
          BY DEF IInv, TokensAreCertificates
        <4>3. tokenByCredential[d] # nextTokenId
          BY <1>0, <4>2 DEF Minted
        <4>4. tokenByCredential[d] # 0 =>
                certificates'[tokenByCredential[d]] = certificates[tokenByCredential[d]]
          BY <1>0, <1>5, <4>3 DEF mintCertificate
        <4>5. QED
          BY <4>1, <4>4 DEF CertificateState
      <3>2. CertificateState'[c] = "active"
        <4>1. tokenByCredential'[c] = nextTokenId /\ nextTokenId # 0
          BY <1>0, <1>5 DEF mintCertificate
        <4>2. /\ certificates'[nextTokenId].mintedAt = now
              /\ certificates'[nextTokenId].revokedAt = 0
          BY <1>0, <1>5 DEF mintCertificate
        <4>3. QED
          BY <1>0, <2>1, <4>1, <4>2 DEF CertificateState, State
      <3>3. QED
        BY <3>1, <3>2
    <2>5. CertificateState' = [CertificateState EXCEPT ![c] = "active"]
      BY <2>4 DEF CertificateState
    <2>6. UNCHANGED RegistryState /\ nextTokenId' = nextTokenId + 1
      BY <1>5 DEF mintCertificate, RegistryState
    <2>7. Chain!Execute("mintCertificate", c)
      BY <2>3, <2>5, <2>6 DEF Chain!Execute
    <2>8. QED
      BY <2>1, <2>2, <2>7 DEF StateFor, Enabling
  <1>6. ASSUME NEW sender, NEW c \in IdKeys, revokeCertificate(sender, c)
        PROVE  Operation
    <2> DEFINE token == tokenByCredential[c]
    <2>1. /\ token \in Minted /\ token \in TokenIds
          /\ certificates[token].credentialId = c /\ c \in Ids
      BY <1>0, <1>6 DEF revokeCertificate, IInv, TokensAreCertificates
    <2>2. CertificateState[c] = "active"
      BY <1>6, <2>1 DEF revokeCertificate, CertificateState, State,
                        IInv, CertificatesAreKnown
    <2>3. /\ certificates'[token].mintedAt = certificates[token].mintedAt
          /\ certificates'[token].revokedAt = now
      <3>1. certificates'[token] = [certificates[token] EXCEPT !.revokedAt = now]
        BY <1>0, <1>6, <2>1 DEF revokeCertificate
      <3>2. certificates[token] \in Certificate
        BY <1>0, <2>1
      <3>3. QED
        BY <3>1, <3>2 DEF Certificate
    <2>4. \A d \in Ids : CertificateState'[d] = IF d = c THEN "revoked" ELSE CertificateState[d]
      <3>1. ASSUME NEW d \in Ids, d # c PROVE CertificateState'[d] = CertificateState[d]
        <4>1. tokenByCredential' = tokenByCredential
          BY <1>6 DEF revokeCertificate
        <4>2. tokenByCredential[d] # 0 =>
                certificates[tokenByCredential[d]].credentialId = d
          BY DEF IInv, TokensAreCertificates
        <4>3. tokenByCredential[d] # 0 => tokenByCredential[d] # token
          BY <2>1, <3>1, <4>2
        <4>4. tokenByCredential[d] # 0 =>
                certificates'[tokenByCredential[d]] = certificates[tokenByCredential[d]]
          BY <1>0, <1>6, <4>3 DEF revokeCertificate
        <4>5. QED
          BY <4>1, <4>4 DEF CertificateState
      <3>2. CertificateState'[c] = "revoked"
        <4>1. tokenByCredential'[c] = token /\ token # 0
          BY <1>6 DEF revokeCertificate
        <4>2. certificates[token].mintedAt # 0
          BY <2>1 DEF IInv, CertificatesAreKnown
        <4>3. QED
          BY <1>0, <2>1, <2>3, <4>1, <4>2 DEF CertificateState, State
      <3>3. QED
        BY <3>1, <3>2
    <2>5. CertificateState' = [CertificateState EXCEPT ![c] = "revoked"]
      BY <2>4 DEF CertificateState
    <2>6. UNCHANGED <<RegistryState, TokenOfCredential, nextTokenId>>
      BY <1>6 DEF revokeCertificate, RegistryState, TokenOfCredential
    <2>7. Chain!Execute("revokeCertificate", c)
      BY <2>5, <2>6 DEF Chain!Execute
    <2>8. QED
      BY <2>1, <2>2, <2>7 DEF StateFor, Enabling
  <1>7. QED
    BY <1>1, <1>2, <1>3, <1>4, <1>5, <1>6 DEF Next

\* Every transaction of the contracts is one that CredentialLifecycle allows
\* its chain: the chain modelled there is a sound abstraction of the contracts.
THEOREM ContractsImplementChain == Spec => ImplementsLifecycleChain
  <1>1. IInv /\ [Next]_vars =>
          [\E op \in Chain!Ops, c \in Ids :
              StateFor(op, c) = Enabling[op] /\ Chain!Execute(op, c)
          ]_<<RegistryState, CertificateState, TokenOfCredential, nextTokenId>>
    <2>1. UNCHANGED vars =>
            UNCHANGED <<RegistryState, CertificateState, TokenOfCredential, nextTokenId>>
      BY DEF vars, sbtVars, RegistryState, CertificateState, TokenOfCredential
    <2>2. QED
      BY <2>1, ChainStep
  <1>2. QED
    BY <1>1, ContractsInvariant, PTL DEF Spec, ImplementsLifecycleChain
=============================================================================
