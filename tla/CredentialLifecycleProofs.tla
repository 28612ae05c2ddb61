--------------------- MODULE CredentialLifecycleProofs ---------------------
(***************************************************************************)
(* Theorems about CredentialLifecycle, for every set of credentials, every *)
(* configuration and every set of faults.                                  *)
(***************************************************************************)
EXTENDS CredentialLifecycle, FiniteSetTheorems, TLAPS

USE DEF Created, Revoked, Events

----------------------------------------------------------------------------
\* Type correctness.

LEMMA InitTypeOK == Init => TypeOK
  BY DEF Init, TypeOK, MailTypeOK, Rows, NoRow, MailStates, ChainStates,
         Steps, CreatedSteps, RevokedSteps

\* A transaction that is executed leaves the chain variables well typed.
LEMMA ExecuteTyped ==
    ASSUME TypeOK, NEW op \in Ops, NEW c \in Creds, Execute(op, c)
    PROVE  /\ registry' \in [Creds -> ChainStates]
           /\ sbt' \in [Creds -> ChainStates]
           /\ tokenOf' \in [Creds -> Nat]
           /\ nextTokenId' \in Nat \ {0}
  BY DEF TypeOK, Execute, Ops, ChainStates

\* A send that fails leaves the chain alone and the mempool well typed.
LEMMA SendFailsTyped ==
    ASSUME TypeOK, NEW op \in Ops, NEW c \in Creds, SendFails(op, c)
    PROVE  UNCHANGED chainVars /\ mempool' \subseteq [op : Ops, cred : Creds]
  BY DEF TypeOK, SendFails

\* A message moves to a place of its own handler.
LEMMA MoveTyped ==
    ASSUME MailTypeOK, NEW e \in Events, NEW c \in Creds, NEW s \in MailStates,
           e = Created => s \notin RevokedSteps \ {"ack"},
           e = Revoked => s \notin CreatedSteps \ {"ack"},
           Move(e, c, s)
    PROVE  MailTypeOK'
  <1> DEFINE m == [mail[e] EXCEPT ![c] = s]
  <1>1. m \in [Creds -> MailStates]
    BY DEF MailTypeOK
  <1>2. mail' = [mail EXCEPT ![e] = m]
    BY DEF Move
  <1>3. mail' \in [Events -> [Creds -> MailStates]]
    BY <1>1, <1>2 DEF MailTypeOK
  <1>4. \A f \in Events, d \in Creds :
           mail'[f][d] = IF f = e /\ d = c THEN s ELSE mail[f][d]
    BY <1>2 DEF MailTypeOK
  <1>5. QED
    BY <1>3, <1>4 DEF MailTypeOK

LEMMA TypeOKStep == TypeOK /\ [Next]_vars => TypeOK'
  <1> SUFFICES ASSUME TypeOK, [Next]_vars PROVE TypeOK'
    OBVIOUS
  <1> USE DEF MailStates, Steps, CreatedSteps, RevokedSteps
  <1>1. ASSUME NEW c \in Creds, Issue(c) \/ Revoke(c) PROVE TypeOK'
    <2>1. row' \in [Creds -> Rows]
      BY <1>1 DEF Issue, Revoke, TypeOK, Rows
    <2>2. MailTypeOK'
      BY <1>1, MoveTyped DEF Issue, Revoke, TypeOK
    <2>3. QED
      BY <1>1, <2>1, <2>2 DEF Issue, Revoke, TypeOK, chainVars
  <1>2. ASSUME NEW e \in Events, NEW c \in Creds,
               Publish(e, c) \/ PublishFails(e, c) \/ Deliver(e, c)
               \/ Ack(e, c) \/ Requeue(e, c)
        PROVE TypeOK'
    <2>1. MailTypeOK'
      BY <1>2, MoveTyped DEF Publish, PublishFails, Deliver, Ack, Requeue,
                             FirstStep, TypeOK
    <2>2. QED
      BY <1>2, <2>1 DEF Publish, PublishFails, Deliver, Ack, Requeue,
                        TypeOK, chainVars
  <1>3. ASSUME NEW c \in Creds, HandleCreated(c) PROVE TypeOK'
    <2>1. CASE SkipRegister(c) \/ SaveAnchor(c) \/ SkipMint(c)
               \/ SyncMint(c) \/ SaveMint(c)
      <3>1. row' \in [Creds -> Rows]
        <4>1. CASE SkipRegister(c) \/ SkipMint(c)
          BY <4>1 DEF SkipRegister, SkipMint, TypeOK
        <4>2. CASE SaveAnchor(c)
          BY <4>2 DEF SaveAnchor, TypeOK, Rows
        <4>3. CASE SyncMint(c)
          BY <4>3 DEF SyncMint, TypeOK, Rows
        <4>4. CASE SaveMint(c)
          BY <4>4 DEF SaveMint, TypeOK, Rows
        <4>5. QED
          BY <2>1, <4>1, <4>2, <4>3, <4>4
      <3>2. MailTypeOK'
        BY <2>1, MoveTyped DEF SkipRegister, SaveAnchor, SkipMint, SyncMint,
                               SaveMint, TypeOK
      <3>3. QED
        BY <2>1, <3>1, <3>2 DEF SkipRegister, SaveAnchor, SkipMint, SyncMint,
                                SaveMint, TypeOK, chainVars
    <2>2. CASE Register(c)
      BY <2>2, MoveTyped, ExecuteTyped, SendFailsTyped
         DEF Register, Mined, TypeOK, chainVars, Ops
    <2>3. CASE Mint(c)
      BY <2>3, MoveTyped, ExecuteTyped, SendFailsTyped
         DEF Mint, Mined, TypeOK, chainVars, Ops
    <2>4. QED
      BY <1>3, <2>1, <2>2, <2>3 DEF HandleCreated
  <1>4. ASSUME NEW c \in Creds, HandleRevoked(c) PROVE TypeOK'
    <2>1. CASE SkipRevoke(c) \/ SaveRevoke(c) \/ SkipSbtRevoke(c)
               \/ SkipNotMinted(c) \/ SaveSbtRevoke(c)
      <3>1. row' \in [Creds -> Rows]
        <4>1. CASE SkipRevoke(c) \/ SkipSbtRevoke(c) \/ SkipNotMinted(c)
          BY <4>1 DEF SkipRevoke, SkipSbtRevoke, SkipNotMinted, TypeOK
        <4>2. CASE SaveRevoke(c)
          BY <4>2 DEF SaveRevoke, TypeOK, Rows
        <4>3. CASE SaveSbtRevoke(c)
          BY <4>3 DEF SaveSbtRevoke, TypeOK, Rows
        <4>4. QED
          BY <2>1, <4>1, <4>2, <4>3
      <3>2. MailTypeOK'
        BY <2>1, MoveTyped DEF SkipRevoke, SaveRevoke, SkipSbtRevoke,
                               SkipNotMinted, SaveSbtRevoke, TypeOK
      <3>3. QED
        BY <2>1, <3>1, <3>2 DEF SkipRevoke, SaveRevoke, SkipSbtRevoke,
                                SkipNotMinted, SaveSbtRevoke, TypeOK, chainVars
    <2>2. CASE RevokeOnRegistry(c)
      BY <2>2, MoveTyped, ExecuteTyped, SendFailsTyped
         DEF RevokeOnRegistry, Mined, TypeOK, chainVars, Ops
    <2>3. CASE RevokeSbt(c)
      BY <2>3, MoveTyped, ExecuteTyped, SendFailsTyped
         DEF RevokeSbt, Mined, TypeOK, chainVars, Ops
    <2>4. QED
      BY <1>4, <2>1, <2>2, <2>3 DEF HandleRevoked
  <1>5. CASE MineLate
    <2>1. PICK tx \in mempool :
             /\ mempool' = mempool \ {tx}
             /\ IF Accepted(tx.op, tx.cred) THEN Execute(tx.op, tx.cred)
                                            ELSE UNCHANGED chainVars
             /\ UNCHANGED <<row, mail>>
      BY <1>5 DEF MineLate
    <2>2. tx.op \in Ops /\ tx.cred \in Creds
      BY DEF TypeOK
    <2>3. QED
      BY <2>1, <2>2, ExecuteTyped DEF TypeOK, MailTypeOK, chainVars
  <1>6. CASE Crash
    BY <1>6 DEF Crash, TypeOK, MailTypeOK, chainVars
  <1>7. CASE UNCHANGED vars
    BY <1>7 DEF TypeOK, MailTypeOK, vars
  <1>8. QED
    BY <1>1, <1>2, <1>3, <1>4, <1>5, <1>6, <1>7 DEF Next

\* The table, the messages, the contracts and the mempool keep their types
\* in every run.
THEOREM TypeCorrectness == Spec => []TypeOK
  BY InitTypeOK, TypeOKStep, PTL DEF Spec

----------------------------------------------------------------------------
\* The inductive invariant, part by part.

\* How a step can change the table: statuses go forward, the columns of a row
\* change only in the steps that save an anchor.
StatusForward ==
    \A c \in Creds :
        /\ row[c].status = "REVOKED" => row'[c].status = "REVOKED"
        /\ row[c].status # "none" => row'[c].status # "none"

LEMMA StepStatusForward == TypeOK /\ [Next]_vars => StatusForward
  <1> SUFFICES ASSUME TypeOK, [Next]_vars PROVE StatusForward
    OBVIOUS
  <1> USE DEF StatusForward, TypeOK, Rows
  <1>1. ASSUME NEW c \in Creds, Issue(c) \/ Revoke(c) PROVE StatusForward
    BY <1>1 DEF Issue, Revoke
  <1>2. ASSUME NEW c \in Creds, SaveAnchor(c) PROVE StatusForward
    BY <1>2 DEF SaveAnchor
  <1>3. ASSUME NEW c \in Creds, SyncMint(c) PROVE StatusForward
    BY <1>3 DEF SyncMint
  <1>4. ASSUME NEW c \in Creds, SaveMint(c) PROVE StatusForward
    BY <1>4 DEF SaveMint
  <1>5. ASSUME NEW c \in Creds, SaveRevoke(c) PROVE StatusForward
    BY <1>5 DEF SaveRevoke
  <1>6. ASSUME NEW c \in Creds, SaveSbtRevoke(c) PROVE StatusForward
    BY <1>6 DEF SaveSbtRevoke
  <1>7. CASE UNCHANGED row
    BY <1>7
  <1>8. QED
    BY <1>1, <1>2, <1>3, <1>4, <1>5, <1>6, <1>7
       DEF Next, HandleCreated, HandleRevoked, Publish, PublishFails, Deliver,
           Ack, Requeue, MineLate, Crash, SkipRegister, Register, SkipMint,
           Mint, SkipRevoke, RevokeOnRegistry, SkipSbtRevoke, SkipNotMinted,
           RevokeSbt, vars

\* Moving a message changes the place of that message only.
LEMMA MoveEffect ==
    ASSUME MailTypeOK, NEW e \in Events, NEW c \in Creds, NEW s, Move(e, c, s)
    PROVE  \A f \in Events, d \in Creds :
              mail'[f][d] = IF f = e /\ d = c THEN s ELSE mail[f][d]
  <1> DEFINE m == [mail[e] EXCEPT ![c] = s]
  <1>1. mail' = [mail EXCEPT ![e] = m]
    BY DEF Move
  <1>2. QED
    BY <1>1 DEF MailTypeOK

\* Only Issue and Revoke send a first message; every other step moves one
\* that is there already.
LEMMA MailImpliesStatusStep ==
    TypeOK /\ MailImpliesStatus /\ [Next]_vars => MailImpliesStatus'
  <1> SUFFICES ASSUME TypeOK, MailImpliesStatus, [Next]_vars
               PROVE  MailImpliesStatus'
    OBVIOUS
  <1>0. MailTypeOK
    BY DEF TypeOK
  <1>1. ASSUME NEW c \in Creds, Issue(c) \/ Revoke(c) PROVE MailImpliesStatus'
    BY <1>0, <1>1, MoveEffect DEF Issue, Revoke, MailImpliesStatus, TypeOK, Rows
  <1>2. ASSUME NEW e \in Events, NEW c \in Creds, NEW s, s # "none",
               mail[e][c] # "none", Move(e, c, s),
               \A d \in Creds : row'[d].status = row[d].status
        PROVE MailImpliesStatus'
    BY <1>0, <1>2, MoveEffect DEF MailImpliesStatus
  <1>3. ASSUME NEW e \in Events, NEW c \in Creds,
               Publish(e, c) \/ PublishFails(e, c) \/ Deliver(e, c)
               \/ Ack(e, c) \/ Requeue(e, c)
        PROVE MailImpliesStatus'
    BY <1>2, <1>3 DEF Publish, PublishFails, Deliver, Ack, Requeue, FirstStep,
                      Steps, CreatedSteps, RevokedSteps
  <1>4. ASSUME NEW c \in Creds, HandleCreated(c) PROVE MailImpliesStatus'
    <2>1. \A d \in Creds : row'[d].status = row[d].status
      <3>1. CASE SaveAnchor(c)
        BY <3>1 DEF SaveAnchor, TypeOK, Rows
      <3>2. CASE SyncMint(c)
        BY <3>2 DEF SyncMint, TypeOK, Rows
      <3>3. CASE SaveMint(c)
        BY <3>3 DEF SaveMint, TypeOK, Rows
      <3>4. QED
        BY <1>4, <3>1, <3>2, <3>3
           DEF HandleCreated, SkipRegister, Register, SkipMint, Mint
    <2>2. mail[Created][c] # "none" /\ \E s : s # "none" /\ Move(Created, c, s)
      BY <1>4 DEF HandleCreated, SkipRegister, Register, SaveAnchor, SkipMint,
                  SyncMint, Mint, SaveMint
    <2>3. QED
      BY <1>2, <2>1, <2>2
  <1>5. ASSUME NEW c \in Creds, HandleRevoked(c) PROVE MailImpliesStatus'
    <2>1. \A d \in Creds : row'[d].status = row[d].status
      <3>1. CASE SaveRevoke(c)
        BY <3>1 DEF SaveRevoke, TypeOK, Rows
      <3>2. CASE SaveSbtRevoke(c)
        BY <3>2 DEF SaveSbtRevoke, TypeOK, Rows
      <3>3. QED
        BY <1>5, <3>1, <3>2 DEF HandleRevoked, SkipRevoke, RevokeOnRegistry,
                                SkipSbtRevoke, SkipNotMinted, RevokeSbt
    <2>2. mail[Revoked][c] # "none" /\ \E s : s # "none" /\ Move(Revoked, c, s)
      BY <1>5 DEF HandleRevoked, SkipRevoke, RevokeOnRegistry, SaveRevoke,
                  SkipSbtRevoke, SkipNotMinted, RevokeSbt, SaveSbtRevoke
    <2>3. QED
      BY <1>2, <2>1, <2>2
  <1>6. CASE MineLate \/ UNCHANGED vars
    BY <1>6 DEF MineLate, MailImpliesStatus, vars
  <1>7. CASE Crash
    BY <1>7 DEF Crash, MailImpliesStatus, TypeOK, MailTypeOK, Steps,
                CreatedSteps, RevokedSteps
  <1>8. QED
    BY <1>1, <1>3, <1>4, <1>5, <1>6, <1>7 DEF Next

\* Who may change the contracts: a transaction for a credential that is in
\* the table, and a revoking one only for a credential revoked there.
Authorized(op, c) ==
    /\ row[c].status # "none"
    /\ op \in {"revokeCredential", "revokeCertificate"} => row[c].status = "REVOKED"

ChainStep ==
    \/ UNCHANGED chainVars
    \/ /\ UNCHANGED row
       /\ \E op \in Ops, c \in Creds :
             Accepted(op, c) /\ Execute(op, c) /\ Authorized(op, c)

LEMMA StepIsChainStep ==
    TypeOK /\ MailImpliesStatus /\ MempoolImpliesStatus /\ [Next]_vars => ChainStep
  <1> SUFFICES ASSUME TypeOK, MailImpliesStatus, MempoolImpliesStatus, [Next]_vars
               PROVE  ChainStep
    OBVIOUS
  <1> USE DEF ChainStep, Ops
  <1>1. ASSUME NEW c \in Creds, Register(c) PROVE ChainStep
    BY <1>1 DEF Register, Mined, SendFails, Authorized, MailImpliesStatus
  <1>2. ASSUME NEW c \in Creds, Mint(c) PROVE ChainStep
    BY <1>2 DEF Mint, Mined, SendFails, Authorized, MailImpliesStatus
  <1>3. ASSUME NEW c \in Creds, RevokeOnRegistry(c) PROVE ChainStep
    BY <1>3 DEF RevokeOnRegistry, Mined, SendFails, Authorized, MailImpliesStatus
  <1>4. ASSUME NEW c \in Creds, RevokeSbt(c) PROVE ChainStep
    BY <1>4 DEF RevokeSbt, Mined, SendFails, Authorized, MailImpliesStatus
  <1>5. CASE MineLate
    BY <1>5 DEF MineLate, Authorized, MempoolImpliesStatus, TypeOK
  <1>6. CASE UNCHANGED chainVars
    BY <1>6
  <1>7. QED
    BY <1>1, <1>2, <1>3, <1>4, <1>5, <1>6
       DEF Next, HandleCreated, HandleRevoked, Issue, Revoke, Publish,
           PublishFails, Deliver, Ack, Requeue, Crash, SkipRegister,
           SaveAnchor, SkipMint, SyncMint, SaveMint, SkipRevoke, SaveRevoke,
           SkipSbtRevoke, SkipNotMinted, SaveSbtRevoke, vars, chainVars

\* The contracts only move forward, and a token once given stays.
ChainForward ==
    \A c \in Creds :
        /\ registry[c] = "revoked" => registry'[c] = "revoked"
        /\ registry[c] # "none" => registry'[c] # "none"
        /\ sbt[c] = "revoked" => sbt'[c] = "revoked"
        /\ sbt[c] # "none" => sbt'[c] # "none"
        /\ sbt[c] # "none" => tokenOf'[c] = tokenOf[c]

LEMMA ChainStepForward == TypeOK /\ ChainStep => ChainForward
  BY DEF TypeOK, ChainStep, ChainForward, chainVars, Ops, Accepted, Execute,
         ChainStates

LEMMA MempoolImpliesStatusStep ==
    TypeOK /\ MailImpliesStatus /\ MempoolImpliesStatus /\ [Next]_vars
        => MempoolImpliesStatus'
  <1> SUFFICES ASSUME TypeOK, MailImpliesStatus, MempoolImpliesStatus, [Next]_vars
               PROVE  MempoolImpliesStatus'
    OBVIOUS
  <1>1. StatusForward
    BY StepStatusForward
  <1>2. ASSUME mempool' \subseteq mempool PROVE MempoolImpliesStatus'
    BY <1>1, <1>2 DEF MempoolImpliesStatus, StatusForward, TypeOK
  <1>3. ASSUME NEW op \in Ops, NEW c \in Creds, SendFails(op, c), Authorized(op, c)
        PROVE MempoolImpliesStatus'
    BY <1>1, <1>2, <1>3 DEF SendFails, Authorized, MempoolImpliesStatus, StatusForward
  <1>4. ASSUME NEW c \in Creds, Register(c) PROVE MempoolImpliesStatus'
    BY <1>2, <1>3, <1>4 DEF Register, Mined, Authorized, MailImpliesStatus, Ops
  <1>5. ASSUME NEW c \in Creds, Mint(c) PROVE MempoolImpliesStatus'
    BY <1>2, <1>3, <1>5 DEF Mint, Mined, Authorized, MailImpliesStatus, Ops
  <1>6. ASSUME NEW c \in Creds, RevokeOnRegistry(c) PROVE MempoolImpliesStatus'
    BY <1>2, <1>3, <1>6 DEF RevokeOnRegistry, Mined, Authorized, MailImpliesStatus, Ops
  <1>7. ASSUME NEW c \in Creds, RevokeSbt(c) PROVE MempoolImpliesStatus'
    BY <1>2, <1>3, <1>7 DEF RevokeSbt, Mined, Authorized, MailImpliesStatus, Ops
  <1>8. CASE MineLate
    BY <1>2, <1>8 DEF MineLate
  <1>9. CASE UNCHANGED mempool
    BY <1>2, <1>9
  <1>10. QED
    BY <1>4, <1>5, <1>6, <1>7, <1>8, <1>9
       DEF Next, HandleCreated, HandleRevoked, Issue, Revoke, Publish,
           PublishFails, Deliver, Ack, Requeue, Crash, SkipRegister,
           SaveAnchor, SkipMint, SyncMint, SaveMint, SkipRevoke, SaveRevoke,
           SkipSbtRevoke, SkipNotMinted, SaveSbtRevoke, vars

\* A revocation reaches the chain only through an authorized transaction.
LEMMA ChainRevocationStep ==
    TypeOK /\ StatusForward /\ ChainStep /\ ChainRevocationFollowsTable
        => ChainRevocationFollowsTable'
  <1> SUFFICES ASSUME TypeOK, StatusForward, ChainStep, ChainRevocationFollowsTable
               PROVE  ChainRevocationFollowsTable'
    OBVIOUS
  <1>1. CASE UNCHANGED chainVars
    BY <1>1 DEF chainVars, ChainRevocationFollowsTable, StatusForward
  <1>2. ASSUME UNCHANGED row, NEW op \in Ops, NEW c \in Creds,
               Execute(op, c), Authorized(op, c)
        PROVE ChainRevocationFollowsTable'
    BY <1>2 DEF Ops, Execute, Authorized, ChainRevocationFollowsTable, TypeOK
  <1>3. QED
    BY <1>1, <1>2 DEF ChainStep

\* A mint takes the next id for a credential that has none.
LEMMA TokensStep ==
    TypeOK /\ ChainStep /\ TokensMatchCertificates /\ OneTokenPerCredential
        => TokensMatchCertificates' /\ OneTokenPerCredential'
  <1> SUFFICES ASSUME TypeOK, ChainStep, TokensMatchCertificates,
                      OneTokenPerCredential
               PROVE  TokensMatchCertificates' /\ OneTokenPerCredential'
    OBVIOUS
  <1> DEFINE Holders == {c \in Creds : sbt[c] # "none"}
  <1>1. CASE UNCHANGED chainVars
    BY <1>1 DEF chainVars, TokensMatchCertificates, OneTokenPerCredential
  <1>2. ASSUME NEW op \in Ops, NEW c \in Creds, Accepted(op, c), Execute(op, c)
        PROVE TokensMatchCertificates' /\ OneTokenPerCredential'
    <2>1. CASE op = "mintCertificate"
      <3>1. sbt[c] = "none" /\ sbt' = [sbt EXCEPT ![c] = "active"]
            /\ tokenOf' = [tokenOf EXCEPT ![c] = nextTokenId]
            /\ nextTokenId' = nextTokenId + 1
        BY <1>2, <2>1 DEF Accepted, Execute
      <3>2. TokensMatchCertificates'
        BY <3>1 DEF TokensMatchCertificates, TypeOK
      <3>3. Holders' = Holders \cup {c} /\ c \notin Holders
        BY <3>1 DEF TypeOK
      <3>4. IsFiniteSet(Holders)
        BY ConstantsAssumption, FS_Subset, Holders \subseteq Creds
      <3>5. Cardinality(Holders') = Cardinality(Holders) + 1
        BY <3>3, <3>4, FS_AddElement
      <3>6. Cardinality(Holders) \in Nat
        BY <3>4, FS_CardinalityType
      <3>7. nextTokenId' = Cardinality(Holders') + 1
        BY <3>1, <3>5, <3>6 DEF OneTokenPerCredential
      <3>8. \A x, y \in Creds : tokenOf'[x] = tokenOf'[y] /\ tokenOf'[x] # 0 => x = y
        BY <3>1 DEF OneTokenPerCredential, TokensMatchCertificates, TypeOK
      <3>9. QED
        BY <3>2, <3>7, <3>8 DEF OneTokenPerCredential
    <2>2. CASE op # "mintCertificate"
      <3>1. UNCHANGED <<tokenOf, nextTokenId>>
        BY <1>2, <2>2 DEF Execute
      <3>2. \A x \in Creds : sbt'[x] # "none" <=> sbt[x] # "none"
        BY <1>2, <2>2 DEF Execute, Accepted, Ops, TypeOK
      <3>3. Holders' = Holders
        BY <3>2
      <3>4. QED
        BY <3>1, <3>2, <3>3 DEF TokensMatchCertificates, OneTokenPerCredential
    <2>3. QED
      BY <2>1, <2>2
  <1>3. QED
    BY <1>1, <1>2 DEF ChainStep

\* What the row stores is read off the chain after the chain has it.
LEMMA AnchorsStep ==
    TypeOK /\ StepImpliesChain /\ TokensMatchCertificates /\ AnchorsAreTruthful
    /\ ChainForward /\ [Next]_vars
        => AnchorsAreTruthful'
  <1> SUFFICES ASSUME TypeOK, StepImpliesChain, TokensMatchCertificates,
                      AnchorsAreTruthful, ChainForward, [Next]_vars
               PROVE  AnchorsAreTruthful'
    OBVIOUS
  <1>1. \A d \in Creds : row[d].sbtTokenId # 0 => sbt[d] # "none"
    BY DEF AnchorsAreTruthful, TokensMatchCertificates
  <1>2. ASSUME NEW c \in Creds, Issue(c) \/ Revoke(c) PROVE AnchorsAreTruthful'
    BY <1>2 DEF Issue, Revoke, AnchorsAreTruthful, TypeOK, Rows, chainVars
  <1>3. ASSUME NEW c \in Creds, SaveAnchor(c) PROVE AnchorsAreTruthful'
    BY <1>3 DEF SaveAnchor, StepImpliesChain, AnchorsAreTruthful, TypeOK, Rows, chainVars
  <1>4. ASSUME NEW c \in Creds, SyncMint(c) PROVE AnchorsAreTruthful'
    BY <1>4 DEF SyncMint, AnchorsAreTruthful, TypeOK, Rows, chainVars
  <1>5. ASSUME NEW c \in Creds, SaveMint(c) PROVE AnchorsAreTruthful'
    BY <1>5 DEF SaveMint, StepImpliesChain, TokensMatchCertificates,
                AnchorsAreTruthful, TypeOK, Rows, chainVars
  <1>6. ASSUME NEW c \in Creds, SaveRevoke(c) PROVE AnchorsAreTruthful'
    BY <1>6 DEF SaveRevoke, StepImpliesChain, AnchorsAreTruthful, TypeOK, Rows, chainVars
  <1>7. ASSUME NEW c \in Creds, SaveSbtRevoke(c) PROVE AnchorsAreTruthful'
    BY <1>7 DEF SaveSbtRevoke, StepImpliesChain, AnchorsAreTruthful, TypeOK, Rows, chainVars
  <1>8. CASE UNCHANGED row
    BY <1>1, <1>8 DEF ChainForward, AnchorsAreTruthful
  <1>9. QED
    BY <1>2, <1>3, <1>4, <1>5, <1>6, <1>7, <1>8
       DEF Next, HandleCreated, HandleRevoked, Publish, PublishFails, Deliver,
           Ack, Requeue, MineLate, Crash, SkipRegister, Register, SkipMint,
           Mint, SkipRevoke, RevokeOnRegistry, SkipSbtRevoke, SkipNotMinted,
           RevokeSbt, vars

\* A handler moves on only after the chain has what the next step takes for
\* granted.
LEMMA StepImpliesChainStep ==
    TypeOK /\ StepImpliesChain /\ AnchorsAreTruthful /\ TokensMatchCertificates
    /\ ChainForward /\ [Next]_vars
        => StepImpliesChain'
  <1> SUFFICES ASSUME TypeOK, StepImpliesChain, AnchorsAreTruthful,
                      TokensMatchCertificates, ChainForward, [Next]_vars
               PROVE  StepImpliesChain'
    OBVIOUS
  <1>0. MailTypeOK
    BY DEF TypeOK
  <1>2. ASSUME NEW e \in Events, NEW c \in Creds, NEW s, Move(e, c, s),
               e = Created =>
                 /\ s = "saveAnchor" => registry'[c] # "none"
                 /\ s = "saveMint" => sbt'[c] # "none"
                 /\ s \in {"mint", "saveMint", "ack", "done"} /\ OnChain
                       => registry'[c] # "none"
                 /\ s \in {"ack", "done"} /\ WithSBT => sbt'[c] # "none",
               e = Revoked =>
                 /\ s = "saveRevoke" => registry'[c] = "revoked"
                 /\ s = "saveSbtRevoke" => sbt'[c] = "revoked"
                 /\ s \in {"revokeSbt", "saveSbtRevoke", "ack", "done"} /\ OnChain
                       => registry'[c] = "revoked"
        PROVE StepImpliesChain'
    BY <1>0, <1>2, MoveEffect DEF StepImpliesChain, ChainForward
  <1>3. ASSUME NEW e \in Events, NEW c \in Creds, NEW s,
               s \in {"outbox", "lost", "queued", "register", "revoke"}, Move(e, c, s)
        PROVE StepImpliesChain'
    BY <1>2, <1>3
  <1>4. ASSUME NEW c \in Creds, Issue(c) \/ Revoke(c) PROVE StepImpliesChain'
    BY <1>3, <1>4 DEF Issue, Revoke
  <1>5. ASSUME NEW e \in Events, NEW c \in Creds,
               Publish(e, c) \/ PublishFails(e, c) \/ Deliver(e, c) \/ Requeue(e, c)
        PROVE StepImpliesChain'
    BY <1>3, <1>5 DEF Publish, PublishFails, Deliver, Requeue, FirstStep
  <1>6. ASSUME NEW e \in Events, NEW c \in Creds, Ack(e, c) PROVE StepImpliesChain'
    BY <1>2, <1>6 DEF Ack, StepImpliesChain, ChainForward
  <1>7. ASSUME NEW c \in Creds, HandleCreated(c) PROVE StepImpliesChain'
    <2>1. CASE SkipRegister(c)
      BY <1>2, <2>1 DEF SkipRegister, Registered, AnchorsAreTruthful, ChainForward
    <2>2. CASE Register(c)
      <3>1. CASE Mined("registerCredential", c) /\ Move(Created, c, "saveAnchor")
        <4>1. registry' = [registry EXCEPT ![c] = "active"]
          BY <3>1 DEF Mined, Execute
        <4>2. registry'[c] # "none"
          BY <4>1 DEF TypeOK
        <4>3. QED
          BY <1>2, <3>1, <4>2
      <3>2. QED
        BY <1>3, <2>2, <3>1 DEF Register
    <2>3. CASE SaveAnchor(c)
      BY <1>2, <2>3 DEF SaveAnchor, StepImpliesChain, ChainForward
    <2>4. CASE SkipMint(c)
      BY <1>2, <2>4 DEF SkipMint, StepImpliesChain, AnchorsAreTruthful,
                        TokensMatchCertificates, ChainForward
    <2>5. CASE SyncMint(c)
      BY <1>2, <2>5 DEF SyncMint, StepImpliesChain, ChainForward
    <2>6. CASE Mint(c)
      <3>1. CASE Mined("mintCertificate", c) /\ Move(Created, c, "saveMint")
        <4>1. sbt' = [sbt EXCEPT ![c] = "active"]
          BY <3>1 DEF Mined, Execute
        <4>2. sbt'[c] # "none"
          BY <4>1 DEF TypeOK
        <4>3. OnChain => registry'[c] # "none"
          BY <2>6 DEF Mint, StepImpliesChain, ChainForward
        <4>4. QED
          BY <1>2, <3>1, <4>2, <4>3
      <3>2. QED
        BY <1>3, <2>6, <3>1 DEF Mint
    <2>7. CASE SaveMint(c)
      BY <1>2, <2>7 DEF SaveMint, StepImpliesChain, ChainForward
    <2>8. QED
      BY <1>7, <2>1, <2>2, <2>3, <2>4, <2>5, <2>6, <2>7 DEF HandleCreated
  <1>8. ASSUME NEW c \in Creds, HandleRevoked(c) PROVE StepImpliesChain'
    <2>1. CASE SkipRevoke(c)
      BY <1>2, <2>1 DEF SkipRevoke, AnchorsAreTruthful, ChainForward
    <2>2. CASE RevokeOnRegistry(c)
      <3>1. CASE Mined("revokeCredential", c) /\ Move(Revoked, c, "saveRevoke")
        <4>1. registry' = [registry EXCEPT ![c] = "revoked"]
          BY <3>1 DEF Mined, Execute
        <4>2. registry'[c] = "revoked"
          BY <4>1 DEF TypeOK
        <4>3. QED
          BY <1>2, <3>1, <4>2
      <3>2. QED
        BY <1>3, <2>2, <3>1 DEF RevokeOnRegistry
    <2>3. CASE SaveRevoke(c)
      BY <1>2, <2>3 DEF SaveRevoke, StepImpliesChain, ChainForward
    <2>4. CASE SkipSbtRevoke(c) \/ SkipNotMinted(c)
      BY <1>2, <2>4 DEF SkipSbtRevoke, SkipNotMinted, StepImpliesChain, ChainForward
    <2>5. CASE RevokeSbt(c)
      <3>1. CASE Mined("revokeCertificate", c) /\ Move(Revoked, c, "saveSbtRevoke")
        <4>1. sbt' = [sbt EXCEPT ![c] = "revoked"]
          BY <3>1 DEF Mined, Execute
        <4>2. sbt'[c] = "revoked"
          BY <4>1 DEF TypeOK
        <4>3. OnChain => registry'[c] = "revoked"
          BY <2>5 DEF RevokeSbt, StepImpliesChain, ChainForward
        <4>4. QED
          BY <1>2, <3>1, <4>2, <4>3
      <3>2. QED
        BY <1>3, <2>5, <3>1 DEF RevokeSbt
    <2>6. CASE SaveSbtRevoke(c)
      BY <1>2, <2>6 DEF SaveSbtRevoke, StepImpliesChain, ChainForward
    <2>7. QED
      BY <1>8, <2>1, <2>2, <2>3, <2>4, <2>5, <2>6 DEF HandleRevoked
  <1>9. CASE MineLate \/ UNCHANGED vars
    BY <1>9 DEF MineLate, StepImpliesChain, ChainForward, vars
  <1>10. CASE Crash
    BY <1>10 DEF Crash, StepImpliesChain, ChainForward, TypeOK, MailTypeOK
  <1>11. QED
    BY <1>4, <1>5, <1>6, <1>7, <1>8, <1>9, <1>10 DEF Next

\* A handler comes to a step that stores a hash only past the check that its
\* column is empty, and no other step fills that column meanwhile.
LEMMA StoresIntoEmptyStep ==
    TypeOK /\ StoresIntoEmpty /\ [Next]_vars => StoresIntoEmpty'
  <1> SUFFICES ASSUME TypeOK, StoresIntoEmpty, [Next]_vars PROVE StoresIntoEmpty'
    OBVIOUS
  <1>0. MailTypeOK
    BY DEF TypeOK
  <1>1. ASSUME UNCHANGED row, NEW e \in Events, NEW c \in Creds, NEW s, Move(e, c, s),
               e = Created => /\ s = "saveAnchor" => ~row[c].txHash
                              /\ s = "saveMint" => ~row[c].sbtTxHash,
               e = Revoked => /\ s = "saveRevoke" => ~row[c].revokeTxHash
                              /\ s = "saveSbtRevoke" => ~row[c].sbtRevokeTxHash
        PROVE StoresIntoEmpty'
    BY <1>0, <1>1, MoveEffect DEF StoresIntoEmpty
  <1>2. ASSUME NEW e \in Events, NEW c \in Creds, Move(e, c, "outbox"),
               \A d \in Creds : /\ row'[d].txHash = row[d].txHash
                                /\ row'[d].sbtTxHash = row[d].sbtTxHash
                                /\ row'[d].revokeTxHash = row[d].revokeTxHash
                                /\ row'[d].sbtRevokeTxHash = row[d].sbtRevokeTxHash
        PROVE StoresIntoEmpty'
    BY <1>0, <1>2, MoveEffect DEF StoresIntoEmpty
  <1>3. ASSUME NEW e \in Events, NEW c \in Creds,
               Publish(e, c) \/ PublishFails(e, c) \/ Deliver(e, c)
               \/ Ack(e, c) \/ Requeue(e, c)
        PROVE StoresIntoEmpty'
    BY <1>1, <1>3 DEF Publish, PublishFails, Deliver, Ack, Requeue, FirstStep
  <1>4. ASSUME NEW c \in Creds, HandleCreated(c) PROVE StoresIntoEmpty'
    <2>1. CASE SkipRegister(c) \/ Register(c)
      BY <1>1, <2>1 DEF SkipRegister, Register, Registered
    <2>2. CASE SkipMint(c) \/ Mint(c)
      BY <1>1, <2>2 DEF SkipMint, Mint
    <2>3. CASE SaveAnchor(c)
      BY <1>0, <2>3, MoveEffect DEF SaveAnchor, StoresIntoEmpty, TypeOK, Rows
    <2>4. CASE SyncMint(c)
      BY <1>0, <2>4, MoveEffect DEF SyncMint, StoresIntoEmpty, TypeOK, Rows
    <2>5. CASE SaveMint(c)
      BY <1>0, <2>5, MoveEffect DEF SaveMint, StoresIntoEmpty, TypeOK, Rows
    <2>6. QED
      BY <1>4, <2>1, <2>2, <2>3, <2>4, <2>5 DEF HandleCreated
  <1>5. ASSUME NEW c \in Creds, HandleRevoked(c) PROVE StoresIntoEmpty'
    <2>1. CASE SkipRevoke(c) \/ RevokeOnRegistry(c)
      BY <1>1, <2>1 DEF SkipRevoke, RevokeOnRegistry
    <2>2. CASE SkipSbtRevoke(c) \/ SkipNotMinted(c) \/ RevokeSbt(c)
      BY <1>1, <2>2 DEF SkipSbtRevoke, SkipNotMinted, RevokeSbt
    <2>3. CASE SaveRevoke(c)
      BY <1>0, <2>3, MoveEffect DEF SaveRevoke, StoresIntoEmpty, TypeOK, Rows
    <2>4. CASE SaveSbtRevoke(c)
      BY <1>0, <2>4, MoveEffect DEF SaveSbtRevoke, StoresIntoEmpty, TypeOK, Rows
    <2>5. QED
      BY <1>5, <2>1, <2>2, <2>3, <2>4 DEF HandleRevoked
  <1>6. CASE MineLate \/ UNCHANGED vars
    BY <1>6 DEF MineLate, StoresIntoEmpty, vars
  <1>7. CASE Crash
    BY <1>7 DEF Crash, StoresIntoEmpty, TypeOK, MailTypeOK
  <1>8. ASSUME NEW c \in Creds, Issue(c) PROVE StoresIntoEmpty'
    BY <1>2, <1>8 DEF Issue, TypeOK, Rows
  <1>9. ASSUME NEW c \in Creds, Revoke(c) PROVE StoresIntoEmpty'
    BY <1>2, <1>9 DEF Revoke, TypeOK, Rows
  <1>10. QED
    BY <1>3, <1>4, <1>5, <1>6, <1>7, <1>8, <1>9 DEF Next

----------------------------------------------------------------------------
\* The invariant holds in every run.

LEMMA InitIInv == Init => IInv
  <1> SUFFICES ASSUME Init PROVE IInv
    OBVIOUS
  <1>1. TypeOK
    BY InitTypeOK
  <1>2. {c \in Creds : sbt[c] # "none"} = {}
    BY DEF Init
  <1>3. OneTokenPerCredential
    BY <1>2, FS_EmptySet DEF Init, OneTokenPerCredential
  <1>4. QED
    BY <1>1, <1>3 DEF Init, IInv, NoRow, MailImpliesStatus, MempoolImpliesStatus,
       StepImpliesChain, StoresIntoEmpty, TokensMatchCertificates,
       AnchorsAreTruthful, ChainRevocationFollowsTable

LEMMA IInvStep == IInv /\ [Next]_vars => IInv'
  <1> SUFFICES ASSUME IInv, [Next]_vars PROVE IInv'
    OBVIOUS
  <1>1. StatusForward
    BY StepStatusForward DEF IInv
  <1>2. ChainStep
    BY StepIsChainStep DEF IInv
  <1>3. ChainForward
    BY <1>2, ChainStepForward DEF IInv
  <1>4. TypeOK' /\ MailImpliesStatus' /\ MempoolImpliesStatus'
    BY TypeOKStep, MailImpliesStatusStep, MempoolImpliesStatusStep DEF IInv
  <1>5. StepImpliesChain' /\ AnchorsAreTruthful'
    BY <1>3, StepImpliesChainStep, AnchorsStep DEF IInv
  <1>8. StoresIntoEmpty'
    BY StoresIntoEmptyStep DEF IInv
  <1>6. ChainRevocationFollowsTable' /\ TokensMatchCertificates' /\ OneTokenPerCredential'
    BY <1>1, <1>2, ChainRevocationStep, TokensStep DEF IInv
  <1>7. QED
    BY <1>4, <1>5, <1>6, <1>8 DEF IInv

\* The inductive invariant: what is known of the chain and of the table at
\* every place of a message and for every transaction in the mempool.
THEOREM InductiveInvariant == Spec => []IInv
  BY InitIInv, IInvStep, PTL DEF Spec

\* The registry and the certificate are never revoked for a credential that
\* the table does not hold as revoked.
THEOREM RevocationSafety == Spec => []ChainRevocationFollowsTable
  <1>1. IInv => ChainRevocationFollowsTable
    BY DEF IInv
  <1>2. QED
    BY <1>1, InductiveInvariant, PTL

\* A stored anchor is never false: the row says of the chain what is so.
THEOREM AnchorSafety == Spec => []AnchorsAreTruthful
  <1>1. IInv => AnchorsAreTruthful
    BY DEF IInv
  <1>2. QED
    BY <1>1, InductiveInvariant, PTL

\* No redelivery, late transaction or crash mints a second token.
THEOREM TokenSafety == Spec => []OneTokenPerCredential
  <1>1. IInv => OneTokenPerCredential
    BY DEF IInv
  <1>2. QED
    BY <1>1, InductiveInvariant, PTL

\* An acknowledged issuance is on the registry and has its certificate.
THEOREM AckedIssueSafety == Spec => []AckedIssueIsAnchored
  <1>1. IInv => AckedIssueIsAnchored
    BY DEF IInv, StepImpliesChain, AckedIssueIsAnchored
  <1>2. QED
    BY <1>1, InductiveInvariant, PTL

\* An acknowledged revocation is on the registry.
THEOREM AckedRevokeSafety == Spec => []AckedRevokeIsOnRegistry
  <1>1. IInv => AckedRevokeIsOnRegistry
    BY DEF IInv, StepImpliesChain, AckedRevokeIsOnRegistry
  <1>2. QED
    BY <1>1, InductiveInvariant, PTL

\* A credential that should be on the registry and is not still has its
\* event, unless a fault lost it.
THEOREM PendingSafety == Spec => []IssueStaysPending
  <1>1. IInv => IssueStaysPending
    BY DEF IInv, StepImpliesChain, MailImpliesStatus, IssueStaysPending
  <1>2. QED
    BY <1>1, InductiveInvariant, PTL

----------------------------------------------------------------------------
\* Action properties.

\* A stored token id is the one the chain gave, so storing it again changes
\* nothing.
LEMMA TokenIdStays ==
    ASSUME IInv, [Next]_vars, NEW c \in Creds, row[c].sbtTokenId # 0
    PROVE  row'[c].sbtTokenId = row[c].sbtTokenId
  <1> USE DEF IInv, TypeOK, Rows
  <1>1. ASSUME NEW d \in Creds, Issue(d) \/ Revoke(d)
        PROVE row'[c].sbtTokenId = row[c].sbtTokenId
    BY <1>1 DEF Issue, Revoke
  <1>2. ASSUME NEW d \in Creds, SaveAnchor(d)
        PROVE row'[c].sbtTokenId = row[c].sbtTokenId
    BY <1>2 DEF SaveAnchor
  <1>3. ASSUME NEW d \in Creds, SyncMint(d)
        PROVE row'[c].sbtTokenId = row[c].sbtTokenId
    BY <1>3 DEF SyncMint, AnchorsAreTruthful
  <1>4. ASSUME NEW d \in Creds, SaveMint(d)
        PROVE row'[c].sbtTokenId = row[c].sbtTokenId
    BY <1>4 DEF SaveMint, AnchorsAreTruthful
  <1>5. ASSUME NEW d \in Creds, SaveRevoke(d)
        PROVE row'[c].sbtTokenId = row[c].sbtTokenId
    BY <1>5 DEF SaveRevoke
  <1>6. ASSUME NEW d \in Creds, SaveSbtRevoke(d)
        PROVE row'[c].sbtTokenId = row[c].sbtTokenId
    BY <1>6 DEF SaveSbtRevoke
  <1>7. QED
    BY <1>1, <1>2, <1>3, <1>4, <1>5, <1>6
       DEF Next, HandleCreated, HandleRevoked, Publish, PublishFails, Deliver,
           Ack, Requeue, MineLate, Crash, SkipRegister, Register, SkipMint,
           Mint, SkipRevoke, RevokeOnRegistry, SkipSbtRevoke, SkipNotMinted,
           RevokeSbt, vars

\* What a step leaves of the hashes of a row, and that it stores none over one.
HashesStay(c) ==
    /\ row[c].txHash => row'[c].txHash /\ mail[Created][c] # "saveAnchor"
    /\ row[c].sbtTxHash => row'[c].sbtTxHash /\ mail[Created][c] # "saveMint"
    /\ row[c].revokeTxHash => row'[c].revokeTxHash /\ mail[Revoked][c] # "saveRevoke"
    /\ row[c].sbtRevokeTxHash
          => row'[c].sbtRevokeTxHash /\ mail[Revoked][c] # "saveSbtRevoke"

LEMMA StepKeepsHashes ==
    ASSUME TypeOK, StoresIntoEmpty, [Next]_vars, NEW c \in Creds
    PROVE  HashesStay(c)
  <1> USE DEF StoresIntoEmpty, HashesStay, TypeOK, Rows
  <1>1. ASSUME NEW d \in Creds, Issue(d) \/ Revoke(d) PROVE HashesStay(c)
    BY <1>1 DEF Issue, Revoke
  <1>2. ASSUME NEW d \in Creds, SaveAnchor(d) PROVE HashesStay(c)
    BY <1>2 DEF SaveAnchor
  <1>3. ASSUME NEW d \in Creds, SyncMint(d) PROVE HashesStay(c)
    BY <1>3 DEF SyncMint
  <1>4. ASSUME NEW d \in Creds, SaveMint(d) PROVE HashesStay(c)
    BY <1>4 DEF SaveMint
  <1>5. ASSUME NEW d \in Creds, SaveRevoke(d) PROVE HashesStay(c)
    BY <1>5 DEF SaveRevoke
  <1>6. ASSUME NEW d \in Creds, SaveSbtRevoke(d) PROVE HashesStay(c)
    BY <1>6 DEF SaveSbtRevoke
  <1>7. CASE UNCHANGED row
    BY <1>7
  <1>8. QED
    BY <1>1, <1>2, <1>3, <1>4, <1>5, <1>6, <1>7
       DEF Next, HandleCreated, HandleRevoked, Publish, PublishFails, Deliver,
           Ack, Requeue, MineLate, Crash, SkipRegister, Register, SkipMint,
           Mint, SkipRevoke, RevokeOnRegistry, SkipSbtRevoke, SkipNotMinted,
           RevokeSbt, vars

\* Statuses only move forward, a stored token id never changes, and a stored
\* hash is neither cleared nor stored over.
THEOREM Monotonicity == Spec => NothingIsTakenBack
  <1> DEFINE A == \A c \in Creds :
                    /\ row[c].txHash => row'[c].txHash /\ mail[Created][c] # "saveAnchor"
                    /\ row[c].sbtTxHash => row'[c].sbtTxHash /\ mail[Created][c] # "saveMint"
                    /\ row[c].revokeTxHash
                          => row'[c].revokeTxHash /\ mail[Revoked][c] # "saveRevoke"
                    /\ row[c].sbtRevokeTxHash
                          => row'[c].sbtRevokeTxHash /\ mail[Revoked][c] # "saveSbtRevoke"
                    /\ registry[c] = "revoked" => registry'[c] = "revoked"
                    /\ registry[c] = "active" => registry'[c] # "none"
                    /\ sbt[c] = "revoked" => sbt'[c] = "revoked"
                    /\ sbt[c] = "active" => sbt'[c] # "none"
                    /\ row[c].status = "REVOKED" => row'[c].status = "REVOKED"
                    /\ row[c].sbtTokenId # 0
                          => row'[c].sbtTokenId = row[c].sbtTokenId
  <1>1. IInv /\ [Next]_vars => [A]_vars
    <2> SUFFICES ASSUME IInv, [Next]_vars PROVE A
      OBVIOUS
    <2>1. StatusForward /\ ChainForward
      BY StepStatusForward, StepIsChainStep, ChainStepForward DEF IInv
    <2>2. \A c \in Creds : HashesStay(c)
      BY StepKeepsHashes DEF IInv
    <2>3. QED
      BY <2>1, <2>2, TokenIdStays DEF StatusForward, ChainForward, HashesStay
  <1>2. QED
    BY <1>1, InductiveInvariant, PTL DEF Spec, NothingIsTakenBack

----------------------------------------------------------------------------
\* Refinement.

Table == [c \in Creds |-> row[c].status]

\* A chain step is a step of the promise, or a stutter.
LEMMA ChainStepRefines ==
    ASSUME TypeOK, NEW op \in Ops, NEW c \in Creds, UNCHANGED row,
           Accepted(op, c), Execute(op, c), Authorized(op, c)
    PROVE  Promise!Next
  <1> USE DEF TypeOK, Rows
  <1>1. UNCHANGED Table /\ Table[c] = row[c].status
    BY DEF Table
  <1>2. CASE op = "registerCredential"
    <2>1. Promise!Anchor(c)
      BY <1>1, <1>2 DEF Accepted, Execute, Authorized, Promise!Anchor, Table
    <2>2. QED
      BY <2>1 DEF Promise!Next
  <1>3. CASE op = "revokeCredential"
    <2>1. Promise!AnchorRevocation(c)
      BY <1>1, <1>3 DEF Accepted, Execute, Authorized, Promise!AnchorRevocation, Table
    <2>2. QED
      BY <2>1 DEF Promise!Next
  <1>4. CASE op = "mintCertificate"
    <2>1. Promise!Certify(c)
      BY <1>1, <1>4 DEF Accepted, Execute, Authorized, Promise!Certify, Table
    <2>2. QED
      BY <2>1 DEF Promise!Next
  <1>5. CASE op = "revokeCertificate"
    <2>1. Promise!RevokeCertificate(c)
      BY <1>1, <1>5 DEF Accepted, Execute, Authorized, Promise!RevokeCertificate, Table
    <2>2. QED
      BY <2>1 DEF Promise!Next
  <1>6. QED
    BY <1>2, <1>3, <1>4, <1>5 DEF Ops

LEMMA TableStepRefines ==
    ASSUME TypeOK, UNCHANGED chainVars, [Next]_vars
    PROVE  Promise!Next \/ UNCHANGED <<Table, registry, sbt>>
  <1> USE DEF TypeOK, Rows, chainVars
  <1>1. ASSUME NEW c \in Creds, Issue(c) PROVE Promise!Next
    <2>1. Table[c] = "none" /\ Table' = [Table EXCEPT ![c] = "ACTIVE"]
      BY <1>1 DEF Issue, Table
    <2>2. QED
      BY <1>1, <2>1 DEF Promise!Issue, Promise!Next, Table
  <1>2. ASSUME NEW c \in Creds, Revoke(c) PROVE Promise!Next
    <2>1. Table[c] = "ACTIVE" /\ Table' = [Table EXCEPT ![c] = "REVOKED"]
      BY <1>2 DEF Revoke, Table
    <2>2. QED
      BY <1>2, <2>1 DEF Promise!Revoke, Promise!Next, Table
  <1>3. ASSUME NEW c \in Creds, SaveAnchor(c) PROVE UNCHANGED Table
    BY <1>3 DEF SaveAnchor, Table
  <1>4. ASSUME NEW c \in Creds, SyncMint(c) PROVE UNCHANGED Table
    BY <1>4 DEF SyncMint, Table
  <1>5. ASSUME NEW c \in Creds, SaveMint(c) PROVE UNCHANGED Table
    BY <1>5 DEF SaveMint, Table
  <1>6. ASSUME NEW c \in Creds, SaveRevoke(c) PROVE UNCHANGED Table
    BY <1>6 DEF SaveRevoke, Table
  <1>7. ASSUME NEW c \in Creds, SaveSbtRevoke(c) PROVE UNCHANGED Table
    BY <1>7 DEF SaveSbtRevoke, Table
  <1>8. CASE UNCHANGED row
    BY <1>8 DEF Table
  <1>9. QED
    BY <1>1, <1>2, <1>3, <1>4, <1>5, <1>6, <1>7, <1>8
       DEF Next, HandleCreated, HandleRevoked, Publish, PublishFails, Deliver,
           Ack, Requeue, MineLate, Crash, SkipRegister, Register, SkipMint,
           Mint, SkipRevoke, RevokeOnRegistry, SkipSbtRevoke, SkipNotMinted,
           RevokeSbt, vars

\* The backend with its queues, handlers and transactions implements the
\* specification of what it promises about a credential.
THEOREM Refinement == Spec => ImplementsPromise
  <1>1. Init => Promise!Init
    BY DEF Init, NoRow, Promise!Init
  <1>2. IInv /\ [Next]_vars => [Promise!Next]_(Promise!vars)
    <2> SUFFICES ASSUME IInv, [Next]_vars
                 PROVE  Promise!Next \/ UNCHANGED <<Table, registry, sbt>>
      BY DEF Promise!vars, Table
    <2>1. TypeOK /\ ChainStep
      BY StepIsChainStep DEF IInv
    <2>2. CASE UNCHANGED chainVars
      BY <2>1, <2>2, TableStepRefines
    <2>3. CASE ~UNCHANGED chainVars
      BY <2>1, <2>3, ChainStepRefines DEF ChainStep
    <2>4. QED
      BY <2>2, <2>3
  <1>3. QED
    BY <1>1, <1>2, InductiveInvariant, PTL DEF Spec, ImplementsPromise, Promise!Spec
=============================================================================
