------------------------ MODULE CredentialLifecycle ------------------------
(***************************************************************************)
(* The life of verifiable credentials between POST /credentials/issue and  *)
(* their on-chain revocation: the credentials table, the two events that   *)
(* carry a credential to the chain (cred.created and cred.revoked), the    *)
(* consumer that handles them, and what the CredentialRegistry and the     *)
(* CertificateSBT contracts know.                                          *)
(*                                                                         *)
(* The backend is one asyncio loop whose handlers call web3 and SQLAlchemy *)
(* synchronously, so a handler that has started runs to its end before     *)
(* another coroutine does (LoopFree).  What can happen between two of its  *)
(* steps is what the loop does not control: a call raises, a transaction   *)
(* is mined after the client gave up on it, the process dies.  A message   *)
(* whose handler raised is requeued; so is one whose process died.         *)
(***************************************************************************)
EXTENDS Naturals, FiniteSets

CONSTANTS
    Creds,           \* credential ids
    DbRevocable,     \* credentials whose template is revocable in the table
    ChainTypes,      \* credentials whose type is on CredentialTypeRegistry
    ChainRevocable,  \* credentials whose type is revocable there
    OnChain,         \* REQUIRE_CREDENTIAL_ON_CHAIN
    WithSBT,         \* REQUIRE_CERTIFICATE_SBT, contract address configured
    Faults           \* the faults that may happen

FaultKinds == {"rpc",      \* a web3 call raises
               "db",       \* a database call raises
               "timeout",  \* a receipt does not arrive within 120 s
               "ack",      \* the broker never sees the acknowledgement
               "publish",  \* EventBus.publish returns False
               "crash"}    \* the backend process dies and is restarted

ASSUME ConstantsAssumption ==
    /\ IsFiniteSet(Creds)
    /\ DbRevocable \subseteq Creds
    /\ ChainTypes \subseteq Creds
    /\ ChainRevocable \subseteq ChainTypes
    /\ OnChain \in BOOLEAN
    /\ WithSBT \in BOOLEAN
    /\ Faults \subseteq FaultKinds

VARIABLES
    row,          \* the credentials table, status "none" where there is no row
    mail,         \* mail[e][c]: where the message of event e for c is
    registry,     \* CredentialRegistry: the state of c's record
    sbt,          \* CertificateSBT: the state of c's certificate
    tokenOf,      \* CertificateSBT._tokenByCredential, 0 when there is none
    nextTokenId,  \* CertificateSBT._nextTokenId
    mempool       \* transactions sent whose receipt nobody waits for any more

chainVars == <<registry, sbt, tokenOf, nextTokenId>>
vars == <<row, mail, registry, sbt, tokenOf, nextTokenId, mempool>>

Created == "cred.created"
Revoked == "cred.revoked"
Events == {Created, Revoked}

\* The steps of the two handlers: a message in one of them is being handled.
CreatedSteps == {"register", "saveAnchor", "mint", "saveMint", "ack"}
RevokedSteps == {"revoke", "saveRevoke", "revokeSbt", "saveSbtRevoke", "ack"}
Steps == CreatedSteps \cup RevokedSteps
FirstStep == [e \in Events |-> IF e = Created THEN "register" ELSE "revoke"]

\* none: never sent; outbox: a background task of the process will publish it.
MailStates == {"none", "outbox", "lost", "queued", "done"} \cup Steps
ChainStates == {"none", "active", "revoked"}
Ops == {"registerCredential", "revokeCredential",
        "mintCertificate", "revokeCertificate"}

Rows == [status : {"none", "ACTIVE", "REVOKED"},
         txHash : BOOLEAN, sbtTxHash : BOOLEAN, sbtTokenId : Nat,
         revokeTxHash : BOOLEAN, sbtRevokeTxHash : BOOLEAN]
NoRow == [status |-> "none", txHash |-> FALSE, sbtTxHash |-> FALSE,
          sbtTokenId |-> 0, revokeTxHash |-> FALSE, sbtRevokeTxHash |-> FALSE]

MailTypeOK ==
    /\ mail \in [Events -> [Creds -> MailStates]]
    /\ \A c \in Creds : /\ mail[Created][c] \notin RevokedSteps \ {"ack"}
                        /\ mail[Revoked][c] \notin CreatedSteps \ {"ack"}

TypeOK ==
    /\ row \in [Creds -> Rows]
    /\ MailTypeOK
    /\ registry \in [Creds -> ChainStates]
    /\ sbt \in [Creds -> ChainStates]
    /\ tokenOf \in [Creds -> Nat]
    /\ nextTokenId \in Nat \ {0}
    /\ mempool \subseteq [op : Ops, cred : Creds]

Init ==
    /\ row = [c \in Creds |-> NoRow]
    /\ mail = [e \in Events |-> [c \in Creds |-> "none"]]
    /\ registry = [c \in Creds |-> "none"]
    /\ sbt = [c \in Creds |-> "none"]
    /\ tokenOf = [c \in Creds |-> 0]
    /\ nextTokenId = 1
    /\ mempool = {}

Move(e, c, s) == mail' = [mail EXCEPT ![e][c] = s]
LoopFree == \A e \in Events, c \in Creds : mail[e][c] \notin Steps

----------------------------------------------------------------------------
\* The HTTP handlers and the background tasks they leave behind.

\* Mutant: the event is not added to the background tasks.
IssueWithoutEvent(c) ==
    /\ LoopFree
    /\ row[c].status = "none"
    /\ row' = [row EXCEPT ![c].status = "ACTIVE"]
    /\ UNCHANGED <<mail, chainVars, mempool>>

\* POST /credentials/issue, from the insert on.
Issue(c) ==
    /\ LoopFree
    /\ row[c].status = "none"
    /\ row' = [row EXCEPT ![c].status = "ACTIVE"]
    /\ Move(Created, c, "outbox")
    /\ UNCHANGED <<chainVars, mempool>>

\* Mutant: the event is published and the status is not committed.
RevokeWithoutCommit(c) ==
    /\ LoopFree
    /\ row[c].status = "ACTIVE" /\ c \in DbRevocable
    /\ Move(Revoked, c, "outbox")
    /\ UNCHANGED <<row, chainVars, mempool>>

\* Mutant: a credential id without a row is not refused with 404.
RevokeUnknown(c) ==
    /\ LoopFree
    /\ row[c].status # "REVOKED" /\ c \in DbRevocable
    /\ row' = [row EXCEPT ![c].status = "REVOKED"]
    /\ Move(Revoked, c, "outbox")
    /\ UNCHANGED <<chainVars, mempool>>

\* POST /credentials/revoke: 409 for a revoked one, 400 if not revocable.
Revoke(c) ==
    /\ LoopFree
    /\ row[c].status = "ACTIVE"
    /\ c \in DbRevocable
    /\ row' = [row EXCEPT ![c].status = "REVOKED"]
    /\ Move(Revoked, c, "outbox")
    /\ UNCHANGED <<chainVars, mempool>>

Publish(e, c) ==
    /\ LoopFree
    /\ mail[e][c] = "outbox"
    /\ Move(e, c, "queued")
    /\ UNCHANGED <<row, chainVars, mempool>>

\* EventBus.publish logs the error and returns False; nobody looks at it.
PublishFails(e, c) ==
    /\ "publish" \in Faults
    /\ LoopFree
    /\ mail[e][c] = "outbox"
    /\ Move(e, c, "lost")
    /\ UNCHANGED <<row, chainVars, mempool>>

Deliver(e, c) ==
    /\ LoopFree
    /\ mail[e][c] = "queued"
    /\ Move(e, c, FirstStep[e])
    /\ UNCHANGED <<row, chainVars, mempool>>

----------------------------------------------------------------------------
\* Transactions.  All contracts are owned by one account and every
\* transaction takes that account's latest nonce, so while an earlier one
\* is still in the mempool the node refuses the next.

Accepted(op, c) ==
    CASE op = "registerCredential" -> c \in ChainTypes /\ registry[c] = "none"
      [] op = "revokeCredential"   -> c \in ChainRevocable /\ registry[c] = "active"
      [] op = "mintCertificate"    -> c \in ChainTypes /\ sbt[c] = "none"
      [] op = "revokeCertificate"  -> c \in ChainRevocable /\ sbt[c] = "active"

\* Mutant: _nextTokenId is not incremented.
ExecuteSameTokenId(op, c) ==
    /\ registry' = CASE op = "registerCredential" -> [registry EXCEPT ![c] = "active"]
                     [] op = "revokeCredential"   -> [registry EXCEPT ![c] = "revoked"]
                     [] OTHER                     -> registry
    /\ sbt' = CASE op = "mintCertificate"   -> [sbt EXCEPT ![c] = "active"]
                [] op = "revokeCertificate" -> [sbt EXCEPT ![c] = "revoked"]
                [] OTHER                    -> sbt
    /\ tokenOf' = IF op = "mintCertificate" THEN [tokenOf EXCEPT ![c] = nextTokenId]
                                            ELSE tokenOf
    /\ UNCHANGED nextTokenId

Execute(op, c) ==
    /\ registry' = CASE op = "registerCredential" -> [registry EXCEPT ![c] = "active"]
                     [] op = "revokeCredential"   -> [registry EXCEPT ![c] = "revoked"]
                     [] OTHER                     -> registry
    /\ sbt' = CASE op = "mintCertificate"   -> [sbt EXCEPT ![c] = "active"]
                [] op = "revokeCertificate" -> [sbt EXCEPT ![c] = "revoked"]
                [] OTHER                    -> sbt
    /\ IF op = "mintCertificate"
       THEN /\ tokenOf' = [tokenOf EXCEPT ![c] = nextTokenId]
            /\ nextTokenId' = nextTokenId + 1
       ELSE UNCHANGED <<tokenOf, nextTokenId>>

\* _send_tx returns: the transaction was mined with status 1.
Mined(op, c) ==
    /\ mempool = {}
    /\ Accepted(op, c)
    /\ Execute(op, c)
    /\ UNCHANGED mempool

\* _send_tx raises: refused by the node, reverted, or no receipt in time.
SendFails(op, c) ==
    /\ UNCHANGED chainVars
    /\ \/ mempool # {} /\ UNCHANGED mempool
       \/ mempool = {} /\ ~Accepted(op, c) /\ UNCHANGED mempool
       \/ /\ "timeout" \in Faults
          /\ mempool = {}
          /\ mempool' = {[op |-> op, cred |-> c]}

\* A transaction nobody waits for is mined, or mined as a revert.
MineLate ==
    \E tx \in mempool :
        /\ mempool' = mempool \ {tx}
        /\ IF Accepted(tx.op, tx.cred) THEN Execute(tx.op, tx.cred)
                                       ELSE UNCHANGED chainVars
        /\ UNCHANGED <<row, mail>>

----------------------------------------------------------------------------
\* handle_cred_created

Registered(c) == row[c].txHash \/ registry[c] # "none"

\* Not required, or already anchored according to the row or to the chain.
SkipRegister(c) ==
    /\ mail[Created][c] = "register"
    /\ ~OnChain \/ Registered(c)
    /\ Move(Created, c, "mint")
    /\ UNCHANGED <<row, chainVars, mempool>>

\* Mutant: the anchor is saved whatever became of the transaction.
RegisterUnchecked(c) ==
    /\ mail[Created][c] = "register"
    /\ OnChain /\ ~Registered(c)
    /\ Mined("registerCredential", c) \/ SendFails("registerCredential", c)
    /\ Move(Created, c, "saveAnchor")
    /\ UNCHANGED row

Register(c) ==
    /\ mail[Created][c] = "register"
    /\ OnChain /\ ~Registered(c)
    /\ \/ Mined("registerCredential", c) /\ Move(Created, c, "saveAnchor")
       \/ SendFails("registerCredential", c) /\ Move(Created, c, "queued")
    /\ UNCHANGED row

SaveAnchor(c) ==
    /\ mail[Created][c] = "saveAnchor"
    /\ row' = [row EXCEPT ![c].txHash = TRUE]
    /\ Move(Created, c, "mint")
    /\ UNCHANGED <<chainVars, mempool>>

SkipMint(c) ==
    /\ mail[Created][c] = "mint"
    /\ ~WithSBT \/ row[c].sbtTxHash
    /\ Move(Created, c, "ack")
    /\ UNCHANGED <<row, chainVars, mempool>>

\* Mutant: the row is not asked for a hash, and the sync stores None over it.
SyncMintClears(c) ==
    /\ mail[Created][c] = "mint"
    /\ WithSBT
    /\ sbt[c] # "none"
    /\ row' = [row EXCEPT ![c].sbtTokenId = tokenOf[c], ![c].sbtTxHash = FALSE]
    /\ Move(Created, c, "ack")
    /\ UNCHANGED <<chainVars, mempool>>

\* "already minted": the token id is synced, sbt_tx_hash stays NULL.
SyncMint(c) ==
    /\ mail[Created][c] = "mint"
    /\ WithSBT /\ ~row[c].sbtTxHash
    /\ sbt[c] # "none"
    /\ row' = [row EXCEPT ![c].sbtTokenId = tokenOf[c]]
    /\ Move(Created, c, "ack")
    /\ UNCHANGED <<chainVars, mempool>>

Mint(c) ==
    /\ mail[Created][c] = "mint"
    /\ WithSBT /\ ~row[c].sbtTxHash
    /\ sbt[c] = "none"
    /\ \/ Mined("mintCertificate", c) /\ Move(Created, c, "saveMint")
       \/ SendFails("mintCertificate", c) /\ Move(Created, c, "queued")
    /\ UNCHANGED row

SaveMint(c) ==
    /\ mail[Created][c] = "saveMint"
    /\ row' = [row EXCEPT ![c].sbtTokenId = tokenOf[c], ![c].sbtTxHash = TRUE]
    /\ Move(Created, c, "ack")
    /\ UNCHANGED <<chainVars, mempool>>

----------------------------------------------------------------------------
\* handle_cred_revoked

SkipRevoke(c) ==
    /\ mail[Revoked][c] = "revoke"
    /\ ~OnChain \/ row[c].revokeTxHash \/ registry[c] = "revoked"
    /\ Move(Revoked, c, "revokeSbt")
    /\ UNCHANGED <<row, chainVars, mempool>>

\* Mutant: a credential that is not on the chain yet counts as handled.
RevokeSkipsUnknown(c) ==
    /\ mail[Revoked][c] = "revoke"
    /\ OnChain /\ ~row[c].revokeTxHash
    /\ registry[c] # "revoked"
    /\ \/ /\ registry[c] = "none"
          /\ Move(Revoked, c, "revokeSbt")
          /\ UNCHANGED <<chainVars, mempool>>
       \/ /\ registry[c] = "active"
          /\ Mined("revokeCredential", c)
          /\ Move(Revoked, c, "saveRevoke")
       \/ /\ registry[c] = "active"
          /\ SendFails("revokeCredential", c)
          /\ Move(Revoked, c, "queued")
    /\ UNCHANGED row

\* A credential that is not on the chain makes the record read revert: the
\* handler raises before it sends anything.
RevokeOnRegistry(c) ==
    /\ mail[Revoked][c] = "revoke"
    /\ OnChain /\ ~row[c].revokeTxHash
    /\ registry[c] # "revoked"
    /\ \/ /\ registry[c] = "none"
          /\ Move(Revoked, c, "queued")
          /\ UNCHANGED <<chainVars, mempool>>
       \/ /\ registry[c] = "active"
          /\ Mined("revokeCredential", c)
          /\ Move(Revoked, c, "saveRevoke")
       \/ /\ registry[c] = "active"
          /\ SendFails("revokeCredential", c)
          /\ Move(Revoked, c, "queued")
    /\ UNCHANGED row

SaveRevoke(c) ==
    /\ mail[Revoked][c] = "saveRevoke"
    /\ row' = [row EXCEPT ![c].revokeTxHash = TRUE]
    /\ Move(Revoked, c, "revokeSbt")
    /\ UNCHANGED <<chainVars, mempool>>

SkipSbtRevoke(c) ==
    /\ mail[Revoked][c] = "revokeSbt"
    /\ \/ ~WithSBT
       \/ row[c].sbtRevokeTxHash
       \/ sbt[c] = "revoked"
    /\ Move(Revoked, c, "ack")
    /\ UNCHANGED <<row, chainVars, mempool>>

\* get_certificate turns every exception, a failed call too, into "not
\* minted", and the handler takes that for a credential without a token.
SkipNotMinted(c) ==
    /\ mail[Revoked][c] = "revokeSbt"
    /\ WithSBT /\ ~row[c].sbtRevokeTxHash
    /\ sbt[c] = "none" \/ "rpc" \in Faults
    /\ Move(Revoked, c, "ack")
    /\ UNCHANGED <<row, chainVars, mempool>>

RevokeSbt(c) ==
    /\ mail[Revoked][c] = "revokeSbt"
    /\ WithSBT /\ ~row[c].sbtRevokeTxHash
    /\ sbt[c] = "active"
    /\ \/ Mined("revokeCertificate", c) /\ Move(Revoked, c, "saveSbtRevoke")
       \/ SendFails("revokeCertificate", c) /\ Move(Revoked, c, "queued")
    /\ UNCHANGED row

SaveSbtRevoke(c) ==
    /\ mail[Revoked][c] = "saveSbtRevoke"
    /\ row' = [row EXCEPT ![c].sbtRevokeTxHash = TRUE]
    /\ Move(Revoked, c, "ack")
    /\ UNCHANGED <<chainVars, mempool>>

----------------------------------------------------------------------------
\* Leaving message.process(requeue=True), and what the loop does not control.

Ack(e, c) ==
    /\ mail[e][c] = "ack"
    /\ Move(e, c, "done")
    /\ UNCHANGED <<row, chainVars, mempool>>

\* Mutant: message.process() without requeue=True, an exception acknowledges.
RequeueDrops(e, c) ==
    /\ mail[e][c] \in Steps
    /\ {"rpc", "db"} \cap Faults # {}
    /\ Move(e, c, "done")
    /\ UNCHANGED <<row, chainVars, mempool>>

\* Any step reads the database or calls the node; whatever it raises, and an
\* acknowledgement the broker misses, puts the message back on its queue.
Requeue(e, c) ==
    /\ mail[e][c] \in Steps
    /\ IF mail[e][c] = "ack" THEN "ack" \in Faults
                             ELSE {"rpc", "db"} \cap Faults # {}
    /\ Move(e, c, "queued")
    /\ UNCHANGED <<row, chainVars, mempool>>

\* The broker redelivers what was being handled; background tasks are gone.
Crash ==
    /\ "crash" \in Faults
    /\ mail' = [e \in Events |-> [c \in Creds |->
                  CASE mail[e][c] \in Steps    -> "queued"
                    [] mail[e][c] = "outbox"   -> "lost"
                    [] OTHER                   -> mail[e][c]]]
    /\ UNCHANGED <<row, chainVars, mempool>>

HandleCreated(c) ==
    \/ SkipRegister(c) \/ Register(c) \/ SaveAnchor(c)
    \/ SkipMint(c) \/ SyncMint(c) \/ Mint(c) \/ SaveMint(c)

HandleRevoked(c) ==
    \/ SkipRevoke(c) \/ RevokeOnRegistry(c) \/ SaveRevoke(c)
    \/ SkipSbtRevoke(c) \/ SkipNotMinted(c) \/ RevokeSbt(c) \/ SaveSbtRevoke(c)

Next ==
    \/ \E c \in Creds : \/ Issue(c) \/ Revoke(c)
                        \/ HandleCreated(c) \/ HandleRevoked(c)
    \/ \E e \in Events, c \in Creds :
          \/ Publish(e, c) \/ PublishFails(e, c) \/ Deliver(e, c)
          \/ Ack(e, c) \/ Requeue(e, c)
    \/ MineLate
    \/ Crash

Spec == Init /\ [][Next]_vars

----------------------------------------------------------------------------
\* Fairness.  A handler that started ends; the loop runs the tasks it was
\* given in turn; RabbitMQ hands out every queued message again and again
\* (the queues stay below prefetch_count); what is in the mempool is mined;
\* and the node, the database and the broker stop failing in the end.

HandlerStep ==
    \/ \E c \in Creds : HandleCreated(c) \/ HandleRevoked(c)
    \/ \E e \in Events, c \in Creds : Ack(e, c) \/ Requeue(e, c)

FaultStep ==
    \/ \E e \in Events, c \in Creds : Requeue(e, c)
    \/ mempool = {} /\ mempool' # {}

Fairness ==
    /\ WF_vars(HandlerStep)
    /\ WF_vars(MineLate)
    /\ \A e \in Events, c \in Creds : SF_vars(Publish(e, c)) /\ SF_vars(Deliver(e, c))
    /\ <>[][~FaultStep]_vars

FairSpec == Spec /\ Fairness

----------------------------------------------------------------------------
\* Safety.

\* The contracts never hold a revocation the table does not: only what an
\* administrator revoked through POST /revoke is revoked on the registry or
\* on the certificate, whatever is redelivered or mined late.
ChainRevocationFollowsTable ==
    \A c \in Creds : registry[c] = "revoked" \/ sbt[c] = "revoked"
                        => row[c].status = "REVOKED"

\* What the row says of the chain is so: every hash stored by an update_*
\* function stands for a state the contract is in, and a stored token id is
\* the token the contract gave this credential.
AnchorsAreTruthful ==
    \A c \in Creds :
        /\ row[c].txHash => registry[c] # "none"
        /\ row[c].sbtTxHash => row[c].sbtTokenId # 0
        /\ row[c].sbtTokenId # 0 => row[c].sbtTokenId = tokenOf[c]
        /\ row[c].revokeTxHash => registry[c] = "revoked"
        /\ row[c].sbtRevokeTxHash => sbt[c] = "revoked"

\* An acknowledged cred.created is on the chain: the consumer never drops an
\* issuance, it acknowledges only what is registered and, if required, minted.
AckedIssueIsAnchored ==
    \A c \in Creds : mail[Created][c] = "done" =>
        /\ OnChain => registry[c] # "none"
        /\ WithSBT => sbt[c] # "none"

\* An acknowledged cred.revoked is revoked on the registry, in whichever
\* order the two queues delivered the two events.
AckedRevokeIsOnRegistry ==
    \A c \in Creds : mail[Revoked][c] = "done" /\ OnChain => registry[c] = "revoked"

\* Redelivery, a late transaction or a lost acknowledgement never makes a
\* second token: the tokens minted are as many as the credentials with a
\* certificate, and no two credentials share one.
OneTokenPerCredential ==
    /\ nextTokenId = Cardinality({c \in Creds : sbt[c] # "none"}) + 1
    /\ \A c, d \in Creds : tokenOf[c] = tokenOf[d] /\ tokenOf[c] # 0 => c = d

\* Nothing is lost without a fault that loses it: a credential that is not on
\* the registry although the deployment requires it still has its event in
\* the outbox, on the queue or in the handler, or the event was lost.
IssueStaysPending ==
    \A c \in Creds : OnChain /\ row[c].status # "none" /\ registry[c] = "none"
                        => mail[Created][c] \notin {"none", "done"}

\* A step never takes back what the chain or the table said: statuses only
\* move forward, a token id once stored does not change, and a hash once stored
\* stays the one it was: no later step clears its column, and no handler ever
\* comes to the step that stores a hash when its column holds one already, by
\* whatever redelivery.  (That there is a hash is all the rows keep of it.)
NothingIsTakenBack ==
    [][\A c \in Creds :
        /\ row[c].txHash => row'[c].txHash /\ mail[Created][c] # "saveAnchor"
        /\ row[c].sbtTxHash => row'[c].sbtTxHash /\ mail[Created][c] # "saveMint"
        /\ row[c].revokeTxHash => row'[c].revokeTxHash /\ mail[Revoked][c] # "saveRevoke"
        /\ row[c].sbtRevokeTxHash
              => row'[c].sbtRevokeTxHash /\ mail[Revoked][c] # "saveSbtRevoke"
        /\ registry[c] = "revoked" => registry'[c] = "revoked"
        /\ registry[c] = "active" => registry'[c] # "none"
        /\ sbt[c] = "revoked" => sbt'[c] = "revoked"
        /\ sbt[c] = "active" => sbt'[c] # "none"
        /\ row[c].status = "REVOKED" => row'[c].status = "REVOKED"
        /\ row[c].sbtTokenId # 0 => row'[c].sbtTokenId = row[c].sbtTokenId]_vars

\* The backend implements what it promises: every change of the table and of
\* the two contracts is one the abstract specification allows, and in the
\* order it allows, whatever happens to events and transactions.
Promise == INSTANCE CredentialStatus
               WITH table <- [c \in Creds |-> row[c].status],
                    chain <- registry,
                    cert <- sbt
ImplementsPromise == Promise!Spec

----------------------------------------------------------------------------
\* Liveness.

\* A credential that was issued is registered and, if required, minted in
\* the end, however often calls fail in between.
IssuedGetsAnchored ==
    \A c \in Creds : row[c].status # "none" /\ c \in ChainTypes
        ~> /\ OnChain => registry[c] # "none"
           /\ WithSBT => sbt[c] # "none"

\* A credential that was revoked in the table is revoked on the registry in
\* the end.
RevokedGetsRevokedOnRegistry ==
    \A c \in Creds : row[c].status = "REVOKED" /\ OnChain /\ c \in ChainRevocable
        ~> registry[c] = "revoked"

----------------------------------------------------------------------------
\* What the documentation says, and the code does not do.

\* docs/architecture-and-implementation.md, 5.5: the cred.revoked consumer
\* revokes on CredentialRegistry and CertificateSBT.  Once both events of a
\* revoked credential are acknowledged its certificate is revoked.
HandledRevokeIsOnSbt ==
    \A c \in Creds :
        WithSBT /\ mail[Created][c] = "done" /\ mail[Revoked][c] = "done"
            => sbt[c] = "revoked"

\* docs/flows.md, 7: after a revoke, verify fails on not_revoked or
\* sbt_not_revoked.  A revoked credential fails verification in the end.
VerifyChainChecksPass(c) ==
    /\ OnChain => registry[c] = "active"
    /\ WithSBT => sbt[c] = "active"
RevokedFailsVerify ==
    \A c \in Creds : row[c].status = "REVOKED" ~> ~VerifyChainChecksPass(c)

----------------------------------------------------------------------------
\* The inductive invariant behind the safety properties: what is known when
\* a message is at a step, and when a transaction is in the mempool.

MailImpliesStatus ==
    \A c \in Creds :
        /\ mail[Created][c] # "none" <=> row[c].status # "none"
        /\ mail[Revoked][c] # "none" => row[c].status = "REVOKED"

MempoolImpliesStatus ==
    \A tx \in mempool :
        /\ row[tx.cred].status # "none"
        /\ tx.op \in {"revokeCredential", "revokeCertificate"}
              => row[tx.cred].status = "REVOKED"

StepImpliesChain ==
    \A c \in Creds :
        /\ mail[Created][c] = "saveAnchor" => registry[c] # "none"
        /\ mail[Created][c] = "saveMint" => sbt[c] # "none"
        /\ mail[Created][c] \in {"mint", "saveMint", "ack", "done"} /\ OnChain
              => registry[c] # "none"
        /\ mail[Created][c] \in {"ack", "done"} /\ WithSBT => sbt[c] # "none"
        /\ mail[Revoked][c] = "saveRevoke" => registry[c] = "revoked"
        /\ mail[Revoked][c] = "saveSbtRevoke" => sbt[c] = "revoked"
        /\ mail[Revoked][c] \in {"revokeSbt", "saveSbtRevoke", "ack", "done"} /\ OnChain
              => registry[c] = "revoked"

\* A handler that is about to store a hash found its column empty.
StoresIntoEmpty ==
    \A c \in Creds :
        /\ mail[Created][c] = "saveAnchor" => ~row[c].txHash
        /\ mail[Created][c] = "saveMint" => ~row[c].sbtTxHash
        /\ mail[Revoked][c] = "saveRevoke" => ~row[c].revokeTxHash
        /\ mail[Revoked][c] = "saveSbtRevoke" => ~row[c].sbtRevokeTxHash

TokensMatchCertificates ==
    \A c \in Creds :
        /\ tokenOf[c] # 0 <=> sbt[c] # "none"
        /\ tokenOf[c] < nextTokenId

IInv ==
    /\ TypeOK
    /\ MailImpliesStatus
    /\ MempoolImpliesStatus
    /\ StepImpliesChain
    /\ StoresIntoEmpty
    /\ TokensMatchCertificates
    /\ AnchorsAreTruthful
    /\ ChainRevocationFollowsTable
    /\ OneTokenPerCredential
=============================================================================
