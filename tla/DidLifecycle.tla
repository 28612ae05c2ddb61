---------------------------- MODULE DidLifecycle ----------------------------
(***************************************************************************)
(* The life of users and their DIDs: registration, the DID that is made    *)
(* from user.created or by POST /dids, its anchor on DIDRegistry, the      *)
(* deletion of an admin, and the seed script that makes the first          *)
(* super_admin.                                                            *)
(*                                                                         *)
(* Three kinds of actors share the tables and the chain.  The asyncio loop *)
(* runs one handler at a time from await to await.  DELETE /auth/admins is *)
(* a plain function, which FastAPI runs in a worker thread, so it          *)
(* interleaves with the loop between any two statements.  seed_admin.py is *)
(* a process of its own.                                                   *)
(*                                                                         *)
(* A user's DID is did:ethr:<user id>:<address> and the address follows    *)
(* from the wallet index, so a user has one possible DID string and the    *)
(* model names DIDs by their users.                                        *)
(***************************************************************************)
EXTENDS Naturals

CONSTANTS
    Users,      \* user ids
    Admins,     \* those of role admin, the ones that can be deleted
    Super,      \* the super_admin the seed script makes
    OnChain,    \* REQUIRE_DID_ON_CHAIN
    Trusted,    \* REQUIRE_TRUSTED_ISSUER
    MaxBacklog, \* POST /dids is not tried for users with more events waiting
    Faults      \* the faults that may happen

FaultKinds == {"rpc",      \* a web3 call raises
               "db",       \* a database call raises
               "timeout",  \* a receipt does not arrive within 120 s
               "publish",  \* EventBus.publish returns False
               "crash",    \* the backend dies and is restarted
               "kill"}     \* the seed script is killed

ASSUME DidAssumption ==
    /\ Super \in Users
    /\ Admins \subseteq Users \ {Super}
    /\ OnChain \in BOOLEAN
    /\ Trusted \in BOOLEAN
    /\ MaxBacklog \in Nat
    /\ Faults \subseteq FaultKinds

VARIABLES
    users,       \* the users table
    dids,        \* dids[u]: how many rows of the dids table hold u's DID
    txHash,      \* whether that row has its tx_hash
    outbox,      \* outbox[e][u]: publications the backend has yet to make
    holding,     \* u's user.created is unacknowledged, its DID's event unsent
    queue,       \* queue[e][u]: messages of event e about u on their queue
    lost,        \* lost[e]: the users an event e of whom was lost
    loop,        \* the handler on the event loop
    deleting,    \* where a worker thread that deletes u is, or was when it ended
    seed,        \* the next step of the seed script
    registered,  \* DIDRegistry: the DIDs that are anchored
    authorized,  \* TrustedEntityRegistry: the issuers that are authorized
    mempool      \* transactions whose receipt nobody waits for any more

tables == <<users, dids, txHash>>
bus == <<outbox, holding, queue, lost>>
chain == <<registered, authorized>>
vars == <<tables, bus, loop, deleting, seed, chain, mempool>>

UserCreated == "user.created"
DidCreated == "did.created"
Events == {UserCreated, DidCreated}

\* kind: what the handler runs for, an event or a request to POST /dids.
CreateSteps == {"check", "insert"}
AnchorSteps == {"read", "isActive", "send", "save"}
Idle == [kind |-> "none", user |-> Super, step |-> "check"]
Task(k, u, s) == [kind |-> k, user |-> u, step |-> s]
Tasks == {Idle} \cup [kind : {"api", UserCreated}, user : Users, step : CreateSteps]
                \cup [kind : {DidCreated}, user : Users, step : AnchorSteps]
SeedSteps == {"idle", "user", "did", "insert", "publish", "anchor", "isActive",
              "send", "save", "authorize", "done", "failed"}
DeleteSteps == {"no", "dids", "user", "halted"}
Txs == [op : {"registerDid", "authorizeIssuer"}, user : Users]

TypeOK ==
    /\ users \in [Users -> {"none", "present", "deleted"}]
    /\ dids \in [Users -> {0, 1}]
    /\ txHash \in [Users -> BOOLEAN]
    /\ outbox \in [Events -> [Users -> Nat]]
    /\ holding \subseteq Users
    /\ queue \in [Events -> [Users -> Nat]]
    /\ lost \in [Events -> SUBSET Users]
    /\ loop \in Tasks
    /\ deleting \in [Users -> DeleteSteps]
    /\ seed \in SeedSteps
    /\ registered \subseteq Users
    /\ authorized \subseteq Users
    /\ mempool \subseteq Txs

Init ==
    /\ users = [u \in Users |-> "none"]
    /\ dids = [u \in Users |-> 0]
    /\ txHash = [u \in Users |-> FALSE]
    /\ outbox = [e \in Events |-> [u \in Users |-> 0]]
    /\ holding = {}
    /\ queue = [e \in Events |-> [u \in Users |-> 0]]
    /\ lost = [e \in Events |-> {}]
    /\ loop = Idle
    /\ deleting = [u \in Users |-> "no"]
    /\ seed = "idle"
    /\ registered = {}
    /\ authorized = {}
    /\ mempool = {}

More(f, e, u) == [f EXCEPT ![e][u] = @ + 1]
Less(f, e, u) == [f EXCEPT ![e][u] = @ - 1]
Lose(e, u) == lost' = [lost EXCEPT ![e] = @ \cup {u}]

----------------------------------------------------------------------------
\* Statements the backend and the seed script have in common.

\* INSERT INTO dids, where the DID string is unique.
InsertDid(u) ==
    /\ dids[u] = 0
    /\ dids' = [dids EXCEPT ![u] = 1]
    /\ txHash' = [txHash EXCEPT ![u] = FALSE]
    /\ UNCHANGED users

\* Mutant: the anchor is stored for a row that is gone.
SaveAnchorUpsert(u) ==
    /\ txHash' = [txHash EXCEPT ![u] = TRUE]
    /\ UNCHANGED <<users, dids>>

\* update_did_chain_anchor: a DID whose row is gone is only logged.
SaveAnchor(u) ==
    /\ txHash' = [txHash EXCEPT ![u] = dids[u] > 0]
    /\ UNCHANGED <<users, dids>>

Accepted(tx) == IF tx.op = "registerDid" THEN tx.user \notin registered
                                         ELSE tx.user \notin authorized
Execute(tx) ==
    IF tx.op = "registerDid"
    THEN registered' = registered \cup {tx.user} /\ UNCHANGED authorized
    ELSE authorized' = authorized \cup {tx.user} /\ UNCHANGED registered

Mined(tx) ==
    /\ mempool = {}
    /\ Accepted(tx)
    /\ Execute(tx)
    /\ UNCHANGED mempool

\* Refused because of the nonce, reverted, or without a receipt in time.
SendFails(tx) ==
    /\ UNCHANGED chain
    /\ \/ mempool # {} /\ UNCHANGED mempool
       \/ mempool = {} /\ ~Accepted(tx) /\ UNCHANGED mempool
       \/ "timeout" \in Faults /\ mempool = {} /\ mempool' = {tx}

RegisterTx(u) == [op |-> "registerDid", user |-> u]
AuthorizeTx(u) == [op |-> "authorizeIssuer", user |-> u]

MineLate ==
    \E tx \in mempool :
        /\ mempool' = mempool \ {tx}
        /\ IF Accepted(tx) THEN Execute(tx) ELSE UNCHANGED chain
        /\ UNCHANGED <<tables, bus, loop, deleting, seed>>

----------------------------------------------------------------------------
\* Requests that end on the loop in one step, and publications.

\* Mutant: user.created is not published.
RegisterUnpublished(u) ==
    /\ loop = Idle
    /\ u # Super /\ users[u] = "none"
    /\ users' = [users EXCEPT ![u] = "present"]
    /\ UNCHANGED <<dids, txHash, bus, loop, deleting, seed, chain, mempool>>

\* POST /auth/register; the seed script makes the super_admin.
Register(u) ==
    /\ loop = Idle
    /\ u # Super /\ users[u] = "none"
    /\ users' = [users EXCEPT ![u] = "present"]
    /\ outbox' = More(outbox, UserCreated, u)
    /\ UNCHANGED <<dids, txHash, holding, queue, lost, loop, deleting, seed, chain, mempool>>

Publish(e, u) ==
    /\ loop = Idle
    /\ outbox[e][u] > 0
    /\ outbox' = Less(outbox, e, u)
    /\ \/ queue' = More(queue, e, u) /\ UNCHANGED lost
       \/ "publish" \in Faults /\ Lose(e, u) /\ UNCHANGED queue
    /\ UNCHANGED <<tables, holding, loop, deleting, seed, chain, mempool>>

\* handle_user_created awaits its publication and then acknowledges.
PublishHeld(u) ==
    /\ loop = Idle
    /\ u \in holding
    /\ holding' = holding \ {u}
    /\ \/ queue' = More(queue, DidCreated, u) /\ UNCHANGED lost
       \/ "publish" \in Faults /\ Lose(DidCreated, u) /\ UNCHANGED queue
    /\ UNCHANGED <<tables, outbox, loop, deleting, seed, chain, mempool>>

----------------------------------------------------------------------------
\* create_did_service, for POST /dids and for user.created.

PostDid(u) ==
    /\ loop = Idle
    /\ queue[DidCreated][u] + outbox[DidCreated][u] < MaxBacklog
    /\ loop' = Task("api", u, "check")
    /\ UNCHANGED <<tables, bus, deleting, seed, chain, mempool>>

Deliver(e, u) ==
    /\ loop = Idle
    /\ queue[e][u] > 0
    /\ queue' = Less(queue, e, u)
    /\ loop' = Task(e, u, IF e = UserCreated THEN "check" ELSE "read")
    /\ UNCHANGED <<tables, outbox, holding, lost, deleting, seed, chain, mempool>>

Creating(u, s) == loop.kind \in {"api", UserCreated} /\ loop.user = u /\ loop.step = s

\* 404 for an unknown user, 409 when there is a DID already.
CheckUser(u) ==
    /\ Creating(u, "check")
    /\ loop' = IF users[u] = "present" /\ dids[u] = 0 THEN [loop EXCEPT !.step = "insert"]
                                                    ELSE Idle
    /\ UNCHANGED <<tables, bus, deleting, seed, chain, mempool>>

\* Mutant: POST /dids forgets to publish did.created.
InsertRowUnpublished(u) ==
    /\ Creating(u, "insert")
    /\ loop' = Idle
    /\ \/ InsertDid(u) /\ UNCHANGED <<outbox, holding>>
       \/ dids[u] > 0 /\ UNCHANGED <<tables, outbox, holding>>
    /\ UNCHANGED <<queue, lost, deleting, seed, chain, mempool>>

\* Mutant: the one whose insert was refused publishes the other's DID again.
InsertRowAnnouncesAnyway(u) ==
    /\ Creating(u, "insert")
    /\ loop' = Idle
    /\ InsertDid(u) \/ (dids[u] > 0 /\ UNCHANGED tables)
    /\ IF loop.kind = "api"
       THEN outbox' = More(outbox, DidCreated, u) /\ UNCHANGED holding
       ELSE holding' = holding \cup {u} /\ UNCHANGED outbox
    /\ UNCHANGED <<queue, lost, deleting, seed, chain, mempool>>

InsertRow(u) ==
    /\ Creating(u, "insert")
    /\ loop' = Idle
    /\ \/ /\ InsertDid(u)
          /\ IF loop.kind = "api"
             THEN outbox' = More(outbox, DidCreated, u) /\ UNCHANGED holding
             ELSE holding' = holding \cup {u} /\ UNCHANGED outbox
       \/ dids[u] > 0 /\ UNCHANGED <<tables, outbox, holding>>
    /\ UNCHANGED <<queue, lost, deleting, seed, chain, mempool>>

\* handle_user_created logs every exception and returns, so the message is
\* acknowledged; the request is answered with 500.
CreateRaises(u) ==
    /\ "db" \in Faults
    /\ \E s \in CreateSteps : Creating(u, s)
    /\ IF loop.kind = UserCreated THEN Lose(UserCreated, u) ELSE UNCHANGED lost
    /\ loop' = Idle
    /\ UNCHANGED <<tables, outbox, holding, queue, deleting, seed, chain, mempool>>

----------------------------------------------------------------------------
\* handle_did_created

Anchoring(u, s) == loop = Task(DidCreated, u, s)

ReadRow(u) ==
    /\ Anchoring(u, "read")
    /\ loop' = IF OnChain /\ ~txHash[u] THEN Task(DidCreated, u, "isActive") ELSE Idle
    /\ UNCHANGED <<tables, bus, deleting, seed, chain, mempool>>

\* "already registered": acknowledged, tx_hash stays NULL.
IsActive(u) ==
    /\ Anchoring(u, "isActive")
    /\ loop' = IF u \in registered THEN Idle ELSE Task(DidCreated, u, "send")
    /\ UNCHANGED <<tables, bus, deleting, seed, chain, mempool>>

RegisterOnChain(u) ==
    /\ Anchoring(u, "send")
    /\ \/ /\ Mined(RegisterTx(u))
          /\ loop' = Task(DidCreated, u, "save")
          /\ UNCHANGED queue
       \/ /\ SendFails(RegisterTx(u))
          /\ loop' = Idle
          /\ queue' = More(queue, DidCreated, u)
    /\ UNCHANGED <<tables, outbox, holding, lost, deleting, seed>>

Save(u) ==
    /\ Anchoring(u, "save")
    /\ SaveAnchor(u)
    /\ loop' = Idle
    /\ UNCHANGED <<bus, deleting, seed, chain, mempool>>

\* Mutant: handle_did_created swallows what it catches.
AnchorSwallows(u) ==
    /\ {"rpc", "db"} \cap Faults # {}
    /\ \E s \in AnchorSteps : Anchoring(u, s)
    /\ loop' = Idle
    /\ UNCHANGED <<tables, bus, deleting, seed, chain, mempool>>

\* handle_did_created re-raises: the message goes back on its queue.
AnchorRaises(u) ==
    /\ {"rpc", "db"} \cap Faults # {}
    /\ \E s \in AnchorSteps : Anchoring(u, s)
    /\ loop' = Idle
    /\ queue' = More(queue, DidCreated, u)
    /\ UNCHANGED <<tables, outbox, holding, lost, deleting, seed, chain, mempool>>

----------------------------------------------------------------------------
\* DELETE /auth/admins/{user_id}, in a worker thread: two commits.

StartDelete(u) ==
    /\ u \in Admins /\ users[u] = "present"
    /\ deleting[u] \in {"no", "halted"}
    /\ deleting' = [deleting EXCEPT ![u] = "dids"]
    /\ UNCHANGED <<tables, bus, loop, seed, chain, mempool>>

DeleteDids(u) ==
    /\ deleting[u] = "dids"
    /\ deleting' = [deleting EXCEPT ![u] = "user"]
    /\ dids' = [dids EXCEPT ![u] = 0]
    /\ txHash' = [txHash EXCEPT ![u] = FALSE]
    /\ UNCHANGED <<users, bus, loop, seed, chain, mempool>>

DeleteUser(u) ==
    /\ deleting[u] = "user"
    /\ deleting' = [deleting EXCEPT ![u] = "no"]
    /\ users' = [users EXCEPT ![u] = "deleted"]
    /\ UNCHANGED <<dids, txHash, bus, loop, seed, chain, mempool>>

DeleteRaises(u) ==
    /\ "db" \in Faults
    /\ deleting[u] \in {"dids", "user"}
    /\ deleting' = [deleting EXCEPT ![u] = "halted"]
    /\ UNCHANGED <<tables, bus, loop, seed, chain, mempool>>

----------------------------------------------------------------------------
\* seed_admin.py, in a process of its own.

SeedTo(s) == seed' = s
SeedOnly == UNCHANGED <<bus, loop, deleting>>

SeedRun ==
    /\ seed \in {"idle", "failed"}
    /\ SeedTo("user")
    /\ SeedOnly /\ UNCHANGED <<tables, chain, mempool>>

SeedUser ==
    /\ seed = "user"
    /\ SeedTo("did")
    /\ users' = [users EXCEPT ![Super] = "present"]
    /\ SeedOnly /\ UNCHANGED <<dids, txHash, chain, mempool>>

SeedCheckDid ==
    /\ seed = "did"
    /\ SeedTo(IF dids[Super] > 0 THEN "anchor" ELSE "insert")
    /\ SeedOnly /\ UNCHANGED <<tables, chain, mempool>>

\* A row that POST /dids made in between violates the unique constraint.
SeedInsert ==
    /\ seed = "insert"
    /\ \/ InsertDid(Super) /\ SeedTo("publish")
       \/ dids[Super] > 0 /\ SeedTo("failed") /\ UNCHANGED tables
    /\ SeedOnly /\ UNCHANGED <<chain, mempool>>

SeedPublish ==
    /\ seed = "publish"
    /\ SeedTo("anchor")
    /\ \/ queue' = More(queue, DidCreated, Super) /\ UNCHANGED lost
       \/ "publish" \in Faults /\ Lose(DidCreated, Super) /\ UNCHANGED queue
    /\ UNCHANGED <<tables, outbox, holding, loop, deleting, chain, mempool>>

SeedAnchor ==
    /\ seed = "anchor"
    /\ SeedTo(IF OnChain /\ ~txHash[Super] THEN "isActive" ELSE "authorize")
    /\ SeedOnly /\ UNCHANGED <<tables, chain, mempool>>

SeedIsActive ==
    /\ seed = "isActive"
    /\ SeedTo(IF Super \in registered THEN "authorize" ELSE "send")
    /\ SeedOnly /\ UNCHANGED <<tables, chain, mempool>>

\* Mutant: a failed registration does not stop the script.
SeedRegisterUnchecked ==
    /\ seed = "send"
    /\ \/ Mined(RegisterTx(Super)) /\ SeedTo("save")
       \/ SendFails(RegisterTx(Super)) /\ SeedTo("authorize")
    /\ SeedOnly /\ UNCHANGED tables

SeedRegister ==
    /\ seed = "send"
    /\ \/ Mined(RegisterTx(Super)) /\ SeedTo("save")
       \/ SendFails(RegisterTx(Super)) /\ SeedTo("failed")
    /\ SeedOnly /\ UNCHANGED tables

SeedSave ==
    /\ seed = "save"
    /\ SaveAnchor(Super)
    /\ SeedTo("authorize")
    /\ SeedOnly /\ UNCHANGED <<chain, mempool>>

SeedAuthorize ==
    /\ seed = "authorize"
    /\ \/ /\ ~Trusted \/ Super \in authorized
          /\ SeedTo("done")
          /\ UNCHANGED <<chain, mempool>>
       \/ /\ Trusted /\ Super \notin authorized
          /\ \/ Mined(AuthorizeTx(Super)) /\ SeedTo("done")
             \/ SendFails(AuthorizeTx(Super)) /\ SeedTo("failed")
    /\ SeedOnly /\ UNCHANGED tables

SeedFails ==
    /\ seed \notin {"idle", "done", "failed"}
    /\ IF seed = "publish" THEN "kill" \in Faults
                           ELSE {"rpc", "db", "kill"} \cap Faults # {}
    /\ SeedTo("failed")
    /\ IF seed = "publish" THEN Lose(DidCreated, Super) ELSE UNCHANGED lost
    /\ UNCHANGED <<tables, outbox, holding, queue, loop, deleting, chain, mempool>>

----------------------------------------------------------------------------
\* Mutant: messages are acknowledged when they arrive, not when handled.
CrashAfterAck ==
    /\ "crash" \in Faults
    /\ lost' = [e \in Events |-> lost[e]
                    \cup {u \in Users : outbox[e][u] > 0}
                    \cup (IF e = DidCreated THEN holding ELSE {})]
    /\ outbox' = [e \in Events |-> [u \in Users |-> 0]]
    /\ holding' = {}
    /\ loop' = Idle
    /\ deleting' = [u \in Users |-> IF deleting[u] = "no" THEN "no" ELSE "halted"]
    /\ UNCHANGED <<tables, queue, seed, chain, mempool>>

\* The backend dies: tasks and threads are gone, unacknowledged messages
\* return, and what was to be published is lost.
Crash ==
    /\ "crash" \in Faults
    /\ LET back(e, u) == \/ loop.kind = e /\ loop.user = u
                         \/ e = UserCreated /\ u \in holding
       IN queue' = [e \in Events |-> [u \in Users |->
                      IF back(e, u) THEN queue[e][u] + 1 ELSE queue[e][u]]]
    /\ lost' = [e \in Events |-> lost[e]
                    \cup {u \in Users : outbox[e][u] > 0}
                    \cup (IF e = DidCreated THEN holding ELSE {})]
    /\ outbox' = [e \in Events |-> [u \in Users |-> 0]]
    /\ holding' = {}
    /\ loop' = Idle
    /\ deleting' = [u \in Users |-> IF deleting[u] = "no" THEN "no" ELSE "halted"]
    /\ UNCHANGED <<tables, seed, chain, mempool>>

SeedNext ==
    \/ SeedRun \/ SeedUser \/ SeedCheckDid \/ SeedInsert \/ SeedPublish \/ SeedAnchor
    \/ SeedIsActive \/ SeedRegister \/ SeedSave \/ SeedAuthorize \/ SeedFails

LoopStep ==
    \E u \in Users :
        \/ CheckUser(u) \/ InsertRow(u) \/ CreateRaises(u)
        \/ ReadRow(u) \/ IsActive(u) \/ RegisterOnChain(u) \/ Save(u) \/ AnchorRaises(u)

Next ==
    \/ \E u \in Users :
        \/ Register(u) \/ PostDid(u) \/ PublishHeld(u)
        \/ StartDelete(u) \/ DeleteDids(u) \/ DeleteUser(u) \/ DeleteRaises(u)
        \/ \E e \in Events : Publish(e, u) \/ Deliver(e, u)
    \/ LoopStep
    \/ SeedNext
    \/ MineLate
    \/ Crash

Spec == Init /\ [][Next]_vars

----------------------------------------------------------------------------
\* Fairness.  A handler that started ends, the loop serves what waits for it
\* in turn, RabbitMQ keeps delivering, the chain mines, worker threads and
\* the script's publication go on, and in the end calls stop failing.

FaultStep ==
    \/ \E u \in Users : AnchorRaises(u)
    \/ mempool = {} /\ mempool' # {}

Fairness ==
    /\ WF_vars(LoopStep)
    /\ WF_vars(MineLate)
    /\ WF_vars(SeedPublish)
    /\ \A u \in Users :
        /\ WF_vars(DeleteDids(u) \/ DeleteUser(u))
        /\ SF_vars(PublishHeld(u) \/ \E e \in Events : Publish(e, u))
        /\ \A e \in Events : SF_vars(Deliver(e, u))
    /\ <>[][~FaultStep]_vars

FairSpec == Spec /\ Fairness

----------------------------------------------------------------------------
\* Safety.

\* The messages that announce u's DID: the backend or the script is about to
\* publish one, one is queued, or one is being handled.
Announcements(u) ==
    queue[DidCreated][u] + outbox[DidCreated][u]
        + (IF u \in holding THEN 1 ELSE 0)
        + (IF loop.kind = DidCreated /\ loop.user = u THEN 1 ELSE 0)
        + (IF u = Super /\ seed = "publish" THEN 1 ELSE 0)

\* A DID is announced once, and never before it has a row, although the event,
\* POST /dids and the seed script each look for a row first, insert it later and
\* publish last, in two processes, and a crash brings back what was being
\* handled: the consumer never competes with another delivery about the same DID.
\* Only the deletion of an admin takes the row from under its message.
AnnouncedAtMostOnce ==
    \A u \in Users : deleting[u] = "no" /\ users[u] # "deleted"
        => Announcements(u) <= dids[u]

\* A row that shows a transaction is anchored, whichever of the consumer and
\* the script stored it, and whatever was deleted and made again meanwhile.
AnchoredRowIsOnChain ==
    \A u \in Users : txHash[u] => u \in registered /\ dids[u] > 0

\* A DID that is not on the chain is on its way there: its event waits to be
\* published, is queued or is being handled, or the event was lost.
AnchorPending(u) ==
    \/ queue[DidCreated][u] > 0 \/ outbox[DidCreated][u] > 0
    \/ u \in holding
    \/ \E s \in {"read", "isActive", "send"} : Anchoring(u, s)
    \/ u = Super /\ seed = "publish"
DidStaysPending ==
    \A u \in Users : OnChain /\ dids[u] > 0 /\ u \notin registered
        => AnchorPending(u) \/ u \in lost[DidCreated]

\* A registered user without a DID is on the way to one: user.created waits,
\* is queued or is being handled, or was lost.  Only a deletion takes a DID
\* away from a user that stays, when it is at work or stopped halfway.
DidCreationPending(u) ==
    \/ queue[UserCreated][u] > 0 \/ outbox[UserCreated][u] > 0
    \/ loop.kind = UserCreated /\ loop.user = u
UserStaysPending ==
    \A u \in Users \ {Super} :
        users[u] = "present" /\ dids[u] = 0
            => DidCreationPending(u) \/ u \in lost[UserCreated] \/ deleting[u] # "no"

\* When the seed script reports success its promise holds, however it raced
\* with the consumer of its own did.created or with POST /dids: the
\* super_admin has a DID, anchored and trusted where that is required.
SeedDoneMeansReady ==
    seed = "done" =>
        /\ users[Super] = "present" /\ dids[Super] > 0
        /\ OnChain => Super \in registered
        /\ Trusted => Super \in authorized

----------------------------------------------------------------------------
\* Liveness.

\* A DID is anchored in the end unless its row is deleted, as long as no
\* event is lost.
DidGetsAnchored ==
    \A u \in Users : OnChain /\ dids[u] > 0 ~> u \in registered \/ dids[u] = 0

\* A registered user gets a DID or is deleted, as long as no event is lost
\* and the database answers.
UserGetsDid ==
    \A u \in Users \ {Super} :
        users[u] = "present" ~> dids[u] > 0 \/ users[u] = "deleted"

----------------------------------------------------------------------------
\* What a comment says of the table, and the code does not do.

\* did/models.py: dids.user_id is a users.id.  A worker thread that deletes an
\* admin may pass a handler of the loop between its check and its insert.
EveryDidHasUser == \A u \in Users : dids[u] > 0 => users[u] = "present"

----------------------------------------------------------------------------
\* The inductive invariant: what holds at each step of a handler and of the
\* script.

StepsImplyState ==
    /\ \A u \in Users : Anchoring(u, "save") => u \in registered
    /\ \A u \in Users : users[u] # "present" => u \in Admins \/ users[u] = "none"
    /\ \A u \in Users : deleting[u] # "no" => u \in Admins

SeedImpliesState ==
    /\ seed \in SeedSteps \ {"idle", "user", "failed"} => users[Super] = "present"
    /\ seed \in {"publish", "anchor", "isActive", "send", "save", "authorize", "done"}
          => dids[Super] > 0
    /\ seed = "save" => Super \in registered
    /\ seed \in {"authorize", "done"} /\ OnChain => Super \in registered
    /\ seed = "done" /\ Trusted => Super \in authorized

IInv ==
    /\ TypeOK
    /\ StepsImplyState
    /\ SeedImpliesState
    /\ AnnouncedAtMostOnce
    /\ AnchoredRowIsOnChain
    /\ DidStaysPending
    /\ UserStaysPending
=============================================================================
