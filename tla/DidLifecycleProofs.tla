------------------------- MODULE DidLifecycleProofs -------------------------
(***************************************************************************)
(* Theorems about DidLifecycle, for every set of users and admins, every   *)
(* configuration and every set of faults.                                  *)
(***************************************************************************)
EXTENDS DidLifecycle, TLAPS

Counts == [Events -> [Users -> Nat]]

----------------------------------------------------------------------------
\* What the operations on the counters of messages and on lost do.

LEMMA CountsTyped ==
    /\ TypeOK => queue \in Counts /\ outbox \in Counts
    /\ UserCreated \in Events /\ DidCreated \in Events
  BY DEF TypeOK, Counts, Events

LEMMA MoreEffect ==
    ASSUME NEW f \in Counts, NEW e \in Events, NEW u \in Users
    PROVE  /\ More(f, e, u) \in Counts
           /\ \A g \in Events, v \in Users :
                 More(f, e, u)[g][v] = IF g = e /\ v = u THEN f[g][v] + 1 ELSE f[g][v]
  <1> DEFINE h == [f[e] EXCEPT ![u] = @ + 1]
  <1>1. h \in [Users -> Nat]
    BY DEF Counts
  <1>2. More(f, e, u) = [f EXCEPT ![e] = h]
    BY DEF More, Counts
  <1>3. QED
    BY <1>1, <1>2 DEF Counts

LEMMA LessEffect ==
    ASSUME NEW f \in Counts, NEW e \in Events, NEW u \in Users, f[e][u] > 0
    PROVE  /\ Less(f, e, u) \in Counts
           /\ \A g \in Events, v \in Users :
                 Less(f, e, u)[g][v] = IF g = e /\ v = u THEN f[g][v] - 1 ELSE f[g][v]
  <1> DEFINE h == [f[e] EXCEPT ![u] = @ - 1]
  <1>1. h \in [Users -> Nat]
    BY DEF Counts
  <1>2. Less(f, e, u) = [f EXCEPT ![e] = h]
    BY DEF Less, Counts
  <1>3. QED
    BY <1>1, <1>2 DEF Counts

LEMMA LoseEffect ==
    ASSUME lost \in [Events -> SUBSET Users], NEW e \in Events, NEW u \in Users,
           Lose(e, u)
    PROVE  /\ lost' \in [Events -> SUBSET Users]
           /\ u \in lost'[e]
           /\ \A g \in Events : lost[g] \subseteq lost'[g]
  BY DEF Lose

LEMMA CrashEffect ==
    ASSUME TypeOK, Crash
    PROVE  /\ queue' \in Counts /\ outbox' \in Counts
           /\ lost' \in [Events -> SUBSET Users]
           /\ \A g \in Events, v \in Users :
                 /\ queue'[g][v] >= queue[g][v]
                 /\ loop.kind = g /\ loop.user = v => queue'[g][v] > 0
                 /\ v \in lost[g] \/ outbox[g][v] > 0 => v \in lost'[g]
           /\ \A v \in holding : v \in lost'[DidCreated]
  <1>1. queue' \in Counts /\ outbox' \in Counts
    BY DEF Crash, TypeOK, Counts
  <1>2. lost' \in [Events -> SUBSET Users]
    BY DEF Crash, TypeOK
  <1>3. ASSUME NEW g \in Events, NEW v \in Users
        PROVE  /\ queue'[g][v] >= queue[g][v]
               /\ loop.kind = g /\ loop.user = v => queue'[g][v] > 0
    BY DEF Crash, TypeOK
  <1>4. ASSUME NEW g \in Events, NEW v \in Users, v \in lost[g] \/ outbox[g][v] > 0
        PROVE  v \in lost'[g]
    BY <1>4 DEF Crash, TypeOK
  <1>5. \A v \in holding : v \in lost'[DidCreated]
    BY DEF Crash, TypeOK, Events
  <1>6. QED
    BY <1>1, <1>2, <1>3, <1>4, <1>5

----------------------------------------------------------------------------
\* Type correctness.

\* A transaction leaves the contracts and the mempool well typed.
LEMMA SendTyped ==
    ASSUME TypeOK, NEW tx \in Txs, Mined(tx) \/ SendFails(tx)
    PROVE  registered' \subseteq Users /\ authorized' \subseteq Users /\ mempool' \subseteq Txs
  BY DEF TypeOK, Txs, Mined, SendFails, Execute, chain

LEMMA TablesTyped ==
    ASSUME TypeOK, NEW u \in Users, InsertDid(u) \/ SaveAnchor(u)
    PROVE  /\ users' = users /\ dids' \in [Users -> {0, 1}]
           /\ txHash' \in [Users -> BOOLEAN]
  <1>1. CASE InsertDid(u)
    BY <1>1 DEF TypeOK, InsertDid
  <1>2. CASE SaveAnchor(u)
    <2>1. (dids[u] > 0) \in BOOLEAN
      OBVIOUS
    <2>2. QED
      BY <1>2, <2>1, Zenon DEF TypeOK, SaveAnchor
  <1>3. QED
    BY <1>1, <1>2

LEMMA TaskTyped ==
    ASSUME NEW u \in Users
    PROVE  /\ \A k \in {"api", UserCreated}, s \in CreateSteps : Task(k, u, s) \in Tasks
           /\ \A s \in AnchorSteps : Task(DidCreated, u, s) \in Tasks
           /\ Idle \in Tasks
  BY DEF Task, Tasks

LEMMA InitTypeOK == Init => TypeOK
  BY TaskTyped DEF Init, TypeOK, SeedSteps, DeleteSteps, Tasks

LEMMA UserStepTyped ==
    ASSUME TypeOK, NEW u \in Users, NEW e \in Events,
           \/ Register(u) \/ PostDid(u) \/ PublishHeld(u)
           \/ StartDelete(u) \/ DeleteDids(u) \/ DeleteUser(u) \/ DeleteRaises(u)
           \/ Publish(e, u) \/ Deliver(e, u)
    PROVE  TypeOK'
  <1> USE CountsTyped, MoreEffect, LessEffect, LoseEffect, TaskTyped
      DEF TypeOK, DeleteSteps, tables, bus, chain
  <1>1. CASE Register(u)
    BY <1>1 DEF Register, Counts
  <1>2. CASE PostDid(u)
    BY <1>2 DEF PostDid, CreateSteps
  <1>3. CASE PublishHeld(u)
    <2>1. queue' \in Counts
      BY <1>3 DEF PublishHeld
    <2>2. lost' \in [Events -> SUBSET Users]
      BY <1>3 DEF PublishHeld
    <2>3. QED
      BY <1>3, <2>1, <2>2 DEF PublishHeld, Counts
  <1>4. CASE StartDelete(u)
    BY <1>4 DEF StartDelete, Counts
  <1>5. CASE DeleteDids(u)
    BY <1>5 DEF DeleteDids, Counts
  <1>6. CASE DeleteUser(u)
    BY <1>6 DEF DeleteUser, Counts
  <1>7. CASE DeleteRaises(u)
    BY <1>7 DEF DeleteRaises, Counts
  <1>8. CASE Publish(e, u)
    <2>1. queue' \in Counts /\ outbox' \in Counts
      BY <1>8 DEF Publish
    <2>2. lost' \in [Events -> SUBSET Users]
      BY <1>8 DEF Publish
    <2>3. QED
      BY <1>8, <2>1, <2>2 DEF Publish, Counts
  <1>9. CASE Deliver(e, u)
    <2>1. queue' \in Counts
      BY <1>9 DEF Deliver
    <2>2. loop' \in Tasks
      BY <1>9 DEF Deliver, CreateSteps, AnchorSteps, Events
    <2>3. QED
      BY <1>9, <2>1, <2>2 DEF Deliver, Counts
  <1>10. QED
    BY <1>1, <1>2, <1>3, <1>4, <1>5, <1>6, <1>7, <1>8, <1>9

LEMMA LoopStepTyped == TypeOK /\ LoopStep => TypeOK'
  <1> SUFFICES ASSUME TypeOK, NEW u \in Users,
                      \/ CheckUser(u) \/ InsertRow(u) \/ CreateRaises(u)
                      \/ ReadRow(u) \/ IsActive(u) \/ RegisterOnChain(u) \/ Save(u)
                      \/ AnchorRaises(u)
               PROVE  TypeOK'
    BY DEF LoopStep
  <1> USE CountsTyped, MoreEffect, LoseEffect, TaskTyped, TablesTyped
      DEF TypeOK, DeleteSteps, tables, bus, chain
  <1>1. CASE CheckUser(u)
    <2>1. loop \in [kind : {"api", UserCreated}, user : Users, step : CreateSteps]
      BY <1>1 DEF CheckUser, Creating, Tasks, Idle, UserCreated, DidCreated
    <2>2. [loop EXCEPT !.step = "insert"] \in Tasks
      BY <2>1 DEF Tasks, CreateSteps
    <2>3. loop' \in Tasks
      BY <1>1, <2>2 DEF CheckUser
    <2>4. QED
      BY <1>1, <2>3 DEF CheckUser, Counts
  <1>2. CASE InsertRow(u)
    <2>1. outbox' \in Counts /\ holding' \subseteq Users
      BY <1>2 DEF InsertRow
    <2>2. dids' \in [Users -> {0, 1}] /\ txHash' \in [Users -> BOOLEAN] /\ users' = users
      BY <1>2 DEF InsertRow
    <2>3. QED
      BY <1>2, <2>1, <2>2 DEF InsertRow, Counts
  <1>3. CASE CreateRaises(u)
    BY <1>3 DEF CreateRaises, Counts
  <1>4. CASE ReadRow(u)
    BY <1>4 DEF ReadRow, AnchorSteps, Counts
  <1>5. CASE IsActive(u)
    BY <1>5 DEF IsActive, AnchorSteps, Counts
  <1>6. CASE RegisterOnChain(u)
    <2>1. RegisterTx(u) \in Txs
      BY DEF RegisterTx, Txs
    <2>2. registered' \subseteq Users /\ authorized' \subseteq Users /\ mempool' \subseteq Txs
      BY <1>6, <2>1, SendTyped DEF RegisterOnChain
    <2>3. queue' \in Counts /\ loop' \in Tasks
      BY <1>6 DEF RegisterOnChain, AnchorSteps
    <2>4. QED
      BY <1>6, <2>2, <2>3 DEF RegisterOnChain, Counts
  <1>7. CASE Save(u)
    BY <1>7 DEF Save, Counts
  <1>8. CASE AnchorRaises(u)
    BY <1>8 DEF AnchorRaises, Counts
  <1>9. QED
    BY <1>1, <1>2, <1>3, <1>4, <1>5, <1>6, <1>7, <1>8

LEMMA SeedStepTyped == TypeOK /\ SeedNext => TypeOK'
  <1> SUFFICES ASSUME TypeOK, SeedNext PROVE TypeOK'
    OBVIOUS
  <1> USE DidAssumption, CountsTyped, MoreEffect, LoseEffect, TablesTyped
      DEF TypeOK, DeleteSteps, tables, bus, chain, SeedOnly, SeedTo, SeedSteps
  <1>1. CASE SeedRun \/ SeedUser \/ SeedCheckDid \/ SeedAnchor \/ SeedIsActive
    BY <1>1 DEF SeedRun, SeedUser, SeedCheckDid, SeedAnchor, SeedIsActive
  <1>2. CASE SeedInsert
    BY <1>2 DEF SeedInsert
  <1>3. CASE SeedPublish
    <2>1. queue' \in Counts
      BY <1>3 DEF SeedPublish
    <2>2. lost' \in [Events -> SUBSET Users]
      BY <1>3 DEF SeedPublish
    <2>3. QED
      BY <1>3, <2>1, <2>2 DEF SeedPublish, Counts
  <1>4. CASE SeedRegister
    <2>1. RegisterTx(Super) \in Txs
      BY DEF RegisterTx, Txs
    <2>2. QED
      BY <1>4, <2>1, SendTyped DEF SeedRegister, Counts
  <1>5. CASE SeedSave
    BY <1>5 DEF SeedSave
  <1>6. CASE SeedAuthorize
    <2>1. AuthorizeTx(Super) \in Txs
      BY DEF AuthorizeTx, Txs
    <2>2. QED
      BY <1>6, <2>1, SendTyped DEF SeedAuthorize, Counts
  <1>7. CASE SeedFails
    BY <1>7 DEF SeedFails
  <1>8. QED
    BY <1>1, <1>2, <1>3, <1>4, <1>5, <1>6, <1>7 DEF SeedNext

LEMMA MineLateTyped == TypeOK /\ MineLate => TypeOK'
  BY DEF MineLate, TypeOK, Execute, Txs, tables, bus, chain

LEMMA TypeOKStep == TypeOK /\ [Next]_vars => TypeOK'
  <1> SUFFICES ASSUME TypeOK, [Next]_vars PROVE TypeOK'
    OBVIOUS
  <1>1. CASE Crash
    <2>1. queue' \in Counts /\ outbox' \in Counts /\ lost' \in [Events -> SUBSET Users]
      BY <1>1, CrashEffect
    <2>2. loop' \in Tasks
      BY <1>1, DidAssumption, TaskTyped DEF Crash
    <2>3. deleting' \in [Users -> DeleteSteps]
      BY <1>1 DEF Crash, TypeOK, DeleteSteps
    <2>4. QED
      BY <1>1, <2>1, <2>2, <2>3 DEF Crash, TypeOK, Counts, tables, chain
  <1>2. CASE UNCHANGED vars
    BY <1>2 DEF TypeOK, vars, tables, bus, chain
  <1>3. QED
    BY <1>1, <1>2, UserStepTyped, LoopStepTyped, SeedStepTyped, MineLateTyped
       DEF Next, Events

\* The tables, the queues, the handlers' places, the script's place and the
\* contracts keep their types in every run.
THEOREM TypeCorrectness == Spec => []TypeOK
  BY InitTypeOK, TypeOKStep, PTL DEF Spec

----------------------------------------------------------------------------
\* The inductive invariant, part by part.

LEMMA InitIInv == Init => IInv
  <1> SUFFICES ASSUME Init PROVE IInv
    OBVIOUS
  <1>1. TypeOK
    BY InitTypeOK
  <1>2. ASSUME NEW u \in Users PROVE Announcements(u) = 0
    <2>1. queue[DidCreated][u] = 0 /\ outbox[DidCreated][u] = 0
      BY CountsTyped DEF Init
    <2>2. u \notin holding /\ loop.kind # DidCreated /\ seed # "publish"
      BY DEF Init, Idle, DidCreated
    <2>3. QED
      BY <2>1, <2>2 DEF Announcements
  <1>3. AnnouncedAtMostOnce
    BY <1>2 DEF Init, AnnouncedAtMostOnce
  <1>4. QED
    BY <1>1, <1>3, DidAssumption
       DEF Init, IInv, StepsImplyState, SeedImpliesState, AnchoredRowIsOnChain,
           DidStaysPending, UserStaysPending, Anchoring, Idle, Task

\* The contracts forget nothing.
LEMMA ChainGrows ==
    [Next]_vars => registered \subseteq registered' /\ authorized \subseteq authorized'
  <1> SUFFICES ASSUME [Next]_vars
               PROVE  registered \subseteq registered' /\ authorized \subseteq authorized'
    OBVIOUS
  <1> USE DEF chain, Mined, SendFails, Execute
  <1>1. ASSUME NEW u \in Users, RegisterOnChain(u) PROVE UNCHANGED chain \/ Execute(RegisterTx(u))
    BY <1>1 DEF RegisterOnChain
  <1>2. CASE SeedRegister
    BY <1>2 DEF SeedRegister
  <1>3. CASE SeedAuthorize
    BY <1>3 DEF SeedAuthorize
  <1>4. CASE MineLate
    BY <1>4 DEF MineLate
  <1>5. CASE UNCHANGED chain
    BY <1>5
  <1>6. QED
    BY <1>1, <1>2, <1>3, <1>4, <1>5
       DEF Next, LoopStep, SeedNext, vars, SeedOnly,
           Register, PostDid, PublishHeld, StartDelete, DeleteDids, DeleteUser,
           DeleteRaises, Publish, Deliver, CheckUser, InsertRow, CreateRaises,
           ReadRow, IsActive, Save, AnchorRaises, SeedRun, SeedUser, SeedCheckDid,
           SeedInsert, SeedPublish, SeedAnchor, SeedIsActive, SeedSave, SeedFails, Crash

\* Who changes the dids table, and how.
TableChanges ==
    \/ \E u \in Users : InsertRow(u) \/ Save(u) \/ DeleteDids(u)
    \/ SeedInsert \/ SeedSave

LEMMA OnlyTableChanges == [Next]_vars => TableChanges \/ UNCHANGED <<dids, txHash>>
  BY DEF TableChanges, Next, LoopStep, SeedNext, vars, tables, SeedOnly,
         Register, PostDid, PublishHeld, StartDelete, DeleteUser, DeleteRaises,
         Publish, Deliver, CheckUser, CreateRaises, ReadRow, IsActive,
         RegisterOnChain, AnchorRaises, SeedRun, SeedUser, SeedCheckDid,
         SeedPublish, SeedAnchor, SeedIsActive, SeedRegister, SeedAuthorize,
         SeedFails, MineLate, Crash

\* The rows that show a transaction are on the contract, however the consumer, the script, POST /dids and the
\* deletion interleave.
LEMMA TableStep ==
    IInv /\ [Next]_vars => AnchoredRowIsOnChain'
  <1> SUFFICES ASSUME IInv, [Next]_vars PROVE AnchoredRowIsOnChain'
    OBVIOUS
  <1>1. registered \subseteq registered'
    BY ChainGrows
  <1> USE DEF AnchoredRowIsOnChain, IInv, TypeOK
  <1>2. ASSUME NEW u \in Users, InsertDid(u)
        PROVE  AnchoredRowIsOnChain'
    BY <1>1, <1>2 DEF InsertDid
  <1>3. ASSUME NEW u \in Users, SaveAnchor(u), u \in registered
        PROVE  AnchoredRowIsOnChain'
    BY <1>1, <1>3 DEF SaveAnchor
  <1>4. ASSUME NEW u \in Users, DeleteDids(u)
        PROVE  AnchoredRowIsOnChain'
    BY <1>1, <1>4 DEF DeleteDids
  <1>5. CASE UNCHANGED <<dids, txHash>>
    BY <1>1, <1>5
  <1>6. CASE \E u \in Users : InsertRow(u)
    BY <1>2, <1>5, <1>6 DEF InsertRow, tables
  <1>7. CASE \E u \in Users : Save(u)
    BY <1>3, <1>7 DEF Save, StepsImplyState
  <1>8. CASE SeedInsert
    BY <1>2, <1>5, <1>8, DidAssumption DEF SeedInsert, tables
  <1>9. CASE SeedSave
    BY <1>3, <1>9, DidAssumption DEF SeedSave, SeedImpliesState
  <1>10. QED
    BY <1>4, <1>5, <1>6, <1>7, <1>8, <1>9, OnlyTableChanges DEF TableChanges

\* Who else moves on the event loop, and who changes the users table or a
\* deletion.
LoopChanges ==
    \E u \in Users :
        \/ PostDid(u) \/ CheckUser(u) \/ InsertRow(u) \/ CreateRaises(u) \/ ReadRow(u)
        \/ IsActive(u) \/ RegisterOnChain(u) \/ Save(u) \/ AnchorRaises(u)
        \/ \E e \in Events : Deliver(e, u)

LEMMA OnlyLoopChanges == [Next]_vars => LoopChanges \/ Crash \/ UNCHANGED loop
  BY DEF LoopChanges, Next, LoopStep, SeedNext, vars, SeedOnly,
         Register, PublishHeld, StartDelete, DeleteDids, DeleteUser, DeleteRaises,
         Publish, SeedRun, SeedUser, SeedCheckDid, SeedInsert, SeedPublish, SeedAnchor,
         SeedIsActive, SeedRegister, SeedSave, SeedAuthorize, SeedFails, MineLate

LEMMA OnlyUserChanges ==
    [Next]_vars => \/ \E u \in Users : Register(u) \/ DeleteUser(u)
                   \/ SeedUser
                   \/ UNCHANGED users
  BY DEF Next, LoopStep, SeedNext, vars, tables, SeedOnly,
         PostDid, PublishHeld, StartDelete, DeleteDids, DeleteRaises, Publish, Deliver,
         CheckUser, InsertRow, InsertDid, CreateRaises, ReadRow, IsActive,
         RegisterOnChain, Save, SaveAnchor, AnchorRaises, SeedRun, SeedCheckDid,
         SeedInsert, SeedPublish, SeedAnchor, SeedIsActive, SeedRegister, SeedSave,
         SeedAuthorize, SeedFails, MineLate, Crash

LEMMA OnlyDeletingChanges ==
    [Next]_vars => \/ \E u \in Users : StartDelete(u) \/ DeleteDids(u) \/ DeleteUser(u)
                                       \/ DeleteRaises(u)
                   \/ Crash
                   \/ UNCHANGED deleting
  BY DEF Next, LoopStep, SeedNext, vars, SeedOnly, Register,
         PostDid, PublishHeld, Publish, Deliver,
         CheckUser, InsertRow, CreateRaises, ReadRow, IsActive,
         RegisterOnChain, Save, AnchorRaises, SeedRun, SeedUser, SeedCheckDid,
         SeedInsert, SeedPublish, SeedAnchor, SeedIsActive, SeedRegister, SeedSave,
         SeedAuthorize, SeedFails, MineLate

\* A handler that saves an anchor has registered its DID; users disappear by
\* deletion only, and only admins are deleted.
LEMMA StepsStep == IInv /\ [Next]_vars => StepsImplyState'
  <1> SUFFICES ASSUME IInv, [Next]_vars PROVE StepsImplyState'
    OBVIOUS
  <1> USE DEF IInv, TypeOK, StepsImplyState
  <1>1. ASSUME NEW u \in Users, Anchoring(u, "save")' PROVE u \in registered'
    <2> USE <1>1 DEF Anchoring, Task
    <2>1. registered \subseteq registered'
      BY ChainGrows
    <2>2. CASE UNCHANGED loop
      BY <2>1, <2>2
    <2>3. CASE \E v \in Users : RegisterOnChain(v)
      BY <2>3 DEF RegisterOnChain, Mined, Execute, RegisterTx, Idle
    <2>4. CASE \E v \in Users : CheckUser(v)
      BY <2>4 DEF CheckUser, Creating, Idle, Tasks, DidCreated, UserCreated
    <2>5. CASE Crash \/ \E v \in Users :
                  \/ PostDid(v) \/ InsertRow(v) \/ CreateRaises(v) \/ ReadRow(v)
                  \/ IsActive(v) \/ Save(v) \/ AnchorRaises(v)
                  \/ \E e \in Events : Deliver(e, v)
      BY <2>5 DEF Crash, PostDid, InsertRow, CreateRaises, ReadRow, IsActive, Save,
                  AnchorRaises, Deliver, Idle
    <2>6. QED
      BY <2>2, <2>3, <2>4, <2>5, OnlyLoopChanges DEF LoopChanges
  <1>2. ASSUME NEW u \in Users, users'[u] # "present"
        PROVE  u \in Admins \/ users'[u] = "none"
    <2>1. CASE \E v \in Users : Register(v)
      BY <1>2, <2>1 DEF Register
    <2>2. CASE \E v \in Users : DeleteUser(v)
      BY <1>2, <2>2 DEF DeleteUser
    <2>3. CASE SeedUser
      BY <1>2, <2>3 DEF SeedUser
    <2>4. CASE UNCHANGED users
      BY <1>2, <2>4
    <2>5. QED
      BY <2>1, <2>2, <2>3, <2>4, OnlyUserChanges
  <1>3. ASSUME NEW u \in Users, deleting'[u] # "no" PROVE u \in Admins
    <2>1. CASE \E v \in Users : StartDelete(v) \/ DeleteDids(v) \/ DeleteUser(v)
                                \/ DeleteRaises(v)
      BY <1>3, <2>1 DEF StartDelete, DeleteDids, DeleteUser, DeleteRaises
    <2>2. CASE Crash
      BY <1>3, <2>2 DEF Crash
    <2>3. CASE UNCHANGED deleting
      BY <1>3, <2>3
    <2>4. QED
      BY <2>1, <2>2, <2>3, OnlyDeletingChanges
  <1>4. QED
    BY <1>1, <1>2, <1>3

\* The super_admin and its DID are never deleted, only admins are.
LEMMA SuperStays ==
    ASSUME IInv, [Next]_vars
    PROVE  /\ users[Super] = "present" => users'[Super] = "present"
           /\ dids[Super] > 0 => dids'[Super] > 0
  <1> USE DidAssumption DEF IInv, TypeOK, StepsImplyState
  <1>1. users[Super] = "present" => users'[Super] = "present"
    <2>1. CASE \E v \in Users : Register(v)
      BY <2>1 DEF Register
    <2>2. CASE \E v \in Users : DeleteUser(v)
      BY <2>2 DEF DeleteUser
    <2>3. CASE SeedUser
      BY <2>3 DEF SeedUser
    <2>4. CASE UNCHANGED users
      BY <2>4
    <2>5. QED
      BY <2>1, <2>2, <2>3, <2>4, OnlyUserChanges
  <1>2. dids[Super] > 0 => dids'[Super] > 0
    <2>1. CASE \E v \in Users : InsertRow(v)
      BY <2>1 DEF InsertRow, InsertDid, tables
    <2>2. CASE \E v \in Users : Save(v)
      BY <2>2 DEF Save, SaveAnchor
    <2>3. CASE \E v \in Users : DeleteDids(v)
      BY <2>3 DEF DeleteDids
    <2>4. CASE SeedInsert
      BY <2>4 DEF SeedInsert, InsertDid, tables
    <2>5. CASE SeedSave
      BY <2>5 DEF SeedSave, SaveAnchor
    <2>6. CASE UNCHANGED <<dids, txHash>>
      BY <2>6
    <2>7. QED
      BY <2>1, <2>2, <2>3, <2>4, <2>5, <2>6, OnlyTableChanges DEF TableChanges
  <1>3. QED
    BY <1>1, <1>2

LEMMA OnlySeedChanges == [Next]_vars => SeedNext \/ UNCHANGED seed
  BY DEF Next, LoopStep, vars, Register, PostDid, PublishHeld, StartDelete,
         DeleteDids, DeleteUser, DeleteRaises, Publish, Deliver, CheckUser,
         InsertRow, CreateRaises, ReadRow, IsActive, RegisterOnChain, Save,
         AnchorRaises, MineLate, Crash

\* What the script has done holds at its next step, whatever the backend did
\* in between.
LEMMA SeedStep == IInv /\ [Next]_vars => SeedImpliesState'
  <1> SUFFICES ASSUME IInv, [Next]_vars PROVE SeedImpliesState'
    OBVIOUS
  <1>1. registered \subseteq registered' /\ authorized \subseteq authorized'
    BY ChainGrows
  <1> USE <1>1, SuperStays, DidAssumption
      DEF SeedImpliesState, SeedSteps, SeedTo, IInv, TypeOK
  <1>2. CASE UNCHANGED seed
    BY <1>2
  <1>3. CASE SeedRun \/ SeedFails
    BY <1>3 DEF SeedRun, SeedFails
  <1>4. CASE SeedUser
    BY <1>4 DEF SeedUser
  <1>5. CASE SeedCheckDid
    BY <1>5 DEF SeedCheckDid, tables
  <1>6. CASE SeedInsert
    BY <1>6 DEF SeedInsert, InsertDid, tables
  <1>7. CASE SeedPublish
    BY <1>7 DEF SeedPublish
  <1>8. CASE SeedAnchor
    BY <1>8 DEF SeedAnchor, AnchoredRowIsOnChain
  <1>9. CASE SeedIsActive
    BY <1>9 DEF SeedIsActive
  <1>10. CASE SeedRegister
    BY <1>10 DEF SeedRegister, Mined, Execute, RegisterTx
  <1>11. CASE SeedSave
    BY <1>11 DEF SeedSave
  <1>12. CASE SeedAuthorize
    BY <1>12 DEF SeedAuthorize, Mined, Execute, AuthorizeTx
  <1>13. QED
    BY <1>2, <1>3, <1>4, <1>5, <1>6, <1>7, <1>8, <1>9, <1>10, <1>11, <1>12,
       OnlySeedChanges DEF SeedNext

\* Only a delivery takes a message from a queue, only a publication or a crash
\* takes one from the backend, and what is lost is remembered.
LEMMA BusStep ==
    ASSUME IInv, [Next]_vars, NEW e \in Events, NEW u \in Users
    PROVE  /\ queue'[e][u] >= queue[e][u] \/ Deliver(e, u)
           /\ outbox'[e][u] >= outbox[e][u] \/ Publish(e, u) \/ Crash
           /\ lost[e] \subseteq lost'[e]
           /\ u \in holding => u \in holding' \/ PublishHeld(u) \/ Crash
  <1>0. /\ TypeOK /\ queue[e][u] \in Nat /\ outbox[e][u] \in Nat
        /\ lost \in [Events -> SUBSET Users]
    BY DEF IInv, TypeOK
  <1>a. \A f \in Events, v \in Users :
           /\ More(queue, f, v)[e][u] >= queue[e][u]
           /\ More(outbox, f, v)[e][u] >= outbox[e][u]
    <2> SUFFICES ASSUME NEW f \in Events, NEW v \in Users
                 PROVE  /\ More(queue, f, v)[e][u] >= queue[e][u]
                        /\ More(outbox, f, v)[e][u] >= outbox[e][u]
      OBVIOUS
    <2>1. More(queue, f, v)[e][u] = IF e = f /\ u = v THEN queue[e][u] + 1 ELSE queue[e][u]
      BY <1>0, CountsTyped, MoreEffect
    <2>2. More(outbox, f, v)[e][u] = IF e = f /\ u = v THEN outbox[e][u] + 1 ELSE outbox[e][u]
      BY <1>0, CountsTyped, MoreEffect
    <2>3. QED
      BY <1>0, <2>1, <2>2
  <1>b. \A f \in Events, v \in Users :
           /\ queue[f][v] > 0 => Less(queue, f, v)[e][u] >= queue[e][u] \/ (e = f /\ u = v)
           /\ outbox[f][v] > 0 => Less(outbox, f, v)[e][u] >= outbox[e][u] \/ (e = f /\ u = v)
    <2> SUFFICES ASSUME NEW f \in Events, NEW v \in Users
                 PROVE  /\ queue[f][v] > 0
                              => Less(queue, f, v)[e][u] >= queue[e][u] \/ (e = f /\ u = v)
                        /\ outbox[f][v] > 0
                              => Less(outbox, f, v)[e][u] >= outbox[e][u] \/ (e = f /\ u = v)
      OBVIOUS
    <2>1. queue[f][v] > 0 => Less(queue, f, v)[e][u]
             = IF e = f /\ u = v THEN queue[e][u] - 1 ELSE queue[e][u]
      BY <1>0, CountsTyped, LessEffect
    <2>2. outbox[f][v] > 0 => Less(outbox, f, v)[e][u]
             = IF e = f /\ u = v THEN outbox[e][u] - 1 ELSE outbox[e][u]
      BY <1>0, CountsTyped, LessEffect
    <2>3. QED
      BY <1>0, <2>1, <2>2
  <1>c. ASSUME NEW f \in Events, NEW v \in Users, Lose(f, v) PROVE lost[e] \subseteq lost'[e]
    BY <1>0, <1>c, LoseEffect
  <1>d. \A f \in Events, v \in Users : UNCHANGED lost \/ Lose(f, v) => lost[e] \subseteq lost'[e]
    BY <1>c
  <1> USE <1>a, <1>b, <1>d, CountsTyped DEF bus
  <1>1. ASSUME NEW v \in Users, Register(v)
        PROVE  UNCHANGED <<queue, holding, lost>> /\ outbox'[e][u] >= outbox[e][u]
    BY <1>0, <1>1 DEF Register
  <1>2. ASSUME NEW v \in Users, NEW f \in Events, Publish(f, v)
        PROVE  /\ UNCHANGED holding /\ queue'[e][u] >= queue[e][u]
               /\ outbox'[e][u] >= outbox[e][u] \/ Publish(e, u)
               /\ lost[e] \subseteq lost'[e]
    <2>1. queue'[e][u] >= queue[e][u]
      BY <1>0, <1>2 DEF Publish
    <2>2. outbox'[e][u] >= outbox[e][u] \/ (e = f /\ u = v)
      BY <1>0, <1>2 DEF Publish
    <2>3. lost[e] \subseteq lost'[e]
      BY <1>0, <1>2 DEF Publish
    <2>4. QED
      BY <1>2, <2>1, <2>2, <2>3 DEF Publish
  <1>3. ASSUME NEW v \in Users, PublishHeld(v)
        PROVE  /\ UNCHANGED outbox /\ queue'[e][u] >= queue[e][u]
               /\ lost[e] \subseteq lost'[e]
               /\ u \in holding => u \in holding' \/ PublishHeld(u)
    <2>1. queue'[e][u] >= queue[e][u]
      BY <1>0, <1>3 DEF PublishHeld
    <2>2. lost[e] \subseteq lost'[e]
      BY <1>0, <1>3 DEF PublishHeld
    <2>3. QED
      BY <1>3, <2>1, <2>2 DEF PublishHeld
  <1>4. ASSUME NEW v \in Users, NEW f \in Events, Deliver(f, v)
        PROVE  /\ UNCHANGED <<outbox, holding, lost>>
               /\ queue'[e][u] >= queue[e][u] \/ Deliver(e, u)
    <2>1. queue'[e][u] >= queue[e][u] \/ (e = f /\ u = v)
      BY <1>0, <1>4 DEF Deliver
    <2>2. QED
      BY <1>4, <2>1 DEF Deliver
  <1>5. ASSUME NEW v \in Users, InsertRow(v)
        PROVE  /\ UNCHANGED <<queue, lost>> /\ holding \subseteq holding'
               /\ outbox'[e][u] >= outbox[e][u]
    BY <1>0, <1>5 DEF InsertRow
  <1>6. ASSUME NEW v \in Users, CreateRaises(v)
        PROVE  UNCHANGED <<queue, outbox, holding>> /\ lost[e] \subseteq lost'[e]
    BY <1>0, <1>6 DEF CreateRaises
  <1>7. ASSUME NEW v \in Users, RegisterOnChain(v) \/ AnchorRaises(v)
        PROVE  UNCHANGED <<outbox, holding, lost>> /\ queue'[e][u] >= queue[e][u]
    BY <1>0, <1>7 DEF RegisterOnChain, AnchorRaises
  <1>8. CASE SeedPublish
    <2>1. UNCHANGED <<outbox, holding>>
      BY <1>8 DEF SeedPublish
    <2>2. queue'[e][u] >= queue[e][u]
      BY <1>0, <1>8, DidAssumption DEF SeedPublish
    <2>3. lost[e] \subseteq lost'[e]
      BY <1>0, <1>8, DidAssumption DEF SeedPublish
    <2>4. QED
      BY <1>0, <2>1, <2>2, <2>3
  <1>9. CASE SeedFails
    <2>1. UNCHANGED <<queue, outbox, holding>>
      BY <1>9 DEF SeedFails
    <2>2. lost[e] \subseteq lost'[e]
      BY <1>0, <1>9, DidAssumption DEF SeedFails
    <2>3. QED
      BY <1>0, <2>1, <2>2
  <1>10. CASE Crash
    BY <1>0, <1>10, CrashEffect
  <1>11. CASE UNCHANGED bus
    BY <1>0, <1>11
  <1>12. QED
    <2>1. \/ \E v \in Users :
                \/ Register(v) \/ PublishHeld(v) \/ InsertRow(v) \/ CreateRaises(v)
                \/ RegisterOnChain(v) \/ AnchorRaises(v)
                \/ \E f \in Events : Publish(f, v) \/ Deliver(f, v)
          \/ SeedPublish \/ SeedFails \/ Crash \/ UNCHANGED bus
      BY DEF Next, LoopStep, SeedNext, vars, SeedOnly, PostDid, StartDelete, DeleteDids,
             DeleteUser, DeleteRaises, CheckUser, ReadRow, IsActive, Save, SeedRun,
             SeedUser, SeedCheckDid, SeedInsert, SeedAnchor, SeedIsActive,
             SeedRegister, SeedSave, SeedAuthorize, MineLate
    <2>2. CASE \E v \in Users : Register(v) \/ InsertRow(v) \/ CreateRaises(v)
      BY <1>0, <1>1, <1>5, <1>6, <2>2
    <2>3. CASE \E v \in Users : PublishHeld(v)
      BY <1>0, <1>3, <2>3
    <2>4. CASE \E v \in Users : RegisterOnChain(v) \/ AnchorRaises(v)
      BY <1>0, <1>7, <2>4
    <2>5. CASE \E v \in Users, f \in Events : Publish(f, v)
      BY <1>0, <1>2, <2>5
    <2>6. CASE \E v \in Users, f \in Events : Deliver(f, v)
      BY <1>0, <1>4, <2>6
    <2>7. QED
      BY <1>8, <1>9, <1>10, <1>11, <2>1, <2>2, <2>3, <2>4, <2>5, <2>6

\* A message that is delivered, published or given back by a crash is not
\* forgotten on the way.
LEMMA DeliverTask ==
    ASSUME NEW e \in Events, NEW u \in Users, Deliver(e, u)
    PROVE  /\ e = DidCreated => Anchoring(u, "read")'
           /\ e = UserCreated => loop'.kind = UserCreated /\ loop'.user = u
  BY DEF Deliver, Anchoring, Task, UserCreated, DidCreated

LEMMA PublishKeeps ==
    ASSUME IInv, NEW e \in Events, NEW u \in Users,
           Publish(e, u) \/ (e = DidCreated /\ PublishHeld(u))
    PROVE  queue'[e][u] > 0 \/ u \in lost'[e]
  <1>0. queue \in Counts /\ queue[e][u] \in Nat /\ lost \in [Events -> SUBSET Users]
    BY CountsTyped DEF IInv, TypeOK
  <1>1. More(queue, e, u)[e][u] > 0
    BY <1>0, MoreEffect
  <1>2. Lose(e, u) => u \in lost'[e]
    BY <1>0, LoseEffect
  <1>3. QED
    BY <1>1, <1>2 DEF Publish, PublishHeld

LEMMA SeedPublishKeeps ==
    ASSUME IInv, SeedPublish \/ (SeedFails /\ seed = "publish")
    PROVE  queue'[DidCreated][Super] > 0 \/ Super \in lost'[DidCreated]
  <1>0. /\ queue \in Counts /\ queue[DidCreated][Super] \in Nat
        /\ lost \in [Events -> SUBSET Users]
    BY CountsTyped, DidAssumption DEF IInv, TypeOK
  <1>1. More(queue, DidCreated, Super)[DidCreated][Super] > 0
    BY <1>0, MoreEffect, CountsTyped, DidAssumption
  <1>2. Lose(DidCreated, Super) => Super \in lost'[DidCreated]
    BY <1>0, LoseEffect, CountsTyped, DidAssumption
  <1>3. QED
    BY <1>1, <1>2 DEF SeedPublish, SeedFails

\* An event that is being handled keeps its handler, or the DID is anchored,
\* or the message is back on its queue.
LEMMA AnchoringStep ==
    ASSUME IInv, OnChain, [Next]_vars, NEW u \in Users,
           NEW s \in {"read", "isActive", "send"}, Anchoring(u, s), u \notin registered'
    PROVE  queue'[DidCreated][u] > 0 \/ \E t \in {"read", "isActive", "send"} : Anchoring(u, t)'
  <1>0. queue \in Counts /\ DidCreated \in Events /\ queue[DidCreated][u] \in Nat
    BY CountsTyped DEF IInv, TypeOK
  <1>1. More(queue, DidCreated, u)[DidCreated][u] > 0
    BY <1>0, MoreEffect
  <1>2. u \notin registered
    BY ChainGrows
  <1>3. loop = [kind |-> DidCreated, user |-> u, step |-> s] /\ loop # Idle
    BY DEF Anchoring, Task, Idle, DidCreated
  <1>4. CASE UNCHANGED loop
    BY <1>4 DEF Anchoring
  <1>5. CASE Crash
    BY <1>0, <1>3, <1>5, CrashEffect DEF IInv
  <1>6. CASE \E v \in Users : PostDid(v) \/ \E e \in Events : Deliver(e, v)
    BY <1>3, <1>6 DEF PostDid, Deliver
  <1>7. CASE \E v \in Users : CheckUser(v) \/ InsertRow(v) \/ CreateRaises(v)
    BY <1>3, <1>7 DEF CheckUser, InsertRow, CreateRaises, Creating, DidCreated, UserCreated
  <1>8. CASE \E v \in Users : ReadRow(v)
    <2>1. ReadRow(u)
      BY <1>3, <1>8 DEF ReadRow, Anchoring, Task
    <2>2. QED
      BY <1>2, <2>1 DEF ReadRow, Anchoring, IInv, AnchoredRowIsOnChain
  <1>9. CASE \E v \in Users : IsActive(v)
    <2>1. IsActive(u)
      BY <1>3, <1>9 DEF IsActive, Anchoring, Task
    <2>2. QED
      BY <1>2, <2>1 DEF IsActive, Anchoring
  <1>10. CASE \E v \in Users : RegisterOnChain(v)
    <2>1. RegisterOnChain(u)
      BY <1>3, <1>10 DEF RegisterOnChain, Anchoring, Task
    <2>2. QED
      BY <1>1, <2>1 DEF RegisterOnChain, Mined, Execute, RegisterTx
  <1>11. CASE \E v \in Users : Save(v)
    BY <1>3, <1>11 DEF Save, Anchoring, Task
  <1>12. CASE \E v \in Users : AnchorRaises(v)
    <2>1. AnchorRaises(u)
      BY <1>3, <1>12 DEF AnchorRaises, Anchoring, Task
    <2>2. QED
      BY <1>1, <2>1 DEF AnchorRaises
  <1>13. QED
    BY <1>4, <1>5, <1>6, <1>7, <1>8, <1>9, <1>10, <1>11, <1>12, OnlyLoopChanges DEF LoopChanges

LEMMA DidStep == IInv /\ [Next]_vars => DidStaysPending'
  <1> SUFFICES ASSUME IInv, [Next]_vars, NEW u \in Users,
                      OnChain, dids'[u] > 0, u \notin registered'
               PROVE  AnchorPending(u)' \/ u \in lost'[DidCreated]
    BY DEF DidStaysPending
  <1>0. /\ DidCreated \in Events /\ u \notin registered
        /\ queue[DidCreated][u] \in Nat /\ outbox[DidCreated][u] \in Nat
    BY CountsTyped, ChainGrows DEF IInv, TypeOK, Counts
  <1>t. queue' \in Counts /\ outbox' \in Counts
    BY TypeOKStep DEF IInv, TypeOK, Counts
  <1>n. queue'[DidCreated][u] \in Nat /\ outbox'[DidCreated][u] \in Nat
    BY <1>0, <1>t DEF Counts
  <1> USE DEF AnchorPending
  <1>1. CASE u \in lost[DidCreated]
    BY <1>0, <1>1, BusStep
  <1>2. CASE queue[DidCreated][u] > 0
    BY <1>0, <1>n, <1>2, BusStep, DeliverTask
  <1>3. CASE outbox[DidCreated][u] > 0
    <2>1. CASE Crash
      BY <1>0, <1>3, <2>1, CrashEffect DEF IInv
    <2>2. QED
      BY <1>0, <1>n, <1>3, <2>1, BusStep, PublishKeeps
  <1>4. CASE u \in holding
    <2>1. CASE Crash
      BY <1>4, <2>1, CrashEffect DEF IInv
    <2>2. QED
      BY <1>0, <1>4, <2>1, BusStep, PublishKeeps
  <1>5. CASE \E s \in {"read", "isActive", "send"} : Anchoring(u, s)
    BY <1>5, AnchoringStep
  <1>6. CASE u = Super /\ seed = "publish"
    <2>1. CASE SeedPublish \/ SeedFails
      BY <1>6, <2>1, SeedPublishKeeps
    <2>2. CASE UNCHANGED seed
      BY <1>6, <2>2
    <2>3. QED
      BY <1>6, <2>1, <2>2, OnlySeedChanges
         DEF SeedNext, SeedRun, SeedUser, SeedCheckDid, SeedInsert, SeedAnchor,
             SeedIsActive, SeedRegister, SeedSave, SeedAuthorize
  <1>7. CASE dids[u] = 0
    <2>1. CASE \E v \in Users : InsertRow(v)
      <3>1. InsertRow(u) /\ InsertDid(u)
        BY <1>7, <2>1 DEF InsertRow, InsertDid, tables, IInv, TypeOK
      <3>2. CASE loop.kind = "api"
        <4>1. outbox' = More(outbox, DidCreated, u)
          BY <1>7, <3>1, <3>2 DEF InsertRow, InsertDid
        <4>2. QED
          BY <1>0, <4>1, MoreEffect, CountsTyped DEF IInv
      <3>3. CASE loop.kind # "api"
        BY <1>7, <3>1, <3>3 DEF InsertRow, InsertDid
      <3>4. QED
        BY <3>2, <3>3
    <2>2. CASE \E v \in Users : Save(v) \/ DeleteDids(v)
      BY <1>7, <2>2 DEF Save, SaveAnchor, DeleteDids, IInv, TypeOK
    <2>3. CASE SeedInsert
      BY <1>7, <2>3 DEF SeedInsert, SeedTo, InsertDid, tables, IInv, TypeOK
    <2>4. CASE SeedSave
      BY <1>7, <2>4 DEF SeedSave, SaveAnchor
    <2>5. CASE UNCHANGED <<dids, txHash>>
      BY <1>7, <2>5
    <2>6. QED
      BY <2>1, <2>2, <2>3, <2>4, <2>5, OnlyTableChanges DEF TableChanges
  <1>8. QED
    <2>1. dids[u] > 0 \/ dids[u] = 0
      BY DEF IInv, TypeOK
    <2>2. QED
      BY <1>0, <1>1, <1>2, <1>3, <1>4, <1>5, <1>6, <1>7, <2>1 DEF IInv, DidStaysPending

\* A user.created that is being handled ends in a DID, in the log, or goes back.
LEMMA CreatingStep ==
    ASSUME IInv, [Next]_vars, NEW u \in Users,
           loop.kind = UserCreated, loop.user = u,
           users'[u] = "present", dids'[u] = 0
    PROVE  \/ loop'.kind = UserCreated /\ loop'.user = u
           \/ queue'[UserCreated][u] > 0 \/ u \in lost'[UserCreated]
  <1>0. loop # Idle /\ UserCreated \in Events /\ loop \in Tasks
    BY CountsTyped DEF Idle, UserCreated, IInv, TypeOK
  <1>1. CASE UNCHANGED loop
    BY <1>1
  <1>2. CASE Crash
    BY <1>0, <1>2, CrashEffect DEF IInv
  <1>3. CASE \E v \in Users :
               \/ PostDid(v) \/ ReadRow(v) \/ IsActive(v) \/ RegisterOnChain(v) \/ Save(v)
               \/ AnchorRaises(v) \/ \E e \in Events : Deliver(e, v)
    BY <1>0, <1>3 DEF PostDid, Deliver, ReadRow, IsActive, RegisterOnChain, Save,
                      AnchorRaises, Anchoring, Task, UserCreated, DidCreated
  <1>4. CASE \E v \in Users : CheckUser(v)
    <2>1. CheckUser(u)
      BY <1>4 DEF CheckUser, Creating
    <2>2. loop' = [loop EXCEPT !.step = "insert"]
      BY <2>1 DEF CheckUser, tables
    <2>3. loop \in [kind : {"api", UserCreated}, user : Users, step : CreateSteps]
      BY <1>0, <2>1 DEF Tasks, Idle, UserCreated, DidCreated
    <2>4. QED
      BY <2>2, <2>3
  <1>5. CASE \E v \in Users : InsertRow(v)
    BY <1>5 DEF InsertRow, InsertDid, Creating, tables, IInv, TypeOK
  <1>6. CASE \E v \in Users : CreateRaises(v)
    <2>1. Lose(UserCreated, u)
      BY <1>6 DEF CreateRaises, Creating
    <2>2. QED
      BY <1>0, <2>1, LoseEffect DEF IInv, TypeOK
  <1>7. QED
    BY <1>1, <1>2, <1>3, <1>4, <1>5, <1>6, OnlyLoopChanges DEF LoopChanges

LEMMA UserStep == IInv /\ [Next]_vars => UserStaysPending'
  <1> SUFFICES ASSUME IInv, [Next]_vars, NEW u \in Users \ {Super},
                      users'[u] = "present", dids'[u] = 0
               PROVE  DidCreationPending(u)' \/ u \in lost'[UserCreated] \/ deleting'[u] # "no"
    BY DEF UserStaysPending
  <1>0. /\ UserCreated \in Events /\ u \in Users
        /\ queue[UserCreated][u] \in Nat /\ outbox[UserCreated][u] \in Nat
    BY CountsTyped DEF IInv, TypeOK, Counts
  <1>t. queue' \in Counts /\ outbox' \in Counts
    BY TypeOKStep DEF IInv, TypeOK, Counts
  <1>n. queue'[UserCreated][u] \in Nat /\ outbox'[UserCreated][u] \in Nat
    BY <1>0, <1>t DEF Counts
  <1> USE DEF DidCreationPending
  <1>1. CASE u \in lost[UserCreated]
    BY <1>0, <1>1, BusStep
  <1>2. CASE queue[UserCreated][u] > 0
    BY <1>0, <1>n, <1>2, BusStep, DeliverTask
  <1>3. CASE outbox[UserCreated][u] > 0
    <2>1. CASE Crash
      BY <1>0, <1>3, <2>1, CrashEffect DEF IInv
    <2>2. QED
      BY <1>0, <1>n, <1>3, <2>1, BusStep, PublishKeeps
  <1>4. CASE loop.kind = UserCreated /\ loop.user = u
    BY <1>0, <1>4, CreatingStep
  <1>5. CASE deleting[u] # "no"
    <2>1. CASE \E v \in Users : StartDelete(v) \/ DeleteDids(v) \/ DeleteRaises(v)
      BY <1>0, <1>5, <2>1 DEF StartDelete, DeleteDids, DeleteRaises, IInv, TypeOK
    <2>2. CASE \E v \in Users : DeleteUser(v)
      BY <1>0, <1>5, <2>2 DEF DeleteUser, IInv, TypeOK
    <2>3. CASE Crash
      BY <1>0, <1>5, <2>3 DEF Crash
    <2>4. CASE UNCHANGED deleting
      BY <1>5, <2>4
    <2>5. QED
      BY <2>1, <2>2, <2>3, <2>4, OnlyDeletingChanges
  <1>6. CASE users[u] # "present"
    <2>1. CASE \E v \in Users : Register(v)
      <3>1. outbox' = More(outbox, UserCreated, u)
        BY <1>0, <1>6, <2>1 DEF Register, IInv, TypeOK
      <3>2. QED
        BY <1>0, <3>1, MoreEffect, CountsTyped DEF IInv
    <2>2. CASE SeedUser \/ UNCHANGED users \/ \E v \in Users : DeleteUser(v)
      BY <1>0, <1>6, <2>2, DidAssumption DEF SeedUser, DeleteUser, IInv, TypeOK
    <2>3. QED
      BY <2>1, <2>2, OnlyUserChanges
  <1>7. CASE dids[u] > 0
    <2>1. CASE \E v \in Users : DeleteDids(v)
      BY <1>0, <1>7, <2>1 DEF DeleteDids, IInv, TypeOK
    <2>2. CASE \E v \in Users : InsertRow(v) \/ Save(v)
      BY <1>0, <1>7, <2>2 DEF InsertRow, InsertDid, Save, SaveAnchor, tables, IInv, TypeOK
    <2>3. CASE SeedInsert \/ SeedSave \/ UNCHANGED <<dids, txHash>>
      BY <1>0, <1>7, <2>3 DEF SeedInsert, SeedSave, InsertDid, SaveAnchor, tables, IInv, TypeOK
    <2>4. QED
      BY <2>1, <2>2, <2>3, OnlyTableChanges DEF TableChanges
  <1>8. QED
    <2>1. dids[u] > 0 \/ dids[u] = 0
      BY <1>0 DEF IInv, TypeOK
    <2>2. QED
      BY <1>0, <1>1, <1>2, <1>3, <1>4, <1>5, <1>6, <1>7, <2>1 DEF IInv, UserStaysPending

----------------------------------------------------------------------------
\* The announcements of a DID, counted where they are.

Queued(v) == queue[DidCreated][v]
Waiting(v) == outbox[DidCreated][v]
Held(v) == IF v \in holding THEN 1 ELSE 0
Handled(v) == IF loop.kind = DidCreated /\ loop.user = v THEN 1 ELSE 0
ByScript(v) == IF v = Super /\ seed = "publish" THEN 1 ELSE 0

LEMMA AnnouncementsAreCounted ==
    ASSUME TypeOK, NEW v \in Users
    PROVE  /\ Announcements(v) = Queued(v) + Waiting(v) + Held(v) + Handled(v) + ByScript(v)
           /\ Queued(v) \in Nat /\ Waiting(v) \in Nat
           /\ Held(v) \in {0, 1} /\ Handled(v) \in {0, 1} /\ ByScript(v) \in {0, 1}
  BY CountsTyped DEF TypeOK, Announcements, Queued, Waiting, Held, Handled, ByScript

\* What a step does to the announcements of v: it moves or drops them, unless
\* it makes v's row.
NoneAdded(v) ==
    Queued(v)' + Waiting(v)' + Held(v)' + Handled(v)' + ByScript(v)'
        <= Queued(v) + Waiting(v) + Held(v) + Handled(v) + ByScript(v)
OneAddedForItsRow(v) ==
    /\ dids[v] = 0 /\ dids'[v] = 1
    /\ Queued(v)' + Waiting(v)' + Held(v)' + Handled(v)' + ByScript(v)'
        <= Queued(v) + Waiting(v) + Held(v) + Handled(v) + ByScript(v) + 1

\* The counters of did.created of v after a message is added or taken.
LEMMA CountersOf ==
    ASSUME TypeOK, NEW v \in Users, NEW e \in Events, NEW u \in Users
    PROVE  /\ queue' = More(queue, e, u) =>
                 Queued(v)' = IF e = DidCreated /\ u = v THEN Queued(v) + 1 ELSE Queued(v)
           /\ outbox' = More(outbox, e, u) =>
                 Waiting(v)' = IF e = DidCreated /\ u = v THEN Waiting(v) + 1 ELSE Waiting(v)
           /\ queue' = Less(queue, e, u) /\ queue[e][u] > 0 =>
                 Queued(v)' = IF e = DidCreated /\ u = v THEN Queued(v) - 1 ELSE Queued(v)
           /\ outbox' = Less(outbox, e, u) /\ outbox[e][u] > 0 =>
                 Waiting(v)' = IF e = DidCreated /\ u = v THEN Waiting(v) - 1 ELSE Waiting(v)
  <1>1. queue \in Counts /\ outbox \in Counts /\ DidCreated \in Events
    BY CountsTyped
  <1>2. ASSUME outbox' = More(outbox, e, u)
        PROVE  Waiting(v)' = IF e = DidCreated /\ u = v THEN Waiting(v) + 1 ELSE Waiting(v)
    <2>1. outbox'[DidCreated][v] = IF DidCreated = e /\ v = u THEN outbox[DidCreated][v] + 1
                                                             ELSE outbox[DidCreated][v]
      BY <1>1, <1>2, MoreEffect
    <2>2. QED
      BY <2>1 DEF Waiting
  <1>3. ASSUME queue' = Less(queue, e, u), queue[e][u] > 0
        PROVE  Queued(v)' = IF e = DidCreated /\ u = v THEN Queued(v) - 1 ELSE Queued(v)
    <2>1. queue'[DidCreated][v] = IF DidCreated = e /\ v = u THEN queue[DidCreated][v] - 1
                                                            ELSE queue[DidCreated][v]
      BY <1>1, <1>3, LessEffect
    <2>2. QED
      BY <2>1 DEF Queued
  <1>4. ASSUME outbox' = Less(outbox, e, u), outbox[e][u] > 0
        PROVE  Waiting(v)' = IF e = DidCreated /\ u = v THEN Waiting(v) - 1 ELSE Waiting(v)
    <2>1. outbox'[DidCreated][v] = IF DidCreated = e /\ v = u THEN outbox[DidCreated][v] - 1
                                                             ELSE outbox[DidCreated][v]
      BY <1>1, <1>4, LessEffect
    <2>2. QED
      BY <2>1 DEF Waiting
  <1>5. ASSUME queue' = More(queue, e, u)
        PROVE  Queued(v)' = IF e = DidCreated /\ u = v THEN Queued(v) + 1 ELSE Queued(v)
    <2>1. queue'[DidCreated][v] = IF DidCreated = e /\ v = u THEN queue[DidCreated][v] + 1
                                                            ELSE queue[DidCreated][v]
      BY <1>1, <1>5, MoreEffect
    <2>2. QED
      BY <2>1 DEF Queued
  <1>6. QED
    BY <1>2, <1>3, <1>4, <1>5

\* A publication takes a message out of the backend and queues it, or loses it.
LEMMA PublishMoves ==
    ASSUME TypeOK, NEW v \in Users, NEW u \in Users, NEW e \in Events,
           Publish(e, u) \/ PublishHeld(u)
    PROVE  NoneAdded(v)
  <1> USE CountersOf, AnnouncementsAreCounted, CountsTyped DEF NoneAdded
  <1>1. Handled(v)' = Handled(v) /\ ByScript(v)' = ByScript(v)
    BY DEF Publish, PublishHeld, Handled, ByScript
  <1>2. CASE Publish(e, u)
    <2>1. Held(v)' = Held(v)
      BY <1>2 DEF Publish, Held
    <2>2. /\ Waiting(v)' = IF e = DidCreated /\ u = v THEN Waiting(v) - 1 ELSE Waiting(v)
          /\ \/ Queued(v)' = IF e = DidCreated /\ u = v THEN Queued(v) + 1 ELSE Queued(v)
             \/ Queued(v)' = Queued(v)
      BY <1>2 DEF Publish, Queued
    <2>3. QED
      BY <1>1, <2>1, <2>2
  <1>3. CASE PublishHeld(u)
    <2>1. Waiting(v)' = Waiting(v) /\ Held(v)' = IF u = v THEN 0 ELSE Held(v)
      BY <1>3 DEF PublishHeld, Held, Waiting
    <2>2. u = v => Held(v) = 1
      BY <1>3 DEF PublishHeld, Held
    <2>3. \/ Queued(v)' = IF u = v THEN Queued(v) + 1 ELSE Queued(v)
          \/ Queued(v)' = Queued(v)
      BY <1>3 DEF PublishHeld, Queued
    <2>4. QED
      BY <1>1, <2>1, <2>2, <2>3
  <1>4. QED
    BY <1>2, <1>3

\* A delivery hands a message to the handler, a handler that raises returns it.
LEMMA HandlerMoves ==
    ASSUME TypeOK, NEW v \in Users, NEW u \in Users, NEW e \in Events,
           \/ Deliver(e, u) \/ PostDid(u) \/ CheckUser(u) \/ CreateRaises(u)
           \/ ReadRow(u) \/ IsActive(u) \/ RegisterOnChain(u) \/ Save(u) \/ AnchorRaises(u)
    PROVE  NoneAdded(v)
  <1> USE CountersOf, AnnouncementsAreCounted, CountsTyped DEF NoneAdded
  <1>1. Held(v)' = Held(v) /\ Waiting(v)' = Waiting(v) /\ ByScript(v)' = ByScript(v)
    BY DEF Deliver, PostDid, CheckUser, CreateRaises, ReadRow, IsActive, RegisterOnChain,
           Save, AnchorRaises, Held, Waiting, ByScript, bus
  <1>2. CASE Deliver(e, u)
    <2>1. Handled(v)' = IF e = DidCreated /\ u = v THEN 1 ELSE 0
      BY <1>2 DEF Deliver, Handled, Task
    <2>2. Queued(v)' = IF e = DidCreated /\ u = v THEN Queued(v) - 1 ELSE Queued(v)
      BY <1>2 DEF Deliver
    <2>3. QED
      BY <1>1, <2>1, <2>2
  <1>3. CASE PostDid(u) \/ CheckUser(u) \/ CreateRaises(u)
    <2>1. Handled(v)' = 0 /\ Queued(v)' = Queued(v)
      BY <1>3 DEF PostDid, CheckUser, CreateRaises, Creating, Handled, Queued, Task, Idle,
                  DidCreated, UserCreated, bus, TypeOK, Tasks
    <2>2. QED
      BY <1>1, <2>1
  <1>4. CASE ReadRow(u) \/ IsActive(u) \/ Save(u)
    <2>1. Queued(v)' = Queued(v)
      BY <1>4 DEF ReadRow, IsActive, Save, Queued, bus
    <2>2. Handled(v)' \in {0, Handled(v)}
      BY <1>4 DEF ReadRow, IsActive, Save, Anchoring, Handled, Task, Idle, DidCreated
    <2>3. QED
      BY <1>1, <2>1, <2>2
  <1>5. CASE RegisterOnChain(u) \/ AnchorRaises(u)
    <2>1. loop.kind = DidCreated /\ loop.user = u
      BY <1>5 DEF RegisterOnChain, AnchorRaises, Anchoring, Task
    <2>2. Handled(v) = IF u = v THEN 1 ELSE 0
      BY <2>1 DEF Handled
    <2>3. \/ Queued(v)' = Queued(v) /\ Handled(v)' = Handled(v)
          \/ queue' = More(queue, DidCreated, u) /\ Handled(v)' = 0
      BY <1>5, <2>1 DEF RegisterOnChain, AnchorRaises, Queued, Handled, Task, Idle, DidCreated
    <2>4. QED
      BY <1>1, <2>2, <2>3
  <1>6. QED
    BY <1>2, <1>3, <1>4, <1>5

\* A crash gives back what was being handled and forgets what was not published.
LEMMA CrashMoves ==
    ASSUME TypeOK, NEW v \in Users, Crash
    PROVE  NoneAdded(v)
  <1>1. Held(v)' = 0 /\ Handled(v)' = 0 /\ ByScript(v)' = ByScript(v)
    BY DEF Crash, Held, Handled, ByScript, Idle, DidCreated
  <1>2. Waiting(v)' = 0
    BY CountsTyped DEF Crash, Waiting
  <1>3. Queued(v)' = Queued(v) + Handled(v)
    BY CountsTyped DEF Crash, Queued, Handled, UserCreated, DidCreated, TypeOK
  <1>4. QED
    BY <1>1, <1>2, <1>3, AnnouncementsAreCounted DEF NoneAdded

\* The row comes with its announcement, and without a row there is none.
LEMMA InsertAnnounces ==
    ASSUME TypeOK, NEW v \in Users, NEW u \in Users, InsertRow(u)
    PROVE  NoneAdded(v) \/ OneAddedForItsRow(v)
  <1> USE CountersOf, AnnouncementsAreCounted, CountsTyped DEF NoneAdded, OneAddedForItsRow
  <1>1. Queued(v)' = Queued(v) /\ ByScript(v)' = ByScript(v)
    BY DEF InsertRow, Queued, ByScript
  <1>2. Handled(v)' = 0
    BY DEF InsertRow, Handled, Idle, DidCreated
  <1>3. CASE dids[u] > 0
    <2>1. Waiting(v)' = Waiting(v) /\ Held(v)' = Held(v)
      BY <1>3 DEF InsertRow, InsertDid, Waiting, Held
    <2>2. QED
      BY <1>1, <1>2, <2>1
  <1>4. CASE InsertDid(u) /\ ~(dids[u] > 0)
    <2>1. u = v => dids[v] = 0 /\ dids'[v] = 1
      BY <1>4 DEF InsertDid, TypeOK
    <2>2. \/ Waiting(v)' = (IF u = v THEN Waiting(v) + 1 ELSE Waiting(v)) /\ Held(v)' = Held(v)
          \/ Waiting(v)' = Waiting(v) /\ Held(v)' = IF u = v THEN 1 ELSE Held(v)
      <3>1. CASE outbox' = More(outbox, DidCreated, u) /\ UNCHANGED holding
        BY <3>1 DEF Held
      <3>2. CASE holding' = holding \cup {u} /\ UNCHANGED outbox
        BY <3>2 DEF Held, Waiting
      <3>3. QED
        BY <1>4, <3>1, <3>2 DEF InsertRow
    <2>3. QED
      BY <1>1, <1>2, <2>1, <2>2
  <1>5. QED
    BY <1>3, <1>4 DEF InsertRow

LEMMA SeedAnnounces ==
    ASSUME TypeOK, NEW v \in Users, SeedNext
    PROVE  NoneAdded(v) \/ OneAddedForItsRow(v)
  <1> USE CountersOf, AnnouncementsAreCounted, CountsTyped, DidAssumption
      DEF NoneAdded, OneAddedForItsRow
  <1>1. Waiting(v)' = Waiting(v) /\ Held(v)' = Held(v) /\ Handled(v)' = Handled(v)
    BY DEF SeedNext, SeedRun, SeedUser, SeedCheckDid, SeedInsert, SeedPublish, SeedAnchor,
           SeedIsActive, SeedRegister, SeedSave, SeedAuthorize, SeedFails, SeedOnly, bus,
           Waiting, Held, Handled
  <1>2. CASE SeedInsert
    <2>1. Queued(v)' = Queued(v)
      BY <1>2 DEF SeedInsert, SeedOnly, bus, Queued
    <2>2. CASE InsertDid(Super) /\ SeedTo("publish")
      <3>1. v = Super => dids[v] = 0 /\ dids'[v] = 1
        BY <2>2 DEF InsertDid, TypeOK
      <3>2. ByScript(v)' = IF v = Super THEN 1 ELSE 0
        BY <2>2 DEF SeedTo, ByScript
      <3>3. v # Super => ByScript(v) = 0
        BY DEF ByScript
      <3>4. QED
        BY <1>1, <2>1, <3>1, <3>2, <3>3
    <2>3. CASE SeedTo("failed")
      <3>1. ByScript(v)' = 0
        BY <2>3 DEF SeedTo, ByScript
      <3>2. QED
        BY <1>1, <2>1, <3>1
    <2>4. QED
      BY <1>2, <2>2, <2>3 DEF SeedInsert
  <1>3. CASE SeedPublish
    <2>1. ByScript(v) = (IF v = Super THEN 1 ELSE 0) /\ ByScript(v)' = 0
      BY <1>3 DEF SeedPublish, SeedTo, ByScript
    <2>2. \/ Queued(v)' = IF Super = v THEN Queued(v) + 1 ELSE Queued(v)
          \/ Queued(v)' = Queued(v)
      BY <1>3 DEF SeedPublish, Queued
    <2>3. QED
      BY <1>1, <2>1, <2>2
  <1>4. CASE SeedRun \/ SeedUser \/ SeedCheckDid \/ SeedAnchor \/ SeedIsActive
             \/ SeedRegister \/ SeedSave \/ SeedAuthorize \/ SeedFails
    <2>1. Queued(v)' = Queued(v)
      BY <1>4 DEF SeedRun, SeedUser, SeedCheckDid, SeedAnchor, SeedIsActive, SeedRegister,
                  SeedSave, SeedAuthorize, SeedFails, SeedOnly, bus, Queued
    <2>2. ByScript(v)' = 0
      BY <1>4 DEF SeedRun, SeedUser, SeedCheckDid, SeedAnchor, SeedIsActive, SeedRegister,
                  SeedSave, SeedAuthorize, SeedFails, SeedTo, ByScript
    <2>3. QED
      BY <1>1, <2>1, <2>2
  <1>5. QED
    BY <1>2, <1>3, <1>4 DEF SeedNext

LEMMA AnnouncementsStep ==
    ASSUME TypeOK, [Next]_vars, NEW v \in Users
    PROVE  NoneAdded(v) \/ OneAddedForItsRow(v)
  <1>1. CASE UNCHANGED <<queue, outbox, holding, loop, seed>>
    <2>1. /\ Queued(v)' = Queued(v) /\ Waiting(v)' = Waiting(v) /\ Held(v)' = Held(v)
          /\ Handled(v)' = Handled(v) /\ ByScript(v)' = ByScript(v)
      BY <1>1 DEF Queued, Waiting, Held, Handled, ByScript
    <2>2. QED
      BY <2>1, AnnouncementsAreCounted DEF NoneAdded
  <1>2. ASSUME NEW u \in Users, Register(u) PROVE NoneAdded(v)
    <2>1. /\ Queued(v)' = Queued(v) /\ Held(v)' = Held(v) /\ Handled(v)' = Handled(v)
          /\ ByScript(v)' = ByScript(v)
      BY <1>2 DEF Register, Queued, Held, Handled, ByScript
    <2>2. Waiting(v)' = Waiting(v)
      BY <1>2, CountersOf, CountsTyped DEF Register, UserCreated, DidCreated
    <2>3. QED
      BY <2>1, <2>2, AnnouncementsAreCounted DEF NoneAdded
  <1>3. QED
    BY <1>1, <1>2, PublishMoves, HandlerMoves, CrashMoves, InsertAnnounces, SeedAnnounces,
       CountsTyped
       DEF Next, LoopStep, vars, bus, StartDelete, DeleteDids, DeleteUser, DeleteRaises,
           MineLate

\* A user that is not being deleted after a step, and has not been, was not
\* before it, and keeps the row.
LEMMA UntouchedStays ==
    ASSUME IInv, [Next]_vars, NEW v \in Users,
           deleting'[v] = "no", users'[v] # "deleted"
    PROVE  deleting[v] = "no" /\ users[v] # "deleted" /\ dids'[v] >= dids[v]
  <1> USE DidAssumption DEF IInv, TypeOK
  <1>1. users[v] # "deleted"
    <2>1. CASE \E u \in Users : Register(u) \/ DeleteUser(u)
      BY <2>1 DEF Register, DeleteUser
    <2>2. CASE SeedUser
      BY <2>2 DEF SeedUser, StepsImplyState
    <2>3. CASE UNCHANGED users
      BY <2>3
    <2>4. QED
      BY <2>1, <2>2, <2>3, OnlyUserChanges
  <1>2. deleting[v] = "no"
    <2>1. CASE \E u \in Users : StartDelete(u) \/ DeleteDids(u) \/ DeleteRaises(u)
      BY <2>1 DEF StartDelete, DeleteDids, DeleteRaises
    <2>2. CASE \E u \in Users : DeleteUser(u)
      BY <2>2 DEF DeleteUser
    <2>3. CASE Crash \/ UNCHANGED deleting
      BY <2>3 DEF Crash
    <2>4. QED
      BY <2>1, <2>2, <2>3, OnlyDeletingChanges
  <1>3. dids'[v] >= dids[v]
    <2>0. dids[v] \in {0, 1}
      OBVIOUS
    <2>1. CASE \E u \in Users : InsertRow(u)
      <3>1. PICK u \in Users : InsertDid(u) \/ UNCHANGED tables
        BY <2>1 DEF InsertRow
      <3>2. CASE InsertDid(u)
        BY <2>0, <3>2 DEF InsertDid
      <3>3. CASE UNCHANGED tables
        BY <2>0, <3>3 DEF tables
      <3>4. QED
        BY <3>1, <3>2, <3>3
    <2>2. CASE \E u \in Users : Save(u)
      BY <2>2 DEF Save, SaveAnchor
    <2>3. CASE \E u \in Users : DeleteDids(u)
      <3>1. PICK u \in Users : DeleteDids(u)
        BY <2>3
      <3>2. u # v /\ dids' = [dids EXCEPT ![u] = 0]
        BY <1>2, <3>1 DEF DeleteDids
      <3>3. dids'[v] = dids[v]
        BY <3>2
      <3>4. QED
        BY <2>0, <3>3
    <2>4. CASE SeedInsert
      BY <2>4 DEF SeedInsert, InsertDid, tables
    <2>5. CASE SeedSave
      BY <2>5 DEF SeedSave, SaveAnchor
    <2>6. CASE UNCHANGED <<dids, txHash>>
      BY <2>6
    <2>7. QED
      BY <2>1, <2>2, <2>3, <2>4, <2>5, <2>6, OnlyTableChanges DEF TableChanges
  <1>4. QED
    BY <1>1, <1>2, <1>3

LEMMA AnnounceStep == IInv /\ [Next]_vars => AnnouncedAtMostOnce'
  <1> SUFFICES ASSUME IInv, [Next]_vars, NEW v \in Users,
                      deleting'[v] = "no", users'[v] # "deleted"
               PROVE  Announcements(v)' <= dids'[v]
    BY DEF AnnouncedAtMostOnce
  <1>1. TypeOK /\ TypeOK'
    BY TypeOKStep DEF IInv
  <1>2. Announcements(v) <= dids[v] /\ dids'[v] >= dids[v]
    BY UntouchedStays DEF IInv, AnnouncedAtMostOnce
  <1>3. /\ Announcements(v) = Queued(v) + Waiting(v) + Held(v) + Handled(v) + ByScript(v)
        /\ Queued(v) \in Nat /\ Waiting(v) \in Nat
        /\ Held(v) \in {0, 1} /\ Handled(v) \in {0, 1} /\ ByScript(v) \in {0, 1}
    BY <1>1, AnnouncementsAreCounted
  <1>4. /\ Announcements(v)' = Queued(v)' + Waiting(v)' + Held(v)' + Handled(v)' + ByScript(v)'
        /\ Queued(v)' \in Nat /\ Waiting(v)' \in Nat
        /\ Held(v)' \in {0, 1} /\ Handled(v)' \in {0, 1} /\ ByScript(v)' \in {0, 1}
    BY <1>1, CountsTyped
       DEF TypeOK, Announcements, Queued, Waiting, Held, Handled, ByScript
  <1>5. dids[v] \in {0, 1} /\ dids'[v] \in {0, 1}
    BY <1>1 DEF TypeOK
  <1>6. CASE NoneAdded(v)
    BY <1>2, <1>3, <1>4, <1>5, <1>6 DEF NoneAdded
  <1>7. CASE OneAddedForItsRow(v)
    BY <1>2, <1>3, <1>4, <1>5, <1>7 DEF OneAddedForItsRow
  <1>8. QED
    BY <1>1, <1>6, <1>7, AnnouncementsStep

LEMMA IInvStep == IInv /\ [Next]_vars => IInv'
  BY TypeOKStep, StepsStep, SeedStep, TableStep, DidStep, UserStep, AnnounceStep DEF IInv

----------------------------------------------------------------------------
\* The theorems.

\* The inductive invariant holds in every run.
THEOREM DidInvariant == Spec => []IInv
  BY InitIInv, IInvStep, PTL DEF Spec

\* However registration, POST /dids, the seed script, redelivery and crashes
\* interleave, a DID that no deletion touches has one announcement at most.
THEOREM OneAnnouncement == Spec => []AnnouncedAtMostOnce
  <1>1. IInv => AnnouncedAtMostOnce
    BY DEF IInv
  <1>2. QED
    BY <1>1, DidInvariant, PTL

\* A row that shows a transaction is a row of a DID on the contract.
THEOREM DidAnchorsAreTruthful == Spec => []AnchoredRowIsOnChain
  <1>1. IInv => AnchoredRowIsOnChain
    BY DEF IInv
  <1>2. QED
    BY <1>1, DidInvariant, PTL

\* An unanchored DID's did.created is on its way or was lost.
THEOREM UnanchoredDidIsPending == Spec => []DidStaysPending
  <1>1. IInv => DidStaysPending
    BY DEF IInv
  <1>2. QED
    BY <1>1, DidInvariant, PTL

\* A user without a DID has its user.created on its way, lost it, or is being
\* deleted.
THEOREM UserWithoutDidIsPending == Spec => []UserStaysPending
  <1>1. IInv => UserStaysPending
    BY DEF IInv
  <1>2. QED
    BY <1>1, DidInvariant, PTL

\* The seed script reports success only when its promise holds.
THEOREM SeedKeepsItsPromise == Spec => []SeedDoneMeansReady
  <1>1. IInv => SeedDoneMeansReady
    BY DEF IInv, SeedImpliesState, SeedDoneMeansReady, SeedSteps
  <1>2. QED
    BY <1>1, DidInvariant, PTL

=============================================================================
