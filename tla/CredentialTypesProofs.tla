------------------------ MODULE CredentialTypesProofs ------------------------
(***************************************************************************)
(* Theorems about CredentialTypes, for every set of types, templates and   *)
(* worker threads, with or without a registry, and every set of faults.    *)
(***************************************************************************)
EXTENDS CredentialTypes, TLAPS

\* A job that goes on keeps what it is about; other jobs are not touched.
Moves(w, s) ==
    /\ worker[w] \in Jobs
    /\ worker' = [worker EXCEPT ![w] = [worker[w] EXCEPT !.step = s]]

LEMMA GoToMoves ==
    ASSUME TypeOK, NEW w \in Workers, worker[w] # Idle, NEW s \in Steps, GoTo(w, s)
    PROVE  /\ Moves(w, s)
           /\ worker' \in [Workers -> Jobs \cup {Idle}]
           /\ worker'[w].step = s /\ worker'[w].op = worker[w].op
           /\ worker'[w].type = worker[w].type /\ worker'[w].template = worker[w].template
           /\ worker'[w].seen = worker[w].seen /\ worker'[w] # Idle
           /\ \A v \in Workers \ {w} : worker'[v] = worker[v]
  <1>1. worker[w] \in Jobs
    BY DEF TypeOK
  <1>2. worker' = [worker EXCEPT ![w] = [worker[w] EXCEPT !.step = s]]
    BY DEF GoTo, TypeOK
  <1>3. [worker[w] EXCEPT !.step = s] \in Jobs
    BY <1>1 DEF Jobs
  <1>4. \A j \in Jobs : j # Idle
    BY DEF Jobs, Idle
  <1>5. QED
    BY <1>1, <1>2, <1>3, <1>4 DEF Moves, TypeOK, Jobs

LEMMA FinishEnds ==
    ASSUME TypeOK, NEW w \in Workers, Finish(w)
    PROVE  /\ worker' \in [Workers -> Jobs \cup {Idle}]
           /\ worker'[w] = Idle
           /\ \A v \in Workers \ {w} : worker'[v] = worker[v]
  BY DEF Finish, TypeOK

LEMMA StartBegins ==
    ASSUME TypeOK, NEW w \in Workers, NEW job \in Jobs, Start(w, job)
    PROVE  /\ worker' \in [Workers -> Jobs \cup {Idle}]
           /\ worker'[w] = job
           /\ \A v \in Workers \ {w} : worker'[v] = worker[v]
  BY DEF Start, TypeOK

LEMMA RowTyped ==
    ASSUME NEW x \in Templates, NEW h \in Templates \cup {NoTemplate}, NEW a \in Anchors
    PROVE  /\ Row(x, h, a) \in Rows \ {NoRow}
           /\ Row(x, h, a).template = x /\ Row(x, h, a).hash = h /\ Row(x, h, a).anchor = a
  BY TypesAssumption DEF Row, Rows, NoRow

LEMMA InitIInv == Init => IInv
  <1> SUFFICES ASSUME Init PROVE IInv
    OBVIOUS
  <1>1. \A x \in Templates : Row(x, NoTemplate, "none") \in Rows \ {NoRow}
                             /\ Row(x, NoTemplate, "none").anchor = "none"
                             /\ Row(x, NoTemplate, "none").hash = NoTemplate
    BY RowTyped DEF Anchors
  <1>2. TypeOK /\ HashIsOwn /\ \A t \in Types : row[t].anchor = "none"
    BY <1>1 DEF Init, TypeOK, HashIsOwn, NoRow, Rows
  <1>3. QED
    BY <1>2 DEF Init, IInv, ChainAgreesWithTable, AnchoredTypeIsOnChain,
            ChainOnlyTypeIsExcused, JobsFollowTable, JobsFollowChain, PendingFollowsTable

----------------------------------------------------------------------------
\* The jobs' part of the invariant, job by job.

JobTable(w) ==
    worker[w] # Idle =>
        LET j == worker[w] IN
        /\ j.op # "create" => Configured /\ Exists(j.type) /\ j.template = row[j.type].template
        /\ j.op = "create" /\ Configured /\ Exists(j.type) => chain[j.type] # NoTemplate
        /\ j.op = "create" /\ ~Configured => j.step = "write"
        /\ j.step \in {"peek", "copy"} => j.op # "create"

JobChain(w) ==
    worker[w] # Idle =>
        LET j == worker[w] IN
        /\ j.step = "write" /\ Configured => chain[j.type] = j.template
        /\ j.step = "copy" \/ j.seen # "none" => chain[j.type] # NoTemplate
        /\ j.step = "receipt" => pending = [by |-> w, type |-> j.type, template |-> j.template]

LEMMA JobByJob ==
    /\ JobsFollowTable <=> \A w \in Workers : JobTable(w)
    /\ JobsFollowChain <=> \A w \in Workers : JobChain(w)
  BY DEF JobsFollowTable, JobsFollowChain, JobTable, JobChain

LEMMA JobTyped ==
    ASSUME TypeOK, NEW w \in Workers, worker[w] # Idle
    PROVE  /\ worker[w] \in Jobs
           /\ worker[w].type \in Types /\ worker[w].template \in Templates
           /\ worker[w].op \in Ops /\ worker[w].step \in Steps /\ worker[w].seen \in Anchors
  BY DEF TypeOK, Jobs

\* A step of one worker that changes nothing else.  A creation whose transaction
\* is out may not end unremembered, unless the row is there.
LEMMA WorkerStep ==
    ASSUME IInv, NEW w \in Workers, UNCHANGED <<row, chain, pending>>,
           gaveUp \subseteq gaveUp', gaveUp' \subseteq Types,
           worker' \in [Workers -> Jobs \cup {Idle}],
           \A v \in Workers \ {w} : worker'[v] = worker[v],
           JobTable(w)', JobChain(w)',
           \/ worker[w] = Idle \/ worker[w].op # "create"
           \/ worker[w].step \notin {"receipt", "write"}
           \/ worker[w].step = "write" /\ Exists(worker[w].type)
           \/ worker[w].type \in gaveUp'
    PROVE  IInv'
  <1>1. TypeOK'
    BY DEF IInv, TypeOK
  <1>2. ChainAgreesWithTable' /\ AnchoredTypeIsOnChain' /\ HashIsOwn'
    BY DEF IInv, ChainAgreesWithTable, AnchoredTypeIsOnChain, HashIsOwn, Exists
  <1>3. ASSUME NEW v \in Workers PROVE JobTable(v)' /\ JobChain(v)'
    <2>1. CASE v = w
      BY <2>1
    <2>2. CASE v # w
      BY <2>2, JobByJob DEF IInv, JobTable, JobChain, Exists
    <2>3. QED
      BY <2>1, <2>2
  <1>4. JobsFollowTable' /\ JobsFollowChain'
    BY <1>3 DEF JobsFollowTable, JobsFollowChain, JobTable, JobChain
  <1>5. ASSUME NEW t \in Types, chain'[t] # NoTemplate, ~Exists(t)'
        PROVE  InsertPending(t)' \/ t \in gaveUp'
    <2>1. chain[t] # NoTemplate /\ ~Exists(t)
      BY <1>5 DEF Exists
    <2>2. CASE t \in gaveUp
      BY <2>2
    <2>3. CASE InsertPending(t)
      <3>1. PICK v \in Workers : /\ At(v, "write") /\ worker[v].op = "create"
                                 /\ worker[v].type = t
        BY <2>3 DEF InsertPending
      <3>2. CASE v = w
        BY <2>1, <3>1, <3>2 DEF At
      <3>3. CASE v # w
        BY <3>1, <3>3 DEF At, InsertPending
      <3>4. QED
        BY <3>2, <3>3
    <2>4. QED
      BY <2>1, <2>2, <2>3 DEF IInv, ChainOnlyTypeIsExcused
  <1>6. PendingFollowsTable'
    <2>1. ~Configured => \A t \in Types : chain'[t] = NoTemplate
      BY DEF IInv, PendingFollowsTable
    <2>2. CASE pending = NoTx
      BY <2>1, <2>2 DEF PendingFollowsTable
    <2>3. CASE pending # NoTx
      <3> DEFINE p == pending.by
                 t == pending.type
      <3>1. p \in Workers /\ t \in Types
        BY <2>3 DEF IInv, TypeOK, Txs
      <3>2. Configured /\ (Exists(t) => chain[t] # NoTemplate \/ pending.template = row[t].template)
        BY <2>3 DEF IInv, PendingFollowsTable
      <3>3. ~Exists(t) /\ chain[t] = NoTemplate
               => (At(p, "receipt") /\ worker[p].op = "create") \/ t \in gaveUp
        BY <2>3 DEF IInv, PendingFollowsTable
      <3>4. At(p, "receipt") => worker[p].type = t
        BY <3>1, JobByJob DEF IInv, JobChain, At
      <3>5. At(p, "receipt") /\ worker[p].op = "create"
               => (worker'[p] # Idle /\ worker'[p].step = "receipt" /\ worker'[p].op = "create")
                  \/ t \in gaveUp'
        BY <3>1, <3>4 DEF At
      <3>6. ~Exists(t) /\ chain[t] = NoTemplate
               => (worker'[p] # Idle /\ worker'[p].step = "receipt" /\ worker'[p].op = "create")
                  \/ t \in gaveUp'
        BY <3>3, <3>5
      <3>7. QED
        BY <2>1, <3>2, <3>6 DEF PendingFollowsTable, Exists, At
    <2>4. QED
      BY <2>2, <2>3
  <1>7. QED
    BY <1>1, <1>2, <1>4, <1>5, <1>6 DEF IInv, ChainOnlyTypeIsExcused

----------------------------------------------------------------------------
\* The steps that change only what a job is at.

LEMMA ChainTyped == TypeOK => \A t \in Types : chain[t] \in Templates \cup {NoTemplate}
  BY DEF TypeOK

LEMMA CreateStep ==
    ASSUME IInv, NEW w \in Workers, NEW t \in Types, NEW x \in Templates, Create(w, t, x)
    PROVE  IInv'
  <1> DEFINE job == [op |-> "create", type |-> t, template |-> x, seen |-> "none",
                     step |-> IF Configured THEN "exists" ELSE "write"]
  <1>1. job \in Jobs /\ job # Idle
    BY DEF Jobs, Ops, Anchors, Steps, Idle
  <1>2. /\ worker' \in [Workers -> Jobs \cup {Idle}] /\ worker'[w] = job
        /\ \A v \in Workers \ {w} : worker'[v] = worker[v]
    BY <1>1, StartBegins DEF Create, IInv
  <1>3. UNCHANGED <<row, chain, pending, gaveUp>> /\ ~Exists(t) /\ worker[w] = Idle
    BY DEF Create
  <1>4. JobTable(w)' /\ JobChain(w)'
    BY <1>2, <1>3, TypesAssumption DEF JobTable, JobChain, Exists
  <1>5. QED
    BY <1>2, <1>3, <1>4, WorkerStep DEF IInv, TypeOK

LEMMA AnchorStep ==
    ASSUME IInv, NEW w \in Workers, NEW t \in Types, NEW op \in {"anchor", "seed"},
           Anchor(w, t, op)
    PROVE  IInv'
  <1> DEFINE job == [op |-> op, type |-> t, template |-> row[t].template,
                     seen |-> row[t].anchor, step |-> "peek"]
  <1>1. row[t] \in [template : Templates, hash : Templates \cup {NoTemplate}, anchor : Anchors]
    BY DEF IInv, TypeOK, Rows, Anchor, Exists
  <1>2. job \in Jobs
    BY <1>1 DEF Jobs, Ops, Steps
  <1>3. /\ worker' \in [Workers -> Jobs \cup {Idle}] /\ worker'[w] = job
        /\ \A v \in Workers \ {w} : worker'[v] = worker[v]
    BY <1>2, StartBegins DEF Anchor, IInv
  <1>4. /\ UNCHANGED <<row, chain, pending, gaveUp>> /\ Exists(t) /\ Configured
        /\ worker[w] = Idle
    BY DEF Anchor
  <1>5. JobTable(w)' /\ JobChain(w)'
    BY <1>3, <1>4 DEF JobTable, JobChain, Exists, IInv, AnchoredTypeIsOnChain
  <1>6. QED
    BY <1>3, <1>4, <1>5, WorkerStep DEF IInv, TypeOK

LEMMA LookStep ==
    ASSUME IInv, NEW w \in Workers, Peek(w) \/ CheckExists(w)
    PROVE  IInv'
  <1>0. /\ UNCHANGED <<row, chain, pending, gaveUp>> /\ worker[w] # Idle
        /\ worker[w].step \in {"peek", "exists"} /\ TypeOK /\ gaveUp \subseteq Types
        /\ JobTable(w) /\ JobChain(w)
    BY JobByJob DEF Peek, CheckExists, At, IInv, TypeOK
  <1>1. CASE Finish(w)
    BY <1>0, <1>1, FinishEnds, WorkerStep DEF JobTable, JobChain
  <1>2. CASE /\ GoTo(w, "copy") /\ chain[worker[w].type] # NoTemplate
             /\ worker[w].step = "peek"
    <2>1. JobTable(w)' /\ JobChain(w)'
      BY <1>0, <1>2, GoToMoves DEF JobTable, JobChain, Steps, Exists
    <2>2. QED
      BY <1>0, <1>2, <2>1, GoToMoves, WorkerStep DEF Steps
  <1>3. CASE \E s \in {"exists", "send"} : /\ GoTo(w, s)
                                           /\ s = "exists" => worker[w].step = "peek"
    <2>1. PICK s \in {"exists", "send"} : GoTo(w, s)
      BY <1>3
    <2>2. JobTable(w)' /\ JobChain(w)'
      BY <1>0, <2>1, GoToMoves DEF JobTable, JobChain, Steps, Exists
    <2>3. QED
      BY <1>0, <2>1, <2>2, GoToMoves, WorkerStep DEF Steps
  <1>4. QED
    BY <1>0, <1>1, <1>2, <1>3, JobTyped DEF Peek, CheckExists, SaysExists, At

\* A job that ends without writing, with a creator that is remembered.
LEMMA EndStep ==
    ASSUME IInv, NEW w \in Workers, TimeOut(w) \/ Abort(w)
    PROVE  IInv'
  <1>1. /\ UNCHANGED <<row, chain, pending>> /\ worker[w] # Idle /\ Finish(w)
        /\ worker[w].step \in {"receipt", "write"} => GiveUp(w)
        /\ GiveUp(w) \/ UNCHANGED gaveUp
    BY DEF TimeOut, Abort, At
  <1>2. worker[w].type \in Types /\ gaveUp \subseteq Types /\ TypeOK
    BY <1>1, JobTyped DEF IInv, TypeOK
  <1>3. /\ gaveUp \subseteq gaveUp' /\ gaveUp' \subseteq Types
        /\ \/ worker[w].op # "create" \/ worker[w].step \notin {"receipt", "write"}
           \/ worker[w].type \in gaveUp'
    BY <1>1, <1>2 DEF GiveUp
  <1>4. JobTable(w)' /\ JobChain(w)'
    BY <1>1, <1>2, FinishEnds DEF JobTable, JobChain
  <1>5. QED
    BY <1>1, <1>2, <1>3, <1>4, FinishEnds, WorkerStep

----------------------------------------------------------------------------
\* The steps that write the table.

\* A job ends with a row for its type, new or updated, that agrees with the
\* chain where the chain has the type, and anchored only if it has.
LEMMA WriteStep ==
    ASSUME IInv, NEW w \in Workers, worker[w] # Idle, Finish(w),
           NEW r \in Rows \ {NoRow},
           row' = [row EXCEPT ![worker[w].type] = r],
           UNCHANGED <<chain, pending, gaveUp>>,
           Exists(worker[w].type) => r.template = row[worker[w].type].template,
           r.hash \in {NoTemplate, r.template},
           chain[worker[w].type] # NoTemplate => r.template = chain[worker[w].type],
           Configured => chain[worker[w].type] # NoTemplate,
           r.anchor # "none" => chain[worker[w].type] # NoTemplate
    PROVE  IInv'
  <1> DEFINE t == worker[w].type
  <1>0. TypeOK /\ t \in Types /\ (\A v \in Workers : JobTable(v) /\ JobChain(v))
    BY JobTyped, JobByJob DEF IInv
  <1>1. /\ row' \in [Types -> Rows] /\ row'[t] = r
        /\ \A u \in Types \ {t} : row'[u] = row[u]
    BY <1>0 DEF TypeOK
  <1>2. TypeOK'
    BY <1>0, <1>1, FinishEnds DEF TypeOK
  <1>3. ChainAgreesWithTable'
    <2> SUFFICES ASSUME NEW u \in Types, Exists(u)', chain'[u] # NoTemplate
                 PROVE  /\ chain'[u] = row'[u].template
                        /\ row'[u].hash \in {NoTemplate, chain'[u]}
      BY DEF ChainAgreesWithTable
    <2>1. CASE u = t
      BY <1>1, <2>1
    <2>2. CASE u # t
      BY <1>1, <2>2 DEF IInv, ChainAgreesWithTable, Exists
    <2>3. QED
      BY <2>1, <2>2
  <1>4. AnchoredTypeIsOnChain' /\ HashIsOwn'
    BY <1>1 DEF IInv, AnchoredTypeIsOnChain, HashIsOwn
  <1>5. ChainOnlyTypeIsExcused'
    <2> SUFFICES ASSUME NEW u \in Types, chain'[u] # NoTemplate, ~Exists(u)'
                 PROVE  InsertPending(u)' \/ u \in gaveUp'
      BY DEF ChainOnlyTypeIsExcused
    <2>1. u # t /\ ~Exists(u)
      BY <1>1 DEF Exists
    <2>2. InsertPending(u) \/ u \in gaveUp
      BY <2>1 DEF IInv, ChainOnlyTypeIsExcused
    <2>3. InsertPending(u) => InsertPending(u)'
      BY <1>0, <2>1, FinishEnds DEF InsertPending, At
    <2>4. QED
      BY <2>2, <2>3
  <1>6. ASSUME NEW v \in Workers PROVE JobTable(v)' /\ JobChain(v)'
    <2>1. CASE v = w
      BY <1>0, <2>1, FinishEnds DEF JobTable, JobChain
    <2>2. CASE v # w
      <3>1. worker'[v] = worker[v]
        BY <1>0, <2>2, FinishEnds
      <3>2. worker[v] # Idle => worker[v].type \in Types
        BY <1>0, JobTyped
      <3>3. JobChain(v)'
        BY <1>0, <3>1 DEF JobChain
      <3>4. JobTable(v)'
        BY <1>0, <1>1, <3>1, <3>2 DEF JobTable, Exists
      <3>5. QED
        BY <3>3, <3>4
    <2>3. QED
      BY <2>1, <2>2
  <1>7. PendingFollowsTable'
    <2>1. CASE pending = NoTx
      BY <2>1 DEF IInv, PendingFollowsTable
    <2>2. CASE pending # NoTx
      <3> DEFINE p == pending.by
                 u == pending.type
      <3>1. p \in Workers /\ u \in Types
        BY <1>0, <2>2 DEF TypeOK, Txs
      <3>2. Configured /\ (Exists(u) => chain[u] # NoTemplate \/ pending.template = row[u].template)
        BY <2>2 DEF IInv, PendingFollowsTable
      <3>3. u = t => chain[u] # NoTemplate
        BY <3>2
      <3>4. ~Exists(u) /\ chain[u] = NoTemplate
               => (At(p, "receipt") /\ worker[p].op = "create") \/ u \in gaveUp
        BY <2>2 DEF IInv, PendingFollowsTable
      <3>5. At(p, "receipt") => worker[p].type = u
        BY <1>0, <3>1 DEF JobChain, At
      <3>6. u # t => ((At(p, "receipt") /\ worker[p].op = "create")
                        => (worker'[p] # Idle /\ worker'[p].step = "receipt"
                            /\ worker'[p].op = "create"))
        BY <1>0, <3>1, <3>5, FinishEnds DEF At
      <3>7. QED
        BY <1>1, <3>1, <3>2, <3>3, <3>4, <3>6 DEF PendingFollowsTable, Exists, At,
           IInv
    <2>3. QED
      BY <2>1, <2>2
  <1>8. QED
    BY <1>2, <1>3, <1>4, <1>5, <1>6, <1>7, JobByJob
       DEF IInv, JobsFollowTable, JobsFollowChain, JobTable, JobChain

\* What an update writes agrees with the chain, which has the type.
LEMMA UpdateStep ==
    ASSUME IInv, NEW w \in Workers, worker[w] # Idle, worker[w].op # "create", Finish(w),
           chain[worker[w].type] # NoTemplate,
           NEW h \in {worker[w].template, row[worker[w].type].hash, chain[worker[w].type]},
           NEW a \in Anchors,
           row' = [row EXCEPT ![worker[w].type] = [row[worker[w].type] EXCEPT !.hash = h, !.anchor = a]],
           UNCHANGED <<chain, pending, gaveUp>>
    PROVE  IInv'
  <1> DEFINE t == worker[w].type
             r == [row[t] EXCEPT !.hash = h, !.anchor = a]
  <1>1. TypeOK /\ t \in Types /\ JobTable(w) /\ worker[w].template \in Templates
    BY JobTyped, JobByJob DEF IInv
  <1>2. Exists(t) /\ worker[w].template = row[t].template
    BY <1>1 DEF JobTable
  <1>3. chain[t] = row[t].template /\ row[t].hash \in {NoTemplate, chain[t]}
    BY <1>1, <1>2 DEF IInv, ChainAgreesWithTable
  <1>4. h \in {NoTemplate, row[t].template} /\ h \in Templates \cup {NoTemplate}
    BY <1>1, <1>2, <1>3
  <1>5. row[t] \in [template : Templates, hash : Templates \cup {NoTemplate}, anchor : Anchors]
    BY <1>1, <1>2 DEF TypeOK, Rows, Exists
  <1>6. r \in Rows \ {NoRow} /\ r.template = row[t].template /\ r.hash = h
    BY <1>4, <1>5, TypesAssumption DEF Rows, NoRow
  <1>7. QED
    BY <1>3, <1>4, <1>6, WriteStep

LEMMA SaveStep ==
    ASSUME IInv, NEW w \in Workers, Save(w)
    PROVE  IInv'
  <1> DEFINE t == worker[w].type
  <1>1. /\ worker[w] # Idle /\ worker[w].op # "create" /\ worker[w].step = "write"
        /\ Finish(w) /\ UNCHANGED <<chain, pending, gaveUp>>
    BY DEF Save, At
  <1>2. /\ TypeOK /\ t \in Types /\ worker[w].template \in Templates
        /\ JobTable(w) /\ JobChain(w)
    BY <1>1, JobTyped, JobByJob DEF IInv
  <1>3. chain[t] # NoTemplate
    BY <1>1, <1>2, TypesAssumption DEF JobTable, JobChain
  <1>4. row' = [row EXCEPT ![t] = [row[t] EXCEPT !.hash = worker[w].template, !.anchor = "tx"]]
    BY <1>2 DEF Save, TypeOK
  <1>5. QED
    BY <1>1, <1>3, <1>4, UpdateStep DEF Anchors

LEMMA CopyStep ==
    ASSUME IInv, NEW w \in Workers, Copy(w)
    PROVE  IInv'
  <1> DEFINE t == worker[w].type
             h == IF worker[w].op = "anchor" THEN chain[t] ELSE worker[w].template
  <1>1. /\ worker[w] # Idle /\ worker[w].step = "copy"
        /\ Finish(w) /\ UNCHANGED <<chain, pending, gaveUp>>
    BY DEF Copy, At
  <1>2. /\ TypeOK /\ t \in Types /\ worker[w].template \in Templates
        /\ JobTable(w) /\ JobChain(w)
    BY <1>1, JobTyped, JobByJob DEF IInv
  <1>3. chain[t] # NoTemplate /\ worker[w].op # "create" /\ Exists(t)
    BY <1>1, <1>2 DEF JobTable, JobChain
  <1>4. row[t] \in [template : Templates, hash : Templates \cup {NoTemplate}, anchor : Anchors]
    BY <1>2, <1>3 DEF TypeOK, Rows, Exists
  <1>5. CASE worker[w].seen = "none"
    <2>1. row' = [row EXCEPT ![t] = [row[t] EXCEPT !.hash = h, !.anchor = "already-on-chain"]]
      BY <1>2, <1>5 DEF Copy, TypeOK
    <2>2. QED
      BY <1>1, <1>3, <2>1, UpdateStep DEF Anchors
  <1>6. CASE worker[w].seen # "none" /\ worker[w].op = "anchor"
    <2>1. row' = [row EXCEPT ![t] = [row[t] EXCEPT !.hash = chain[t]]]
      BY <1>2, <1>6 DEF Copy, TypeOK
    <2>2. [row[t] EXCEPT !.hash = chain[t]]
             = [row[t] EXCEPT !.hash = chain[t], !.anchor = row[t].anchor]
      BY <1>4
    <2>3. QED
      BY <1>1, <1>3, <1>4, <2>1, <2>2, UpdateStep
  <1>7. CASE worker[w].seen # "none" /\ worker[w].op # "anchor"
    <2>1. UNCHANGED row
      BY <1>7 DEF Copy
    <2>2. JobTable(w)' /\ JobChain(w)'
      BY <1>1, <1>2, FinishEnds DEF JobTable, JobChain
    <2>3. QED
      BY <1>1, <1>2, <1>3, <2>1, <2>2, FinishEnds, WorkerStep DEF TypeOK
  <1>8. QED
    BY <1>5, <1>6, <1>7

LEMMA InsertStep ==
    ASSUME IInv, NEW w \in Workers, Insert(w)
    PROVE  IInv'
  <1> DEFINE t == worker[w].type
             x == worker[w].template
             a == IF Configured THEN "tx" ELSE "none"
  <1>1. /\ worker[w] # Idle /\ worker[w].step = "write" /\ worker[w].op = "create"
        /\ Finish(w) /\ UNCHANGED <<chain, pending, gaveUp>>
    BY DEF Insert, At
  <1>2. /\ TypeOK /\ t \in Types /\ x \in Templates /\ JobTable(w) /\ JobChain(w)
        /\ x # NoTemplate /\ a \in Anchors
    BY <1>1, JobTyped, JobByJob, TypesAssumption DEF IInv, Anchors
  <1>3. /\ Configured => chain[t] = x
        /\ ~Configured => chain[t] = NoTemplate
    BY <1>1, <1>2 DEF JobChain, IInv, PendingFollowsTable
  <1>4. CASE Exists(t)
    <2>1. UNCHANGED row
      BY <1>4 DEF Insert
    <2>2. JobTable(w)' /\ JobChain(w)'
      BY <1>1, <1>2, FinishEnds DEF JobTable, JobChain
    <2>3. QED
      BY <1>1, <1>2, <1>4, <2>1, <2>2, FinishEnds, WorkerStep DEF TypeOK
  <1>5. CASE ~Exists(t)
    <2>1. row' = [row EXCEPT ![t] = Row(x, x, a)]
      BY <1>5 DEF Insert
    <2>2. Row(x, x, a) \in Rows \ {NoRow} /\ Row(x, x, a).template = x
          /\ Row(x, x, a).hash = x /\ Row(x, x, a).anchor = a
      BY <1>2, RowTyped
    <2>3. QED
      BY <1>1, <1>2, <1>3, <1>5, <2>1, <2>2, WriteStep
  <1>6. QED
    BY <1>4, <1>5

----------------------------------------------------------------------------
\* The steps of a transaction.

\* A transaction goes out when none is pending, so no job waits for another.
LEMMA SentStep ==
    ASSUME IInv, NEW w \in Workers, At(w, "send"), pending = NoTx,
           pending' = [by |-> w, type |-> worker[w].type, template |-> worker[w].template],
           GoTo(w, "receipt"), UNCHANGED <<row, chain, gaveUp>>
    PROVE  IInv'
  <1> DEFINE t == worker[w].type
  <1>0. /\ TypeOK /\ worker[w] # Idle /\ worker[w].step = "send" /\ worker[w] \in Jobs
        /\ t \in Types /\ worker[w].template \in Templates
        /\ \A v \in Workers : JobTable(v) /\ JobChain(v)
    BY JobTyped, JobByJob DEF IInv, At
  <1>1. /\ worker' \in [Workers -> Jobs \cup {Idle}] /\ worker'[w] # Idle
        /\ worker'[w].step = "receipt" /\ worker'[w].op = worker[w].op
        /\ worker'[w].type = t /\ worker'[w].template = worker[w].template
        /\ worker'[w].seen = worker[w].seen
        /\ \A v \in Workers \ {w} : worker'[v] = worker[v]
    BY <1>0, GoToMoves DEF Steps
  <1>2. pending' \in Txs /\ pending' # NoTx
    BY <1>0 DEF Txs, NoTx
  <1>3. TypeOK'
    BY <1>0, <1>1, <1>2 DEF TypeOK
  <1>4. ChainAgreesWithTable' /\ AnchoredTypeIsOnChain' /\ HashIsOwn'
    BY DEF IInv, ChainAgreesWithTable, AnchoredTypeIsOnChain, HashIsOwn, Exists
  <1>5. ChainOnlyTypeIsExcused'
    <2> SUFFICES ASSUME NEW u \in Types, chain'[u] # NoTemplate, ~Exists(u)'
                 PROVE  InsertPending(u)' \/ u \in gaveUp'
      BY DEF ChainOnlyTypeIsExcused
    <2>1. InsertPending(u) \/ u \in gaveUp
      BY DEF IInv, ChainOnlyTypeIsExcused, Exists
    <2>2. InsertPending(u) => InsertPending(u)'
      BY <1>0, <1>1 DEF InsertPending, At
    <2>3. QED
      BY <2>1, <2>2
  <1>6. ASSUME NEW v \in Workers PROVE JobTable(v)' /\ JobChain(v)'
    <2>1. CASE v = w
      <3>1. JobTable(w)'
        BY <1>0, <1>1 DEF JobTable, Exists
      <3>2. JobChain(w)'
        BY <1>0, <1>1 DEF JobChain
      <3>3. QED
        BY <2>1, <3>1, <3>2
    <2>2. CASE v # w
      <3>1. worker'[v] = worker[v]
        BY <1>1, <2>2
      <3>2. worker[v] # Idle => worker[v].step # "receipt"
        BY <1>0, <1>2 DEF JobChain, NoTx
      <3>3. QED
        BY <1>0, <3>1, <3>2 DEF JobTable, JobChain, Exists
    <2>3. QED
      BY <2>1, <2>2
  <1>7. PendingFollowsTable'
    <2>1. pending'.by = w /\ pending'.type = t /\ pending'.template = worker[w].template
      OBVIOUS
    <2>2. Configured
      BY <1>0 DEF JobTable, Ops
    <2>3. Exists(t) => chain[t] # NoTemplate \/ worker[w].template = row[t].template
      BY <1>0, <2>2 DEF JobTable
    <2>4. ~Exists(t) => worker[w].op = "create"
      BY <1>0 DEF JobTable
    <2>5. QED
      BY <1>1, <2>1, <2>2, <2>3, <2>4 DEF PendingFollowsTable, At, Exists
  <1>8. QED
    BY <1>3, <1>4, <1>5, <1>6, <1>7, JobByJob
       DEF IInv, JobsFollowTable, JobsFollowChain, JobTable, JobChain

LEMMA SendStep ==
    ASSUME IInv, NEW w \in Workers, Send(w)
    PROVE  IInv'
  <1>1. CASE Finish(w) /\ UNCHANGED pending
    <2>1. /\ UNCHANGED <<row, chain, pending, gaveUp>> /\ worker[w].step = "send"
          /\ TypeOK /\ gaveUp \subseteq Types
      BY <1>1 DEF Send, At, IInv, TypeOK
    <2>2. JobTable(w)' /\ JobChain(w)'
      BY <1>1, <2>1, FinishEnds DEF JobTable, JobChain
    <2>3. QED
      BY <1>1, <2>1, <2>2, FinishEnds, WorkerStep
  <1>2. QED
    BY <1>1, SentStep DEF Send

\* The mined transaction was the only one, so no job waits for it any more; a
\* creator goes on to insert.
LEMMA MineStep ==
    ASSUME IInv, Mine
    PROVE  IInv'
  <1> DEFINE p == pending.by
             t == pending.type
             y == pending.template
  <1>0. /\ pending # NoTx /\ pending' = NoTx /\ UNCHANGED <<row, gaveUp>>
        /\ TypeOK /\ p \in Workers /\ t \in Types /\ y \in Templates /\ y # NoTemplate
        /\ \A v \in Workers : JobTable(v) /\ JobChain(v)
    BY JobByJob, TypesAssumption DEF Mine, IInv, TypeOK, Txs
  <1>1. /\ Exists(t) => chain[t] # NoTemplate \/ y = row[t].template
        /\ ~Exists(t) /\ chain[t] = NoTemplate
             => (At(p, "receipt") /\ worker[p].op = "create") \/ t \in gaveUp
        /\ Configured
    BY <1>0 DEF IInv, PendingFollowsTable
  <1>2. \A v \in Workers : worker[v] # Idle /\ worker[v].step = "receipt"
           => v = p /\ worker[v].type = t /\ worker[v].template = y
    BY <1>0 DEF JobChain
  <1>3. /\ chain' \in [Types -> Templates \cup {NoTemplate}]
        /\ \A u \in Types : chain[u] # NoTemplate => chain'[u] = chain[u]
        /\ \A u \in Types \ {t} : chain'[u] = chain[u]
        /\ chain'[t] = IF chain[t] = NoTemplate THEN y ELSE chain[t]
    BY <1>0 DEF Mine, TypeOK
  <1>4. /\ worker' \in [Workers -> Jobs \cup {Idle}]
        /\ \A v \in Workers \ {p} : worker'[v] = worker[v]
        /\ At(p, "receipt") /\ chain[t] # NoTemplate => worker'[p] = Idle
        /\ At(p, "receipt") /\ chain[t] = NoTemplate
             => /\ worker'[p] # Idle /\ worker'[p].step = "write"
                /\ worker'[p].op = worker[p].op /\ worker'[p].type = worker[p].type
                /\ worker'[p].template = worker[p].template
                /\ worker'[p].seen = worker[p].seen
        /\ ~At(p, "receipt") => worker'[p] = worker[p]
    <2>1. CASE ~At(p, "receipt")
      BY <1>0, <2>1 DEF Mine, TypeOK
    <2>2. CASE At(p, "receipt") /\ chain[t] # NoTemplate
      BY <1>0, <2>2, FinishEnds DEF Mine
    <2>3. CASE At(p, "receipt") /\ chain[t] = NoTemplate
      <3>1. GoTo(p, "write") /\ worker[p] # Idle
        BY <1>0, <2>3 DEF Mine, At
      <3>2. QED
        BY <1>0, <2>3, <3>1, GoToMoves DEF Steps
    <2>4. QED
      BY <2>1, <2>2, <2>3
  <1>5. TypeOK'
    BY <1>0, <1>3, <1>4 DEF TypeOK
  <1>6. ChainAgreesWithTable'
    <2> SUFFICES ASSUME NEW u \in Types, Exists(u)', chain'[u] # NoTemplate
                 PROVE  /\ chain'[u] = row'[u].template
                        /\ row'[u].hash \in {NoTemplate, chain'[u]}
      BY DEF ChainAgreesWithTable
    <2>1. Exists(u) /\ UNCHANGED row
      BY <1>0 DEF Exists
    <2>2. chain'[u] = row[u].template
      BY <1>1, <1>3, <2>1 DEF IInv, ChainAgreesWithTable
    <2>3. QED
      BY <2>1, <2>2 DEF IInv, HashIsOwn
  <1>7. AnchoredTypeIsOnChain' /\ HashIsOwn'
    BY <1>0, <1>3 DEF IInv, AnchoredTypeIsOnChain, HashIsOwn
  <1>8. ChainOnlyTypeIsExcused'
    <2> SUFFICES ASSUME NEW u \in Types, chain'[u] # NoTemplate, ~Exists(u)'
                 PROVE  InsertPending(u)' \/ u \in gaveUp
      BY <1>0 DEF ChainOnlyTypeIsExcused
    <2>0. ~Exists(u)
      BY <1>0 DEF Exists
    <2>1. CASE chain[u] # NoTemplate
      <3>1. InsertPending(u) \/ u \in gaveUp
        BY <2>0, <2>1 DEF IInv, ChainOnlyTypeIsExcused
      <3>2. InsertPending(u) => InsertPending(u)'
        BY <1>4 DEF InsertPending, At
      <3>3. QED
        BY <3>1, <3>2
    <2>2. CASE chain[u] = NoTemplate
      <3>1. u = t
        BY <1>3, <2>2
      <3>2. CASE At(p, "receipt") /\ worker[p].op = "create"
        <4>1. worker[p].type = t
          BY <1>0, <1>2, <3>2 DEF At
        <4>2. worker'[p] # Idle /\ worker'[p].step = "write" /\ worker'[p].op = "create"
              /\ worker'[p].type = u
          BY <1>4, <2>2, <3>1, <3>2, <4>1
        <4>3. QED
          BY <1>0, <4>2 DEF InsertPending, At
      <3>3. QED
        BY <1>1, <2>0, <2>2, <3>1, <3>2
    <2>3. QED
      BY <2>1, <2>2
  <1>9. ASSUME NEW v \in Workers PROVE JobTable(v)' /\ JobChain(v)'
    <2>1. CASE v # p \/ ~At(p, "receipt")
      <3>1. worker'[v] = worker[v] /\ (worker[v] # Idle => worker[v].step # "receipt")
        BY <1>0, <1>2, <1>4, <2>1 DEF At
      <3>2. worker[v] # Idle => worker[v].type \in Types /\ worker[v].template \in Templates
        BY <1>0, JobTyped
      <3>3. JobTable(v)'
        BY <1>0, <1>3, <3>1, <3>2 DEF JobTable, Exists
      <3>4. JobChain(v)'
        BY <1>0, <1>3, <3>1, <3>2, TypesAssumption DEF JobChain
      <3>5. QED
        BY <3>3, <3>4
    <2>2. CASE v = p /\ At(p, "receipt") /\ chain[t] # NoTemplate
      BY <1>4, <2>2 DEF JobTable, JobChain
    <2>3. CASE v = p /\ At(p, "receipt") /\ chain[t] = NoTemplate
      <3>1. worker[v] # Idle /\ worker[v].type = t /\ worker[v].template = y
        BY <1>0, <1>2, <2>3 DEF At
      <3>2. worker'[v].type = t /\ worker'[v].template = y /\ worker'[v].step = "write"
            /\ worker'[v].op = worker[v].op
        BY <1>4, <2>3, <3>1
      <3>3. chain'[t] = y
        BY <1>3, <2>3
      <3>4. JobTable(v)'
        BY <1>0, <1>1, <3>1, <3>2, <3>3 DEF JobTable, Exists
      <3>5. JobChain(v)'
        BY <1>0, <3>2, <3>3 DEF JobChain
      <3>6. QED
        BY <3>4, <3>5
    <2>4. QED
      BY <2>1, <2>2, <2>3
  <1>10. PendingFollowsTable'
    BY <1>0, <1>1 DEF PendingFollowsTable
  <1>11. QED
    BY <1>5, <1>6, <1>7, <1>8, <1>9, <1>10, JobByJob
       DEF IInv, JobsFollowTable, JobsFollowChain, JobTable, JobChain

----------------------------------------------------------------------------
\* The theorems.

LEMMA IInvStep == IInv /\ [Next]_vars => IInv'
  <1> SUFFICES ASSUME IInv, [Next]_vars PROVE IInv'
    OBVIOUS
  <1>1. ASSUME NEW w \in Workers, NEW t \in Types, NEW x \in Templates, Create(w, t, x)
        PROVE  IInv'
    BY <1>1, CreateStep
  <1>2. ASSUME NEW w \in Workers, NEW t \in Types, NEW op \in {"anchor", "seed"},
               Anchor(w, t, op)
        PROVE  IInv'
    BY <1>2, AnchorStep
  <1>3. ASSUME NEW w \in Workers, Peek(w) \/ CheckExists(w) PROVE IInv'
    BY <1>3, LookStep
  <1>4. ASSUME NEW w \in Workers, Copy(w) PROVE IInv'
    BY <1>4, CopyStep
  <1>5. ASSUME NEW w \in Workers, Send(w) PROVE IInv'
    BY <1>5, SendStep
  <1>6. ASSUME NEW w \in Workers, TimeOut(w) \/ Abort(w) PROVE IInv'
    BY <1>6, EndStep
  <1>7. ASSUME NEW w \in Workers, Insert(w) PROVE IInv'
    BY <1>7, InsertStep
  <1>8. ASSUME NEW w \in Workers, Save(w) PROVE IInv'
    BY <1>8, SaveStep
  <1>9. CASE Mine
    BY <1>9, MineStep
  <1>10. CASE UNCHANGED vars
    BY <1>10 DEF vars, IInv, TypeOK, ChainAgreesWithTable, AnchoredTypeIsOnChain,
       ChainOnlyTypeIsExcused, HashIsOwn, JobsFollowTable, JobsFollowChain,
       PendingFollowsTable, InsertPending, Exists, At
  <1>11. QED
    BY <1>1, <1>2, <1>3, <1>4, <1>5, <1>6, <1>7, <1>8, <1>9, <1>10 DEF Next

\* Whatever the requests, the script, the node and the faults do, the table, the
\* chain, the jobs and the pending transaction keep in step.
THEOREM TypesInvariant == Spec => []IInv
  BY InitIInv, IInvStep, PTL DEF Spec

\* Rows, registry, jobs and the transaction in the pool keep their types.
THEOREM TypeCorrectness == Spec => []TypeOK
  <1>1. IInv => TypeOK
    BY DEF IInv
  <1>2. QED
    BY <1>1, TypesInvariant, PTL

\* A type in both places is one template: credential_type/router.py and
\* seed_admin.py never leave the contract with another flag or schema hash.
THEOREM TemplatesAgree == Spec => []ChainAgreesWithTable
  <1>1. IInv => ChainAgreesWithTable
    BY DEF IInv
  <1>2. QED
    BY <1>1, TypesInvariant, PTL

\* A row with a tx_hash has its type on the chain, although type_exists hides
\* every error as False.
THEOREM TypeAnchorsAreTruthful == Spec => []AnchoredTypeIsOnChain
  <1>1. IInv => AnchoredTypeIsOnChain
    BY DEF IInv
  <1>2. QED
    BY <1>1, TypesInvariant, PTL

\* A type is on the chain without a row only while its creator is about to
\* insert it, or after that creator timed out or failed.
THEOREM OnlyFailuresLeaveTypesBehind == Spec => []ChainOnlyTypeIsExcused
  <1>1. IInv => ChainOnlyTypeIsExcused
    BY DEF IInv
  <1>2. QED
    BY <1>1, TypesInvariant, PTL

=============================================================================
