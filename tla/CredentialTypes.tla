--------------------------- MODULE CredentialTypes ---------------------------
(***************************************************************************)
(* Credential type templates: the credential_types table and the contract  *)
(* CredentialTypeRegistry, which POST /credential-types, POST              *)
(* /credential-types/{id}/anchor and seed_admin.py keep in step.           *)
(*                                                                         *)
(* The endpoints are plain functions in FastAPI's worker threads and the   *)
(* script is a process of its own, so any number of them interleave at     *)
(* every database and web3 call.  Creation writes the chain first and the  *)
(* table second; the migration writes the table only and leaves the chain  *)
(* to the other two.                                                       *)
(*                                                                         *)
(* A template stands for the fields and the revocable flag of a request.   *)
(* The registry stores the flag and the hash of the fields, which tell     *)
(* templates apart.                                                        *)
(***************************************************************************)
EXTENDS Naturals

CONSTANTS
    Types,       \* type ids
    Seeded,      \* those the migration inserts
    Templates,   \* what a request may ask for
    NoTemplate,
    Workers,     \* worker threads and the script
    Configured,  \* CREDENTIAL_TYPE_REGISTRY_ADDRESS is set
    Faults       \* the faults that may happen

FaultKinds == {"rpc",      \* a web3 call raises
               "db",       \* a database call raises
               "timeout",  \* a receipt does not arrive within 120 s
               "crash"}    \* the process dies

ASSUME TypesAssumption ==
    /\ Seeded \subseteq Types
    /\ NoTemplate \notin Templates
    /\ Configured \in BOOLEAN
    /\ Faults \subseteq FaultKinds

VARIABLES
    row,      \* the credential_types table
    chain,    \* CredentialTypeRegistry
    worker,   \* what each thread or script is at
    pending,  \* the owner's transaction that waits to be mined
    gaveUp    \* types whose creator ended without the row it was to insert

vars == <<row, chain, worker, pending, gaveUp>>

Anchors == {"none", "already-on-chain", "tx"}
NoRow == [template |-> NoTemplate, hash |-> NoTemplate, anchor |-> "none"]
Row(x, h, a) == [template |-> x, hash |-> h, anchor |-> a]
Rows == {NoRow} \cup [template : Templates, hash : Templates \cup {NoTemplate}, anchor : Anchors]
Exists(t) == row[t] # NoRow

Ops == {"create", "anchor", "seed"}
Steps == {"peek", "copy", "exists", "send", "receipt", "write"}
Idle == [op |-> "none"]
Jobs == [op : Ops, type : Types, template : Templates, seen : Anchors, step : Steps]
Txs == [by : Workers, type : Types, template : Templates]
NoTx == [by |-> "nobody"]

TypeOK ==
    /\ row \in [Types -> Rows]
    /\ chain \in [Types -> Templates \cup {NoTemplate}]
    /\ worker \in [Workers -> Jobs \cup {Idle}]
    /\ pending \in Txs \cup {NoTx}
    /\ gaveUp \subseteq Types

\* The migration leaves schema_hash and tx_hash NULL.
Init ==
    /\ row \in [Types -> {NoRow} \cup {Row(x, NoTemplate, "none") : x \in Templates}]
    /\ \A t \in Types : Exists(t) <=> t \in Seeded
    /\ chain = [t \in Types |-> NoTemplate]
    /\ worker = [w \in Workers |-> Idle]
    /\ pending = NoTx
    /\ gaveUp = {}

At(w, s) == worker[w] # Idle /\ worker[w].step = s
GoTo(w, s) == worker' = [worker EXCEPT ![w].step = s]
Finish(w) == worker' = [worker EXCEPT ![w] = Idle]
Start(w, job) == worker' = [worker EXCEPT ![w] = job]
GiveUp(w) == gaveUp' = IF worker[w].op = "create" THEN gaveUp \cup {worker[w].type} ELSE gaveUp

----------------------------------------------------------------------------
\* Requests, and a type in the loop of the script.

\* POST /credential-types, up to the registry; 409 for a known id.
Create(w, t, x) ==
    /\ worker[w] = Idle
    /\ ~Exists(t)
    /\ Start(w, [op |-> "create", type |-> t, template |-> x, seen |-> "none",
                 step |-> IF Configured THEN "exists" ELSE "write"])
    /\ UNCHANGED <<row, chain, pending, gaveUp>>

\* Mutant: the template comes with the request instead of from the row.
AnchorAsAsked(w, t, op) ==
    /\ worker[w] = Idle
    /\ Configured /\ Exists(t)
    /\ \E x \in Templates :
        Start(w, [op |-> op, type |-> t, template |-> x, seen |-> row[t].anchor, step |-> "peek"])
    /\ UNCHANGED <<row, chain, pending, gaveUp>>

\* POST .../anchor, and the script: what the handler read of the row stays as
\* it was in its session.
Anchor(w, t, op) ==
    /\ worker[w] = Idle
    /\ Configured /\ Exists(t)
    /\ Start(w, [op |-> op, type |-> t, template |-> row[t].template,
                 seen |-> row[t].anchor, step |-> "peek"])
    /\ UNCHANGED <<row, chain, pending, gaveUp>>

----------------------------------------------------------------------------
\* The steps of a job.

\* type_exists answers False when the call raises.
SaysExists(t, yes) == \/ yes = (chain[t] # NoTemplate)
                      \/ "rpc" \in Faults /\ ~yes

\* Mutant: the anchor is written for an id the registry does not know.
CopyUnchecked(w) ==
    /\ At(w, "peek")
    /\ LET t == worker[w].type IN
       row' = [row EXCEPT ![t].anchor = "already-on-chain"]
    /\ GoTo(w, "exists")
    /\ UNCHANGED <<chain, pending, gaveUp>>

Peek(w) ==
    /\ At(w, "peek")
    /\ \E yes \in BOOLEAN :
        /\ SaysExists(worker[w].type, yes)
        /\ GoTo(w, IF yes THEN "copy" ELSE "exists")
    /\ UNCHANGED <<row, chain, pending, gaveUp>>

\* The type is on the chain.  The endpoint stores the hash the chain has, the
\* script its own; an anchor that was seen is left alone.
Copy(w) ==
    /\ At(w, "copy")
    /\ LET t == worker[w].type
           h == IF worker[w].op = "anchor" THEN chain[t] ELSE worker[w].template
       IN IF worker[w].seen = "none"
          THEN row' = [row EXCEPT ![t].hash = h, ![t].anchor = "already-on-chain"]
          ELSE row' = IF worker[w].op = "anchor" THEN [row EXCEPT ![t].hash = h] ELSE row
    /\ Finish(w)
    /\ UNCHANGED <<chain, pending, gaveUp>>

\* register_credential_type looks again: 503 for a type that is there.
CheckExists(w) ==
    /\ At(w, "exists")
    /\ \E yes \in BOOLEAN :
        /\ SaysExists(worker[w].type, yes)
        /\ IF yes THEN Finish(w) ELSE GoTo(w, "send")
    /\ UNCHANGED <<row, chain, pending, gaveUp>>

\* Mutant: the receipt is not waited for.
SendAndForget(w) ==
    /\ At(w, "send")
    /\ pending = NoTx
    /\ pending' = [by |-> w, type |-> worker[w].type, template |-> worker[w].template]
    /\ Finish(w)
    /\ UNCHANGED <<row, chain, gaveUp>>

\* The nonce is the count of mined transactions: while one is pending, or when
\* another was mined since the count was read, the node refuses the next.
Send(w) ==
    /\ At(w, "send")
    /\ \/ /\ pending = NoTx
          /\ pending' = [by |-> w, type |-> worker[w].type, template |-> worker[w].template]
          /\ GoTo(w, "receipt")
       \/ /\ pending # NoTx \/ "rpc" \in Faults \/ \E v \in Workers \ {w} : worker[v] # Idle
          /\ Finish(w)
          /\ UNCHANGED pending
    /\ UNCHANGED <<row, chain, gaveUp>>

\* The transaction is mined, and reverts when the type exists.
Mine ==
    /\ pending # NoTx
    /\ LET free == chain[pending.type] = NoTemplate IN
        /\ chain' = IF free THEN [chain EXCEPT ![pending.type] = pending.template] ELSE chain
        /\ IF At(pending.by, "receipt")
           THEN IF free THEN GoTo(pending.by, "write") ELSE Finish(pending.by)
           ELSE UNCHANGED worker
    /\ pending' = NoTx
    /\ UNCHANGED <<row, gaveUp>>

\* 503, while the transaction stays in the pool.
TimeOut(w) ==
    /\ "timeout" \in Faults
    /\ At(w, "receipt")
    /\ Finish(w)
    /\ GiveUp(w)
    /\ UNCHANGED <<row, chain, pending>>

\* INSERT INTO credential_types, where type_id is the primary key.
Insert(w) ==
    /\ At(w, "write") /\ worker[w].op = "create"
    /\ LET t == worker[w].type
           x == worker[w].template
       IN row' = IF Exists(t) THEN row
                 ELSE [row EXCEPT ![t] = Row(x, x, IF Configured THEN "tx" ELSE "none")]
    /\ Finish(w)
    /\ UNCHANGED <<chain, pending, gaveUp>>

\* update_credential_type_chain_anchor after a registration.
Save(w) ==
    /\ At(w, "write") /\ worker[w].op # "create"
    /\ row' = [row EXCEPT ![worker[w].type].hash = worker[w].template,
                          ![worker[w].type].anchor = "tx"]
    /\ Finish(w)
    /\ UNCHANGED <<chain, pending, gaveUp>>

\* A call raises or the process dies.
Abort(w) ==
    /\ worker[w] # Idle
    /\ \/ "crash" \in Faults
       \/ "rpc" \in Faults /\ worker[w].step \in {"copy", "send", "receipt"}
       \/ "db" \in Faults /\ worker[w].step \in {"copy", "write"}
    /\ Finish(w)
    /\ IF worker[w].step \in {"receipt", "write"} THEN GiveUp(w) ELSE UNCHANGED gaveUp
    /\ UNCHANGED <<row, chain, pending>>

Next ==
    \/ \E w \in Workers :
        \/ \E t \in Types :
            \/ \E x \in Templates : Create(w, t, x)
            \/ \E op \in {"anchor", "seed"} : Anchor(w, t, op)
        \/ Peek(w) \/ Copy(w) \/ CheckExists(w) \/ Send(w) \/ TimeOut(w)
        \/ Insert(w) \/ Save(w) \/ Abort(w)
    \/ Mine

Spec == Init /\ [][Next]_vars

----------------------------------------------------------------------------
\* Safety.

\* A type that is in both places is the same template in both: no request that
\* lost a race, timed out or was overtaken leaves the table with one revocable
\* flag or schema hash and the chain with another.
ChainAgreesWithTable ==
    \A t \in Types : Exists(t) /\ chain[t] # NoTemplate =>
        /\ chain[t] = row[t].template
        /\ row[t].hash \in {NoTemplate, chain[t]}

\* A row that shows an anchor is on the chain, also where the registry was
\* asked through a call that answers False for every error.
AnchoredTypeIsOnChain ==
    \A t \in Types : row[t].anchor # "none" => chain[t] # NoTemplate

\* A type the chain has and the table lacks is about to be inserted, or the
\* request that registered it timed out or failed: nothing else makes one.
InsertPending(t) ==
    \E w \in Workers : At(w, "write") /\ worker[w].op = "create" /\ worker[w].type = t
ChainOnlyTypeIsExcused ==
    \A t \in Types : chain[t] # NoTemplate /\ ~Exists(t) => InsertPending(t) \/ t \in gaveUp

----------------------------------------------------------------------------
\* The inductive invariant: what a job knows at each step.

\* A row's schema hash is that of its own fields, whoever wrote it.
HashIsOwn == \A t \in Types : row[t].hash \in {NoTemplate, row[t].template}

\* The endpoint and the script work on a row that never changes its template;
\* a creator that was overtaken finds the type on the chain.
JobsFollowTable ==
    \A w \in Workers : worker[w] # Idle =>
        LET j == worker[w] IN
        /\ j.op # "create" => Configured /\ Exists(j.type) /\ j.template = row[j.type].template
        /\ j.op = "create" /\ Configured /\ Exists(j.type) => chain[j.type] # NoTemplate
        /\ j.op = "create" /\ ~Configured => j.step = "write"
        /\ j.step \in {"peek", "copy"} => j.op # "create"

JobsFollowChain ==
    \A w \in Workers : worker[w] # Idle =>
        LET j == worker[w] IN
        /\ j.step = "write" /\ Configured => chain[j.type] = j.template
        /\ j.step = "copy" \/ j.seen # "none" => chain[j.type] # NoTemplate
        /\ j.step = "receipt" => pending = [by |-> w, type |-> j.type, template |-> j.template]

\* A transaction in the pool that can still succeed carries the row's template
\* if there is a row, and its creator waits for it or gave up if there is none.
PendingFollowsTable ==
    /\ ~Configured => \A t \in Types : chain[t] = NoTemplate
    /\ pending # NoTx =>
        LET t == pending.type IN
        /\ Configured
        /\ Exists(t) => chain[t] # NoTemplate \/ pending.template = row[t].template
        /\ ~Exists(t) /\ chain[t] = NoTemplate
              => (At(pending.by, "receipt") /\ worker[pending.by].op = "create") \/ t \in gaveUp

IInv ==
    /\ TypeOK
    /\ ChainAgreesWithTable
    /\ AnchoredTypeIsOnChain
    /\ ChainOnlyTypeIsExcused
    /\ HashIsOwn
    /\ JobsFollowTable
    /\ JobsFollowChain
    /\ PendingFollowsTable
=============================================================================
