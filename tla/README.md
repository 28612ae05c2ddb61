# Digital Identity Wallet: TLA+ models and proofs

The repository is a wallet for verifiable credentials: a FastAPI backend keeps
users, DIDs, credential templates and credentials in PostgreSQL, moves their
anchors to five Solidity contracts on a Besu chain through RabbitMQ consumers
that run in the same process, and a React front end shows the result.  This
directory holds TLA+ models of that system, the TLC runs that check them on
small instances, and TLAPS proofs of the properties that matter most.

## 1. The system: inventory

| Component | Source | State it keeps | Operations | Hard behaviour |
|---|---|---|---|---|
| Credential API | `app/src/credential/router.py` | `credentials` rows | issue, revoke, list, status, verify | issue awaits two IPFS uploads between its checks and its insert; events are published by a background task after the commit |
| Event bus | `app/src/common/messaging.py`, `app/src/main.py` | connection, channels, one durable queue per event | connect, publish, subscribe, the message handler | publish may fail and nobody retries; exceptions requeue; a crash redelivers |
| Credential consumer | `app/src/credential/events.py`, `blockchain.py`, `repository.py` | anchors in the row | `handle_cred_created`, `handle_cred_revoked` | two transactions and two commits per event, any of which may be the last before a crash; the two events come from two queues |
| Contract clients | `credential/registry.py`, `credential/sbt.py`, `did/registry.py`, `credential_type/registry.py`, `trust/registry.py` | none; one owner account | check a view, then send a transaction and wait 120 s | the nonce is read, not reserved; a timeout leaves a live transaction; view errors are read as "not there" |
| DID service | `app/src/did/*` | `dids` rows | create, resolve, `handle_user_created`, `handle_did_created` | created by the event and by the API, by a seed script in another process too |
| Accounts | `app/src/auth/*` | `users` rows, wallet sequence | register, login, list, delete admin | delete runs in a worker thread and commits twice |
| Credential types | `app/src/credential_type/*` | `credential_types` rows | create, anchor, validate a credential | chain first, database second, nothing compensates |
| Trust | `app/src/trust/*` | none | authorize and revoke an issuer on chain | runs in a worker thread, shares the owner nonce |
| Verification | `app/src/credential/verification.py`, `cryptography.py` | none | ten checks against the chain | one verdict from several reads at different times |
| Contracts | `blockchain/contracts/*.sol` | DID, type, credential, certificate and issuer mappings | owner-only writes, views | existence encoded as a nonzero timestamp, ids from a counter, soulbound tokens |
| Seed script | `scripts/seed_admin.py` | none | admin, DID, trust and types, idempotent | a second process on the same tables and the same nonce |
| Front end: session | `context/AuthContext.jsx`, `api/client.js`, `routes/index.jsx`, `components/*Route.jsx` | token in React state and in localStorage | login, logout, guarded routes, 401 | two copies of one token; tabs that share one of them; answers of an earlier session |
| Front end: issue page | `AdminIssuePage.jsx`, `IssueCredentialPanel.jsx`, `utils/issueCredential.js` | the form, the holder shown | lookup, edit, submit | two readings of one template; a lookup answered after the DID was changed |
| Front end: credentials page | `AdminCredentialsPage.jsx`, `UserCredentialsPanel.jsx` | a user's list, a dialog | look up, turn the page, revoke and load again | the page behind the dialog stays alive |
| Front end: holder's credentials | `WalletCredentialsPage.jsx` | the list, what checks found | load, check one on the chain | two sources for one pill, each of its age |
| Front end: DID pages | `WalletResolveDidPage.jsx`, `AdminDidsPage.jsx`, `WalletDidPage.jsx` | a document and its status | resolve, refresh | the status is a second call |
| Front end: verifier | `VerifierPage.jsx`, `utils/verifyCredential.js` | a text, a verdict | type, drop a file, verify, reset | file readers and answers in any order |
| Front end: account pages | `AdminAdminsPage.jsx`, `AdminUserDirectoryPage.jsx`, `AdminUsersPage.jsx` | a list, details, a dialog | search, page, select, authorize, delete, register | an effect fetches on what an answer sets |

How they interact.  The HTTP handlers commit a row, answer, and leave a
background task that publishes an event to the topic exchange.  The same
process consumes `user.created`, `did.created`, `cred.created` and
`cred.revoked` from four durable queues; a consumer reads the row, sends
transactions from the one owner account, and writes the transaction hashes
back.  Verification reads only the chain.  The front end reads rows and views.

Concurrency.  One uvicorn process, one asyncio loop.  `async def` handlers and
consumers call web3 and SQLAlchemy synchronously, so between two awaits nothing
else of the loop runs.  Plain `def` endpoints (types, trust, accounts) run in
worker threads, concurrently with the loop, and `seed_admin.py` is a process of
its own.  Persistence: PostgreSQL, the durable queues, the chain.

What makes each part correct, in one line each:

- lifecycle: the chain follows the table, never the other way; nothing is
  anchored twice; nothing acknowledged is missing; a revocation arrives;
- contracts: one record and one token per credential, for ever its holder's;
  revoked only where the type allows it;
- DIDs: one per user and per string, anchored in the end, none without a user;
- types: table and chain agree on what a type is and on whether it is revocable;
- event bus: a published event reaches its consumer or is still queued, and one
  that can be handled is;
- owner account: one transaction at a time, and nobody is told a falsehood about his;
- verification: a valid verdict was true of the chain;
- session: the session shown is the session used, and ends for a reason;
- pages: what is shown is what the API said of the thing that is shown, what is
  sent is what was shown, and whoever waits is waiting for something.

## 2. Plan

In the order of their weight in the system; what is done is described in
section 3.

| | Modules | What for | State |
|---|---|---|---|
| 1 | `CredentialStatus`, `CredentialLifecycle`, `CredentialLifecycleProofs` | the core: table, events, consumer, chain; refines the abstract promise | done |
| 2 | `CredentialContracts`, `CredentialContractsProofs` | the three credential contracts; refine the chain of 1 | done |
| 3 | `DidLifecycle`, `DidLifecycleProofs` | registration, DIDs by event and by API, anchoring, deletion of an admin, seed script | done |
| 4 | `CredentialTypes`, `CredentialTypesProofs` | templates, chain first and table second, worker threads | done |
| 5 | `EventBus`, `Mailbox`, `OwnerNonce`, `OwnerAccount`, `OwnerNonceProofs`, composed in `Consumers`, `ConsumersProofs` | connection, subscription at start-up, window, requeue; several senders on one nonce; implement the mail and the pool of 1, 3 and 4 | done |
| 6 | `WalletSession`, `WalletSessionProofs` | tokens, tabs, guards, 401 | done |
| 7 | `Pages`, `IssueTemplate`, `IssuePage`, `CredentialsPage`, `HoldingsPage`, `DidPages`, `VerifyPage`, `AccountPages`, composed in `WalletApp` | the pages with asynchronous handlers, one mounted at a time, on one API | done |
| 8 | `WalletAppProofs` | the invariants of every page, for any inputs, calls, templates, accounts and credentials | done |

Abstract specifications: `CredentialStatus` (what the lifecycle promises),
`Mailbox` (what a message is promised), `OwnerAccount` (the rule by which the
models share the owner's account), and the chain of `CredentialLifecycle`, which the
contracts implement.

Left open: the awaits of an issuance and the reads of a verification (section 6
says why), and `updateDid` and `deactivateDid`, which nothing calls.

## 3. The models and how they correspond to the code

PROJECT.json maps every definition to its lines.  Conventions: a variable is a
table, a queue, a contract's storage or a program counter; an action is the code
between two points where somebody else may run; a call that may raise is a
disjunct or an action of its own, enabled by a member of `Faults`.  A definition
whose comment begins with "Mutant" is not part of the model: it is the same
definition with a plausible bug, used to show that a property notices it.

### CredentialLifecycle (and CredentialStatus)

| Model | Code |
|---|---|
| `row[c]` | a row of `credentials`: status, and which hash columns and token id are set |
| `mail[e][c]` | the one message of event `e` about `c`: to be published by a background task (`outbox`), on its queue, at a step of its handler, acknowledged (`done`), or lost |
| `registry`, `sbt`, `tokenOf`, `nextTokenId` | what `CredentialRegistry` and `CertificateSBT` answer about `c` |
| `mempool` | transactions `_send_tx` gave up on after 120 s |
| `Issue`, `Revoke` | the handlers from the commit on, with the background task they add |
| `SkipRegister` ... `SaveMint` | the branches of `handle_cred_created`, one action per chain call or commit |
| `SkipRevoke` ... `SaveSbtRevoke` | the branches of `handle_cred_revoked` |
| `Requeue`, `Ack` | leaving `message.process(requeue=True)` by an exception, and normally |
| `Crash` | messages being handled go back to the queue, background tasks are lost |
| `MineLate` | a transaction nobody waits for is mined, or reverts |

The handlers are synchronous once they start, so `LoopFree` guards every action of
another coroutine: within the process nothing interleaves with a handler, and the
model must not pretend that it does.  What does come in between are faults, late
transactions and, after a requeue, the other event's handler.

`CredentialStatus` is what the component promises: a status per place, each moving
forward only, the chain after the table.  `ImplementsPromise` maps `row[c].status`,
`registry` and `sbt` to its variables.

### CredentialContracts

One action is one successful call of a state-changing function, in any order, by
any sender, with zero values included among the arguments; a call that reverts
changes nothing and is no step.  Solidity's default values are explicit
(`NoRecord`, `NoCertificate`), because the contracts tell existence by them.
`MaxUint` is the width at which `_nextTokenId++` reverts.  Left out: fields that are
stored and never read by a contract, logs, and the functions that always revert
(transfers and approvals).  `ImplementsLifecycleChain` says that, through the
views, a transaction is one of the four operations of `CredentialLifecycle`,
executed where `Execute` is allowed to: the core's idea of the chain is the contracts'.

### DidLifecycle

Three kinds of actors: the loop (`loop` is the handler it runs, from await to
await), worker threads that delete an admin (`deleting`), and `seed_admin.py`
(`seed`).  A DID string is a function of its user, so DIDs are named by users;
`dids[u]` is the number of rows the unique column allows.  `outbox` and `queue`
count messages, since an event about one user may exist more than once, and
`AnnouncedAtMostOnce` says of `did.created` when it may not; `holding`
is `handle_user_created` between its commit and the end of the publication it
awaits, the one point where its message is unacknowledged and the loop is free.

### CredentialTypes

`create_type` and `anchor_existing_type` are plain functions, so FastAPI runs each in
a worker thread: `worker[w]` is one job at one of its database or web3 calls, and
any number of jobs interleave.  The loop over templates in `seed_admin.py` is one
more worker.  `row[t].template` stands for the fields and the flag; `hash` and
`anchor` are the two columns that are stored later.  `seen` is the `tx_hash` the
handler read before it asked the chain.  `pending` is the owner's transaction; while
there is one, or when another was mined after the nonce was read, the node refuses
the next (`Send`).  `gaveUp` is a history variable: the types whose creator timed
out or failed after its transaction went out.

### EventBus, OwnerNonce and Consumers

| Model | Code |
|---|---|
| `stage`, `Connect`, `Subscribe` | `lifespan` of `main.py`, one await after the other; it goes on whether it is connected and subscribed |
| `link` | `EventBus.connection`: none, complete, or left by an attempt that broke off before the exchange was declared (`half`) |
| `queue[e]`, `bound` | RabbitMQ's durable queue of `e`, and whether it has been declared and bound |
| `unacked`, `Window`, `Deliver` | `set_qos(prefetch_count)`: how many the consumer of a queue is handed before it acknowledges; a requeued message keeps its place |
| `loop`, `Handle`, `Leave` | the callback that runs, and `message.process(requeue=True)` when it ends or raises |
| `stale` | messages delivered on a connection that has broken: their callbacks still run, their acknowledgements reach nobody, and the broker delivers them again |
| `Reattach` | `connect_robust` connects again and consumes what was consumed |
| `call[c]`, `ReadNonce`, `SendRaw`, `Receipt`, `Raises` | `_send_tx`, the same lines in the five clients: one action per web3 call |
| `Ask` | the view before it; one that raises is read as "not there" |
| `mined`, `pool`, `Mine` | the owner's transactions on the chain and at the node |

`Consumers` puts them together: a message's callback asks for one operation,
worker threads (the endpoints of types and trust) ask for others, all from one
account.  `Poison` are the messages that never succeed: their type is not on the
chain, or their `reason_code` has more than 32 bits.

Assumed of the node, which is external: it refuses a nonce below the account's and a
second transaction with the nonce of one it holds.  It would replace one by a
transaction that pays a tenth more; all pay `eth_gasPrice`, and nobody else pays on
this chain.

`ImplementsMail` and `ImplementsAccount` close the gap to the models above: the
`mail` of `CredentialLifecycle` moves as `Mailbox` says, and its `mempool` is filled
and emptied as `OwnerAccount` says.  So is the bus, with windows and broken
connections, and so is the account, with nonces that are read and not reserved.

### WalletSession

`token[t]` is the state of `AuthContext` in a tab, `stored` the entry of localStorage,
which requests take their token from; `place[t]` is what the router shows, with the
place a redirection came from.  A request that is answered 401 empties the storage
and signs its own tab out.  `stale[t]` is a history: another tab has written the
storage since this one last read or wrote it.  `status` is the API's view of a token;
the browser's clock agrees with the API's.  A deleted account is refused by the
endpoints that look it up and not by the others, so both answers are possible.  After
a login, react-router navigates in a transition, so the new place may be rendered
before or after the new token: both orders are tried (`LoginAnswer`).

### The pages

`Pages` has what they share.  One page is mounted (`at`); `page` are its hooks, a
record of that page's own shape; `calls` are requests whose answer has not been
handled.  Nothing orders the answers, and nothing times a call out.  A call is
*served* when the API has executed it, and *live* while the page that made it is
mounted: after that React drops what the answer sets, but a call that changes
something is still executed.  `WalletApp` mounts the pages in one another's place,
with what a link passes along (a DID, a name), and holds what the API holds:
credentials issued and revoked, accounts, issuers.

Every property names the races in which it fails; each is a behaviour of the code,
recorded as a history when the page itself does not tell:

| Page | Excuse | What the code does |
|---|---|---|
| `IssuePage` | `~Fresh` | the holder stays on display when another DID is typed, until the lookup answers |
| `IssuePage` | `RevealedByHolder` | a form submitted without a holder on display is checked before his role is known, which may bring out a required field that is empty |
| `IssuePage`, of a template | `HangsOnUnsent` | a field that hangs on a hidden one, whose value the page does not send, or on a number, which is sent as a number and compared with a text: it is shown, filled and dropped |
| | `HidesDerived` | the API derives a role the page did not show |
| | `RevealedBySending` | a required field that is hidden because the text it hangs on has blanks around it, or the university is blank, and that the API sees once this is trimmed or filled in |
| | `TypesOtherRole` | a typed field called `role`, which the API compares with the role of the account |
| | `TakesOwnKey` | a field called `id`, `username` or `attachedDocument`, which the API writes over |
| | a visible, required file field | its file is not part of the data the API checks |
| `CredentialsPage` | `raced` | two lists awaited at a time: the last to arrive is shown |
| `HoldingsPage` | the pill "Revoked" | it goes by the table's revocation and the issuance's transaction, before the registry is told |
| | `unread` | a check that does not reach the node takes back what an earlier one found |
| `DidPages` | `raced` | a DID resolved while the status of another is awaited gets that status; the narrow layout of the admins' page says Active of a status that is not known |
| `VerifyPage` | `raced` | a file dropped, or a text submitted, while another file is read |
| `AccountPages` | `raced`, `crossed`, `actionError` | lists or details asked for while earlier ones, or an action, are under way |

`read` in `HoldingsPage` is a history too: what the chain has told the checks.

`IssueTemplate` is the one pure part: the visible fields, the errors and the payload
of the page, and `ApiErrors` and the data the API keeps, from the same template.  A
value is a word in one of three forms, text, text with blanks around it, or number
(`Text`, `Padded`, `Number`): the page decides on the fields by the values as they are
typed, requires by the word alone, and sends what `Converted` makes of it, a number, a
trimmed text, or the default university for a blank one; the API compares what was
sent.  The file is the attachment, or that of the first visible file field, and is
settled at the click, before the holder is looked up (`WithFile`).  The API refuses
by the template (`ApiErrors`) and by the role (`SpoofsRole`), and writes its own keys
over the fields (`CredentialSubject`).  `IssuedIsWhatWasShown` compares words, since
a number that is shown as a text and kept as a number says the same.

An issuer in the account pages is authorized, not authorized or unknown
(`IssuerStatus`), as `_issuer_authorization_status` answers null whenever the registry
cannot be asked; the details offer to authorize an unknown one, and the model does so.

The API's list does not carry the hashes of a revocation, so the pills of a revoked
credential go by its issuance; the model says so rather than assume them.  In
`HoldingsPage` the facts of a credential (registered, row anchored, minted, token in
the row, revoked in the table, and `withdrawn`, revoked on the registry) become so one
by one while the page is open, in the order in which the consumer of
`CredentialLifecycle` writes them; `ledger` starts anew with each mount.  The pill
"Registry: Revoked" claims a withdrawal.  What stands behind it is less, and is what
`PillsAreTrue` says of it: the revocation in the table and the registration on the
chain.  `deriveLocalChainStatus` (`UserCredentialsPanel.jsx:219`) goes by the transaction
of the issuance, or by a check that asked only whether the credential is registered, so
the pill may say Revoked of a registry that has not been told yet, or never will be when
the publication was lost; `chainStatus.js:61` calls the same status "Revocation
confirmed on-chain.".  TLC finds that state in the model when `"withdrawn"` is asked of
the ledger like the rest.

## 4. Runs

| Run | Question | Answer |
|---|---|---|
| `lifecycle_safety` | with two credentials and every fault at every step, does the chain ever say more than the table, is anything minted twice, acknowledged and missing, or taken back, and does the backend implement `CredentialStatus`? | all hold |
| `lifecycle_liveness` | if calls fail for a while and nothing is lost, does every issuance and every revocation arrive? | yes |
| `lifecycle_sbt_not_revoked` | is the certificate of a handled revocation revoked? | **no** |
| `lifecycle_revoke_lost` | does a revoked credential fail verification in the end? | **not** if its publication failed |
| `consumers` | with broken connections, crashes, late receipts and views that fail: is anything acknowledged that has not been executed, do bus and account behave as the models above assume, and does a message that never succeeds, or a thread on the same nonce, keep another message from being handled? | no; yes; not while there are fewer such messages than the window is wide |
| `contracts_safety` | do ids, tokens, owners, balances and revocations of three contracts stay consistent, and do they implement the core's chain? | yes |
| `did_safety` | with a deletion between any two statements, a script in another process and every fault: DIDs announced once, true anchors, nothing unfinished and forgotten, and a script that keeps its word? | yes |
| `did_liveness` | does every user get a DID and every DID an anchor? | yes, if nothing is lost and no query fails |
| `did_orphan` | does every DID have a user? | **no**, without any fault |
| `types_safety` | with three jobs on a seeded and a new type and every fault: do table and chain ever hold different templates, is an anchor ever untrue, and who leaves a type without a row? | never, never, and only a creator that failed |
| `pages_safety` | is what the pages issue, list, badge, verify and show what the API said of the thing on display, and does whatever turns have a call behind it? | yes, outside the races named in section 3 |
| `session_safety` | does a tab send the token of the user it shows, and keep its session unless there is a reason? | yes, unless another tab has written the storage |

### What the violations show

Each run checks one sentence of the documentation or of a comment; PROJECT.json
quotes it.

- `HandledRevokeIsOnSbt`: `cred.created` times out while registering and is requeued;
  its transaction is mined late; `cred.revoked` is delivered, revokes on the registry,
  finds no token and is acknowledged; then `cred.created` is delivered again, finds the
  registration and mints.  The registry is revoked, so verification still fails, but the
  certificate stays active.
- `RevokedFailsVerify`: the broker is away for the one publication; 409 afterwards.
- `EveryDidHasUser`: the check of the user, the two commits of the deletion in the
  worker thread, the insert.

### Bounds, and why they are enough

- Two credentials (`lifecycle_safety`): handlers touch one row and one record; what
  two of them share is the token counter, the mempool and the loop, and two suffice
  for one to be in another's way.  They are interchangeable, hence the symmetry; the
  liveness runs use none.
- Two ids, two types, two accounts and two blocks (`contracts_safety`): two tokens of
  one owner, types that differ in their flag, a revocation in the block of its issue
  and in a later one; `MaxUint = 3` lets the counter reach its limit after two mints.
- An admin and the super_admin (`did_safety`): the deletable and the seeded user,
  whose lives differ; a plain user's is the admin's without the deletion and is in the
  liveness run.  `MaxBacklog = 2` (1 in the other two runs): `POST /dids` is not tried
  while so many events of the same DID wait, which bounds the queues and excludes no order of two events, since the
  seed script's and requeued events are not bounded by it.
- Two types, two templates, three jobs (`types_safety`): a winner on the chain, a
  winner in the table and a third that saw neither.
- One queue with a message that can succeed and one that cannot, a window of two, a
  worker thread (`consumers`): the least in which a poison message is in the way, a
  delivery is handled after its connection is gone, and two callers read one nonce.
  `MaxTx = 2`: views raise until two transactions are mined, so that one of them says of
  what has just been executed that it has not been, and it is sent again;
  `MaxWork = 1`: the worker thread asks, again after a failure, until something is
  mined.  Broken connections and crashes are not counted.
- Six inputs, navigation included (five on the admins' and the holder's page, which have
  the most states), and four calls in flight (`MaxInputs`, `MaxCalls`; `pages_safety`): a
  page is entered, and two handlers of its own overlap with a third and with a dialog.  Two files
  are read at a time (`MaxReads`).  The ten templates are one of each kind the seeded ones
  show (derived, chained, a required file), `club`, whose derived role is optional and
  brings out a required field, and one for each further way in which what is sent is not
  what is typed: `counted` hangs a field on a number, `noted` on a text one can type
  blanks around, `staff` has a university and a typed role, `papers` two files, `named` a
  key of the API's own.  Without any one of the excuses of section 3 the run fails.
  The holder has two credentials on two
  pages, one settled and one on its way.
- Two tabs, two tokens of a student and one of an admin, two requests
  (`session_safety`): a tab that is overtaken by the other, by a new session of the
  same user and by that of another, with an answer of each age.
- No counter is unbounded otherwise: token ids are bounded by the credentials.

`CHECK_DEADLOCK FALSE` appears where the system may come to rest: everything issued is
anchored and revoked, the last block and the last id are used up, all users are
served, every message is handled or lost, or the user has made all his inputs.

### Fairness

`CredentialLifecycle` and `DidLifecycle` assume, each as a conjunct of `Fairness`:

- a handler that started ends: it has no await inside (weak fairness);
- the loop runs each task and each delivery it was given: asyncio's ready queue is
  FIFO, but a task competes with every other for the free loop, so the fairness is
  strong;
- RabbitMQ hands out each queued message again and again, which is what `consumers`
  shows of a queue with fewer messages that never succeed than `prefetch_count=10`;
- a transaction in the pool is mined: the chain produces blocks;
- a worker thread and the script's publication go on (`DidLifecycle`);
- `<>[][~FaultStep]_vars`: the node, the database and the broker stop failing in the
  end.  Losing an event is no such fault: it is final, and the liveness runs exclude
  it by `Faults`.

`Consumers` assumes the same of the callback, the pool, the broker (it comes back, is
connected to again, and hands out each message it may) and the loop (each delivery
gets its turn); nothing of the worker threads, on which no message waits, and nothing
of start-up, because nothing brings a
subscription that failed back: `GoodMessagesAreHandled` promises something for the
queues the process consumes.

The front end has no liveness: an answer may never come, and a user may stop.
`NoSpinnerForEver` is the safety half: what turns has a call behind it.

`CredentialTypes` has no liveness: an HTTP request is answered or fails and nothing
retries it.

## 5. Proofs

All theorems hold for every value of the constants that satisfies the named
assumption of the module (`ConstantsAssumption`, `ContractsAssumption`,
`DidAssumption`, `TypesAssumption`, `NonceAssumption`, `BusAssumption`,
`ConsumersAssumption`, `SessionAssumption` and `NoneAssumption`; of the pages
`MaxCallsAssumption`, `IssueAssumption`, `CredentialsAssumption`,
`HoldingsAssumption`, `DidPagesAssumption`, `VerifyAssumption`, `AccountAssumption`
and `AppAssumption`): any set of credentials, users, types, messages, worker
threads, callers, tabs or tokens, any window, any configuration flags, any set of
faults; any templates, filters, lists, DIDs and verdicts, any number of inputs and of
calls in flight.  Each module `XProofs` extends `X` and TLAPS.

What the pages' assumptions say is what their sources see to: keys of a template are
unique (`validate_unique_keys`), a visibility asks for a text that is not blank
(`buildCredentialTypePayload`), the values of a number field are texts that are a number
or empty (the browser's number input), a fact the consumer writes comes after those it writes
before (`Before`), every page of a list but the end holds something, and a verdict
without a complaint has checked the signature.  The rest says that `"none"` is no DID,
user or filter.

| Module | Theorems | Argument |
|---|---|---|
| `CredentialLifecycleProofs` | type correctness; `IInv`; the six safety invariants of the run; `NothingIsTakenBack`; `ImplementsPromise` | a handler sends a transaction only for an empty column and no other step fills it before the handler does (`StoresIntoEmpty`), so stored hashes stay; `IInv` adds what a message at a step knows (`StepImpliesChain`: a handler past a step has its effect on the chain), what a message and a transaction in the pool imply of the row, and that tokens and certificates match; without it a late transaction could revoke what was never revoked |
| `CredentialContractsProofs` | type correctness; `IInv`; the four invariants; `NothingIsRewritten`; `ImplementsLifecycleChain` | tokens below the counter are exactly the certificates; `CertificatesAreKnown` carries the type check at minting to the revocation later; balances by the cardinality of the tokens of an owner when one is added |
| `DidLifecycleProofs` | type correctness; `IInv`; `AnnouncedAtMostOnce`, `AnchoredRowIsOnChain`, `DidStaysPending`, `UserStaysPending`, `SeedDoneMeansReady` | only admins are deleted, so the script's user and DID stay; a handler about to save an anchor has seen its transaction mined; each action either leaves an unfinished DID its event or records it as lost |
| `CredentialTypesProofs` | type correctness; `IInv`; `ChainAgreesWithTable`, `AnchoredTypeIsOnChain`, `ChainOnlyTypeIsExcused` | a row never changes its template, and a job works on the row's template or on a type without row; when a creator was overtaken by another's row the chain already has the type (`JobsFollowTable`), so the late transaction of the first reverts (`PendingFollowsTable`); `HashIsOwn` for the schema hash |
| `OwnerNonceProofs` | type correctness; `IInv`; `ImplementsAccount`; `AnswersAreTruthful` | nobody signs with a nonce above the account's (`NoncesAreRead`), so what the node accepts is the next, and it has one of that at most (`PoolIsNext`); the transaction somebody waits for is in the pool or at its place on the chain (`AwaitedIsKept`), so the receipt at his nonce is his |
| `ConsumersProofs` | `CInv`; `BInv`; `DoneIsExecuted`; `ImplementsAccount` and `ImplementsMail` of the whole | a step of the whole is one of the account or leaves it alone, so its invariant carries over; a callback that has asked, asked for its message's operation (`HandlerAsks`), and `AnswersAreTruthful` does the rest.  For the mail: a message is on its queue once (`QueuedOnce`) and in one place (`OnePlace`), what is handed out is still queued, and what a broken connection left over is queued or done already (`HandedOut`), so its callback, which may run a second time, settles nothing |
| `WalletSessionProofs` | type correctness; `IInv`; `RequestsGoOutAsShown`; `SessionChangesForAReason` | a tab that no other tab has overwritten holds the token that is stored (`FreshTabsAgree`), and only open tabs await anything, so a closed tab's answers change no session |
| `WalletAppProofs` | `CallsAreOK`; an inductive invariant per page (`VerifyInv`, `DidInv`, `HoldInv`, `RegisterInv`, `AccountsInv`, `CredsInv`, `IssueInv`); the nine invariants of `pages_safety` | below |

`WalletAppProofs` goes from the calls to the pages.  `CallsOK` says of every call,
whichever page made it, that it is well formed, and that one nobody waits for is a
change the API has yet to execute: this is all a page can find left of another.  Each
page then has an invariant that says nothing while another page is mounted, since
its hooks are gone, and that mounting establishes again; what must outlive a page (the
forms sent, the names registered) is said of the calls.  The links are where one
invariant needs another: the names that `RegisterInv` and `AccountsInv` let through are
what `CredsInv` and `IssueInv` start from.

- `VerifierSaysWhatHolds`: a verdict under way is for the credential in the text until
  another reader finishes, which is what `raced` records.
- `BadgeIsTheRegistrysWord`: one document or status is awaited at a time, unless a
  DID was resolved while a status was awaited; the status names the DID it is of.
- `PillsAreTrue`: facts come in their order and stay (`LedgerOK`), so what a check
  carries from one await to the next is still so when it is shown; rows of an older list
  claim less, never more; and a row that is revoked and whose registration is shown has
  both in the ledger, which is all the revoked pill stands on.
- `ListIsOfItsFilter`, `PanelIsTrue`: the effect that fetches the details depends on
  what an answer sets, so the invariant follows the chain action, list, details
  (`ListOK`, `ChainOK`, `PanelOK`), each link with the name it was started for.
- `CredentialsListIsTrue`: a list served after a revocation shows it (`ToldOK`), and
  the one on display was, when only one was awaited.
- `IssuedIsWhatWasShown`, `LetThroughIsNotRefused`: a form is complete when it is sent
  (`Sendable`), its file settled, and nothing changes it afterwards.  The rest is about
  one template: what is sent is what `Converted` makes of the fields that are visible and
  filled (`PostedIs`); outside the excuses, comparing what was sent comes to the same as
  comparing what was typed, so the API reaches the visible fields and no others, and its
  subject, in words, is what was shown (`SubjectIs`, `IssuedAsShown`).  Likewise a
  required field it reaches was visible and hence filled (`NothingMissing`), and a role
  that was derived is the account's (`NoSpoof`), so it does not refuse (`LetThrough`).
- `NoSpinnerForEver`: from the part of each invariant that says what is awaited.

The proofs are laid out by action: one lemma per action or per group of actions
of one shape, one step per conjunct it can disturb, a lemma `IInvStep` over `Next`
and the temporal step last.

`IInv` of each module, and that a timestamp of zero means a blank record
(`TimestampsTellExistence`), are theorems and not properties of a run; each `IInv`,
`CInv`, `BInv` and page invariant was checked by TLC before it was proved.

Only model-checked: the five liveness properties (`IssuedGetsAnchored`,
`RevokedGetsRevokedOnRegistry`, `UserGetsDid`, `DidGetsAnchored`,
`GoodMessagesAreHandled`), since fairness and `ENABLED` are beyond TLAPS, and the
violations, which are behaviours.  Every other property of a passing run is a theorem.

## 6. Not modelled, and why

- The checks of `issue_credential` before its two IPFS awaits.  Of what they read, the
  holder's account and DID and the type are changed by no operation of the API before
  the insert; the issuer may be deleted, or lose its authorization through
  `POST /trusted-entities/revoke`, and the credential is then issued on what was true
  before.  Nothing else depends on the order: the verification asks the trusted registry
  again.  The core starts at the insert.
- The reads of one verification at different blocks: a verdict is not stored, each
  read is true when it is made, and a revocation between two of them is a revocation
  after the verdict.  Its two checks that a revocation concerns are in the core, the
  shape of any verdict in `VerifyPage`.
- `updateDid`, `deactivateDid`: no code outside the contract's tests calls them.
- What issues the second message of a burst: `Send` of `EventBus` publishes each
  message once; events published twice are in `DidLifecycle`.
- Front-end pages that load once, or create and then load again with every call
  awaited in its turn (the wallet's home, the dashboards, the credential types' page);
  layout and wording; `AdminTrustPage` and `useAsyncAction`, which no route uses; the
  derive functions of `chainStatus.js`, which no page calls (section 3 quotes what they say
  of a revocation).  React's StrictMode, which
  doubles effects in development, is off in a build.
- On the modelled pages: dialogs that only unfold JSON, the message a chain check
  leaves, dates and booleans of a template, values outside a select's options, and templates
  made past the page, whose `equals` need not be a text.
- Password hashing, the uniqueness of names and mails (one outcome of a call), the
  wallet sequence, and the read-only endpoints: no state that two actors share.
- IPFS, metadata, canonical JSON, signatures and hash functions: pure or external; a
  hash is the identity of what it is taken of, so equal hashes mean equal contents.
- Deployment scripts and migrations other than the one that inserts the templates: they
  run before the system does.
