------------------------------ MODULE OwnerNonce ------------------------------
(***************************************************************************)
(* _send_tx, which the clients of the five contracts have in the same      *)
(* form, and the account whose nonce they all take: the handlers of the    *)
(* loop, worker threads and the seed script ask for the number of          *)
(* transactions mined, sign with it, send, and wait.  Nothing reserves the *)
(* number in between.                                                      *)
(*                                                                         *)
(* Assumed of the node: it refuses a nonce below the account's, and a      *)
(* second transaction with the nonce of one it holds.  (It would take one  *)
(* that pays a tenth more.  All pay eth_gasPrice, and nobody else pays on  *)
(* this chain.)                                                            *)
(***************************************************************************)
EXTENDS Naturals, Sequences, FiniteSets

CONSTANTS
  Callers,     \* the loop, the worker threads, the script
  Ops,         \* what they ask of the contracts
  SendFaults,  \* the faults that may happen
  none,
  MaxTx        \* bound: how many are mined before views stop failing

SendFaultKinds == {"rpc",       \* a web3 call raises
                   "timeout"}   \* no receipt within 120 s

ASSUME NonceAssumption ==
  /\ SendFaults \subseteq SendFaultKinds
  /\ none \notin Ops
  /\ MaxTx \in Nat

VARIABLES
  mined,  \* the account's transactions on the chain; one's nonce is its place
  pool,   \* those the node holds
  call    \* what each caller is at

accountVars == <<mined, pool, call>>

Idle == [step |-> "idle", op |-> none, nonce |-> 0]
Steps == {"idle", "reading", "signed", "waiting", "ok", "known", "failed"}

Executed == {mined[i].op : i \in {j \in DOMAIN mined : mined[j].ok}}

InitAccount ==
  /\ mined = <<>> /\ pool = {}
  /\ call = [c \in Callers |-> Idle]

\* A call ends; the nonce is forgotten.
Ends(c, step) == call' = [call EXCEPT ![c] = [step |-> step, op |-> @.op, nonce |-> 0]]

\* The view before the transaction.  A view that raises says "not there".
Ask(c, op) ==
  /\ call[c].step = "idle"
  /\ \E step \in {"known", "reading"} :
       /\ step = "known" => op \in Executed
       /\ step = "reading" =>
            op \notin Executed \/ ("rpc" \in SendFaults /\ Len(mined) < MaxTx)
       /\ call' = [call EXCEPT ![c] = [step |-> step, op |-> op, nonce |-> 0]]
  /\ UNCHANGED <<mined, pool>>

\* Mutant: the transactions that wait are counted too.
ReadNonceOfPending(c) ==
  /\ call[c].step = "reading"
  /\ call' = [call EXCEPT ![c].step = "signed", ![c].nonce = Len(mined) + Cardinality(pool)]
  /\ UNCHANGED <<mined, pool>>

\* get_transaction_count counts what is mined.
ReadNonce(c) ==
  /\ call[c].step = "reading"
  /\ call' = [call EXCEPT ![c] = [step |-> "signed", op |-> @.op, nonce |-> Len(mined)]]
  /\ UNCHANGED <<mined, pool>>

Own(c) == [op |-> call[c].op, nonce |-> call[c].nonce, by |-> c]

Taken(nonce) == nonce < Len(mined) \/ \E tx \in pool : tx.nonce = nonce

SendRaw(c) ==
  /\ call[c].step = "signed"
  /\ ~Taken(call[c].nonce)
  /\ pool' = pool \union {Own(c)}
  /\ call' = [call EXCEPT ![c].step = "waiting"]
  /\ UNCHANGED mined

Refused(c) ==
  /\ call[c].step = "signed"
  /\ Taken(call[c].nonce)
  /\ Ends(c, "failed")
  /\ UNCHANGED <<mined, pool>>

\* The next transaction is mined.  A contract reverts what it has done already.
Mine(tx) ==
  /\ tx \in pool /\ tx.nonce = Len(mined)
  /\ pool' = pool \ {tx}
  /\ mined' = Append(mined, [op |-> tx.op, ok |-> tx.op \notin Executed])
  /\ UNCHANGED call

\* The receipt of the transaction sent, and its status.
Receipt(c) ==
  /\ call[c].step = "waiting"
  /\ Len(mined) > call[c].nonce
  /\ Ends(c, IF mined[call[c].nonce + 1].ok THEN "ok" ELSE "failed")
  /\ UNCHANGED <<mined, pool>>

\* Mutant: a receipt that does not come is taken for a good one.
RaisesUnseen(c) ==
  /\ \/ "rpc" \in SendFaults /\ call[c].step \in {"reading", "signed", "waiting"}
     \/ "timeout" \in SendFaults /\ call[c].step = "waiting" /\ Own(c) \in pool
  /\ Ends(c, IF call[c].step = "waiting" THEN "ok" ELSE "failed")
  /\ UNCHANGED <<mined, pool>>

\* A call to the node raises, or wait_for_transaction_receipt does after 120 s.
Raises(c) ==
  /\ \/ "rpc" \in SendFaults /\ call[c].step \in {"reading", "signed", "waiting"}
     \/ "timeout" \in SendFaults /\ call[c].step = "waiting" /\ Own(c) \in pool
  /\ Ends(c, "failed")
  /\ UNCHANGED <<mined, pool>>

\* A caller is through; the process dies, and every caller with it.
Idles(c) == call' = [call EXCEPT ![c] = Idle] /\ UNCHANGED <<mined, pool>>
Forget == call' = [c \in Callers |-> Idle] /\ UNCHANGED <<mined, pool>>

\* What the node and the caller do about a call under way.
Sending(c) == ReadNonce(c) \/ SendRaw(c) \/ Refused(c) \/ Receipt(c) \/ Raises(c)
Mining == \E tx \in pool : Mine(tx)

NextAccount ==
  \/ Mining \/ Forget
  \/ \E c \in Callers : Sending(c) \/ Idles(c) \/ \E op \in Ops : Ask(c, op)

SpecAccount == InitAccount /\ [][NextAccount]_accountVars

-----------------------------------------------------------------------------
(* Properties *)

TheAccount == INSTANCE OwnerAccount
                WITH mempool <- {tx.op : tx \in pool}, effective <- Executed

\* Code behaviour: get_transaction_count before every transaction.  Callers
\* that read the nonce together, wait on one another's transactions and give up
\* on their own share the account as the other models say they do: there is
\* never a second transaction in the pool, and what is mined was in it.
ImplementsAccount == TheAccount!Spec

\* Code behaviour: _send_tx returns after a receipt of status 1, and the view
\* before it reads what is mined.  A caller that is told it is done, now or
\* before, asked for an operation that has been executed.
AnswersAreTruthful ==
  \A c \in Callers : call[c].step \in {"ok", "known"} => call[c].op \in Executed
=============================================================================
